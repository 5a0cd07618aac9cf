-------------------------------- MODULE Rpc --------------------------------
(***************************************************************************)
(* The RPC layer: MyRPC::RpcChannel in the clients, MyRPC::RpcServer with  *)
(* its ThreadPool in the server, and the connections between them as       *)
(* TcpClient and TcpServer provide them: in order, nothing lost or added   *)
(* while up, everything on the way lost when the connection goes down, and *)
(* no connection after that.  Each client has one RpcChannel; any of its   *)
(* threads makes calls.                                                    *)
(***************************************************************************)
EXTENDS Integers, Sequences, FiniteSets

CONSTANTS
    Clients,   \* the clients, each with its connection
    Calls,     \* the calls made
    ClientOf,  \* the client that makes a call
    KindOf,    \* what a call runs into: see Kinds
    Workers,   \* the threads of the ThreadPool
    SeqSpace,  \* number of sequence ids, 2^32 in the code
    None       \* no job, no call, no outcome yet

\* A call of a registered method; one whose response the client cannot parse;
\* one of an unknown method; one whose request the server cannot parse; one of
\* a service nobody registered.
Kinds == {"ok", "badResponse", "noMethod", "badRequest", "noService"}

ASSUME CallsAssumption ==
    /\ ClientOf \in [Calls -> Clients]
    /\ KindOf \in [Calls -> Kinds]

\* The ids of a channel may wrap around, but not within the calls considered.
ASSUME SeqAssumption ==
    /\ SeqSpace \in Nat \ {0}
    /\ \A k \in Clients :
          LET calls == {c \in Calls : ClientOf[c] = k}
          IN  IsFiniteSet(calls) /\ Cardinality(calls) <= SeqSpace

VARIABLES
    link,         \* the connection of a client: "none" yet, "up" or "down"
    pc,           \* where each call is in CallMethod
    seq,          \* its sequence id, once it has one
    nextSeq,      \* nextSequenceId_ of each channel
    outstandings, \* outstandings_ of each channel: id to call, as pairs
    clientTasks,  \* the sends queued in each client's loop
    requests,     \* the requests on each connection
    jobs,         \* the ThreadPool's tasks
    working,      \* what each worker works on
    serverTasks,  \* the sends queued in the server's loop
    responses,    \* the responses on each connection
    completing,   \* the call each client found for a response, before done->Run
    outcome,      \* what done found: nothing failed, or the error code
    lost          \* history: calls whose request or response was thrown away

callers == <<pc, seq, nextSeq, outstandings>>
wire == <<clientTasks, requests, serverTasks, responses>>
pool == <<jobs, working>>
results == <<completing, outcome>>
vars == <<link, callers, wire, pool, results, lost>>

Ids == 0..SeqSpace - 1
Codes == {"0", "-1", "1001", "1002"}  \* errCode_ of a controller, "0" if not failed
Request == [id : Ids, kind : Kinds]
Job == [client : Clients, id : Ids, kind : Kinds]
\* type 1 is a result, type 2 an error with err_code; body: whether it parses.
Response == [id : Ids, type : {1, 2}, code : Codes, body : BOOLEAN]
ASSUME NoneAssumption == None \notin Codes \cup Job \cup (Calls \X Response)

\* Types; a call is in the table only between its insertion and its response.
TypeOK ==
    /\ link \in [Clients -> {"none", "up", "down"}]
    /\ pc \in [Calls -> {"ready", "numbered", "inserted", "returned"}]
    /\ seq \in [Calls -> Ids]
    /\ nextSeq \in [Clients -> Ids]
    /\ outstandings \in [Clients -> SUBSET (Ids \X Calls)]
    /\ \A c \in Calls : <<seq[c], c>> \in outstandings[ClientOf[c]]
          => pc[c] \in {"inserted", "returned"} /\ outcome[c] = None
    /\ clientTasks \in [Clients -> Seq(Request)]
    /\ requests \in [Clients -> Seq(Request)]
    /\ jobs \in Seq(Job)
    /\ working \in [Workers -> Job \cup {None}]
    /\ serverTasks \in Seq([client : Clients, response : Response])
    /\ responses \in [Clients -> Seq(Response)]
    /\ completing \in [Clients -> (Calls \X Response) \cup {None}]
    /\ outcome \in [Calls -> Codes \cup {None}]
    /\ lost \subseteq Calls

Init ==
    /\ link = [k \in Clients |-> "none"]
    /\ pc = [c \in Calls |-> "ready"]
    /\ seq = [c \in Calls |-> 0]
    /\ nextSeq = [k \in Clients |-> 1 % SeqSpace]
    /\ outstandings = [k \in Clients |-> {}]
    /\ clientTasks = [k \in Clients |-> <<>>]
    /\ requests = [k \in Clients |-> <<>>]
    /\ jobs = <<>>
    /\ working = [w \in Workers |-> None]
    /\ serverTasks = <<>>
    /\ responses = [k \in Clients |-> <<>>]
    /\ completing = [k \in Clients |-> None]
    /\ outcome = [c \in Calls |-> None]
    /\ lost = {}

\* The calls of client k with one of these ids: theirs are the lost messages.
CallsWith(k, ids) == {c \in Calls : ClientOf[c] = k /\ pc[c] # "ready" /\ seq[c] \in ids}
IdsIn(msgs) == {msgs[i].id : i \in DOMAIN msgs}

\* A message is handed to the connection of client k, which drops it if it is down.
Handed(k, queue, msg) == IF link[k] = "up" THEN [queue EXCEPT ![k] = Append(@, msg)] ELSE queue
LostIfDown(k, ids) == IF link[k] = "up" THEN lost ELSE lost \cup CallsWith(k, ids)

----------------------------------------------------------------------------
\* The connections

Connected(k) ==
    /\ link[k] = "none"
    /\ link' = [link EXCEPT ![k] = "up"]
    /\ UNCHANGED <<callers, wire, pool, results, lost>>

\* The connection closes, whatever the reason; what is on the way is lost.
Disconnected(k) ==
    /\ link[k] = "up"
    /\ link' = [link EXCEPT ![k] = "down"]
    /\ requests' = [requests EXCEPT ![k] = <<>>]
    /\ responses' = [responses EXCEPT ![k] = <<>>]
    /\ lost' = lost \cup CallsWith(k, IdsIn(requests[k]) \cup IdsIn(responses[k]))
    /\ UNCHANGED <<callers, clientTasks, serverTasks, pool, results>>

----------------------------------------------------------------------------
\* RpcChannel::CallMethod, in any thread of the client

\* Mutant: the counter is read and incremented in two steps, so a call may get
\* the id of one that is about to use it.
FetchedTwice(k) ==
    {nextSeq[k]} \cup {seq[d] : d \in {e \in Calls : ClientOf[e] = k /\ pc[e] = "numbered"}}

\* nextSequenceId_.fetch_add(1), atomic; the counter has 32 bits.
Fetched(k) == {nextSeq[k]}

\* The sequence id.
TakeId(c) ==
    /\ pc[c] = "ready"
    /\ \E id \in Fetched(ClientOf[c]) : seq' = [seq EXCEPT ![c] = id]
    /\ nextSeq' = [nextSeq EXCEPT ![ClientOf[c]] = (@ + 1) % SeqSpace]
    /\ pc' = [pc EXCEPT ![c] = "numbered"]
    /\ UNCHANGED <<link, outstandings, wire, pool, results, lost>>

\* The entry of the table of calls that wait for a response.
Insert(c) ==
    /\ pc[c] = "numbered"
    /\ outstandings' = [outstandings EXCEPT ![ClientOf[c]] =
          {e \in @ : e[1] # seq[c]} \cup {<<seq[c], c>>}]
    /\ pc' = [pc EXCEPT ![c] = "inserted"]
    /\ UNCHANGED <<link, seq, nextSeq, wire, pool, results, lost>>

RequestOf(c) == [id |-> seq[c], kind |-> KindOf[c]]

\* TcpClient::send queues the request in the client's loop; without a connection
\* it drops it.  CallMethod returns.
Send(c) ==
    /\ pc[c] = "inserted"
    /\ pc' = [pc EXCEPT ![c] = "returned"]
    /\ clientTasks' = Handed(ClientOf[c], clientTasks, RequestOf(c))
    /\ lost' = LostIfDown(ClientOf[c], {seq[c]})
    /\ UNCHANGED <<link, seq, nextSeq, outstandings, requests, serverTasks, responses,
                   pool, results>>

\* The client's loop writes the request, unless the connection is gone.
WriteRequest(k) ==
    /\ clientTasks[k] # <<>>
    /\ clientTasks' = [clientTasks EXCEPT ![k] = Tail(@)]
    /\ requests' = Handed(k, requests, Head(clientTasks[k]))
    /\ lost' = LostIfDown(k, {Head(clientTasks[k]).id})
    /\ UNCHANGED <<link, callers, serverTasks, responses, pool, results>>

----------------------------------------------------------------------------
\* RpcServer: the I/O loop, then a worker, then the I/O loop again

\* onRpcMessage: a request for a registered service becomes a task of the pool,
\* one for another service is dropped.
ReceiveRequest(k) ==
    /\ requests[k] # <<>>
    /\ requests' = [requests EXCEPT ![k] = Tail(@)]
    /\ LET r == Head(requests[k])
       IN  \/ /\ r.kind # "noService"
              /\ jobs' = Append(jobs, [client |-> k, id |-> r.id, kind |-> r.kind])
              /\ UNCHANGED lost
           \/ /\ r.kind = "noService"
              /\ lost' = lost \cup CallsWith(k, {r.id})
              /\ UNCHANGED jobs
    /\ UNCHANGED <<link, callers, clientTasks, serverTasks, responses, working, results>>

\* A worker takes the task at the front.
TakeJob(w) ==
    /\ jobs # <<>>
    /\ working[w] = None
    /\ working' = [working EXCEPT ![w] = Head(jobs)]
    /\ jobs' = Tail(jobs)
    /\ UNCHANGED <<link, callers, wire, results, lost>>

Error(id, code) == [id |-> id, type |-> 2, code |-> code, body |-> TRUE]
Result(id, ok) == [id |-> id, type |-> 1, code |-> "0", body |-> ok]

\* What a worker answers: an error response, whose body is empty, or what the
\* service produced.
ResponseTo(job) ==
    CASE job.kind = "noMethod"   -> Error(job.id, "1001")
      [] job.kind = "badRequest" -> Error(job.id, "1002")
      [] OTHER                   -> Result(job.id, job.kind = "ok")

\* Mutant: nothing is sent when there was an error.
AnswersIfResult(job) ==
    IF ResponseTo(job).type = 2 THEN <<>>
    ELSE <<[client |-> job.client, response |-> ResponseTo(job)]>>

\* The closure queued in the loop of the connection the request came from.
Answers(job) == <<[client |-> job.client, response |-> ResponseTo(job)]>>

\* The method has run and called done, or there was an error.
FinishJob(w) ==
    /\ working[w] # None
    /\ serverTasks' = serverTasks \o Answers(working[w])
    /\ working' = [working EXCEPT ![w] = None]
    /\ UNCHANGED <<link, callers, clientTasks, requests, responses, jobs, results, lost>>

\* The server's loop writes the response, unless the connection is gone.
WriteResponse ==
    /\ serverTasks # <<>>
    /\ serverTasks' = Tail(serverTasks)
    /\ LET t == Head(serverTasks)
       IN  /\ responses' = Handed(t.client, responses, t.response)
           /\ lost' = LostIfDown(t.client, {t.response.id})
    /\ UNCHANGED <<link, callers, clientTasks, requests, pool, results>>

----------------------------------------------------------------------------
\* RpcChannel::onRpcResponse, in the client's loop

Found(k, id) == {e[2] : e \in {o \in outstandings[k] : o[1] = id}}

\* The entry of the response's id is found and erased under the mutex; without
\* one the response is dropped.
ReceiveResponse(k) ==
    LET r == Head(responses[k])
    IN  /\ responses[k] # <<>>
        /\ completing[k] = None
        /\ responses' = [responses EXCEPT ![k] = Tail(@)]
        /\ IF Found(k, r.id) = {}
           THEN UNCHANGED <<completing, outstandings>>
           ELSE /\ \E c \in Found(k, r.id) :
                      completing' = [completing EXCEPT ![k] = <<c, r>>]
                /\ outstandings' = [outstandings EXCEPT ![k] = {e \in @ : e[1] # r.id}]
        /\ UNCHANGED <<link, pc, seq, nextSeq, clientTasks, requests, serverTasks, pool,
                       outcome, lost>>

\* Mutant: the type of the response is not looked at.
CodeUntyped(r) == IF r.body THEN "0" ELSE "-1"

\* What the controller is told: the error of an error response, -1 if the body
\* does not parse.
CodeOf(r) ==
    CASE r.type = 2            -> r.code
      [] r.type = 1 /\ ~r.body -> "-1"
      [] OTHER                 -> "0"

\* Mutant: done does not run for an error response.
DoneIfResult(c, r) == IF r.type = 2 THEN outcome ELSE [outcome EXCEPT ![c] = CodeOf(r)]

\* done of call c runs.
Done(c, r) == [outcome EXCEPT ![c] = CodeOf(r)]

\* The controller gets the error, if any, and done runs, without the mutex.
Complete(k) ==
    /\ completing[k] # None
    /\ outcome' = Done(completing[k][1], completing[k][2])
    /\ completing' = [completing EXCEPT ![k] = None]
    /\ UNCHANGED <<link, callers, wire, pool, lost>>

----------------------------------------------------------------------------
CallMethod(c) == TakeId(c) \/ Insert(c) \/ Send(c)

ClientLoop(k) == WriteRequest(k) \/ ReceiveResponse(k) \/ Complete(k)

ServerLoop == WriteResponse \/ \E k \in Clients : ReceiveRequest(k)

Worker(w) == TakeJob(w) \/ FinishJob(w)

Next ==
    \/ \E k \in Clients : Connected(k) \/ Disconnected(k) \/ ClientLoop(k)
    \/ \E c \in Calls : CallMethod(c)
    \/ ServerLoop
    \/ \E w \in Workers : Worker(w)

Spec == Init /\ [][Next]_vars

\* Threads inside CallMethod go on, both loops and the workers work, and the
\* methods of services call done.
Fairness ==
    /\ \A c \in Calls : WF_vars(Insert(c) \/ Send(c))
    /\ \A k \in Clients : WF_vars(ClientLoop(k)) /\ WF_vars(ReceiveRequest(k))
    /\ WF_vars(WriteResponse)
    /\ \A w \in Workers : WF_vars(Worker(w))

FairSpec == Spec /\ Fairness

----------------------------------------------------------------------------
\* Properties

\* done runs at most once per call, after the call, and finds the outcome of
\* this call, not of another thread's or client's with the same or another id.
DeservedBy(kind) ==
    CASE kind = "ok"          -> "0"
      [] kind = "badResponse" -> "-1"
      [] kind = "noMethod"    -> "1001"
      [] OTHER                -> "1002"

Service == INSTANCE RpcService WITH
    NoOutcome <- None,
    OutcomeOf <- [c \in Calls |-> DeservedBy(KindOf[c])],
    made <- {c \in Calls : pc[c] # "ready"}

IsRpcService == Service!Spec

\* Where the messages of client k are, as sets of ids.
IdsOnTheWay(k) ==
    IdsIn(clientTasks[k]) \cup IdsIn(requests[k])
        \cup {jobs[i].id : i \in {j \in DOMAIN jobs : jobs[j].client = k}}
        \cup {working[w].id : w \in {v \in Workers : working[v] # None /\ working[v].client = k}}
        \cup {serverTasks[i].response.id : i \in
                 {j \in DOMAIN serverTasks : serverTasks[j].client = k}}
        \cup IdsIn(responses[k])

\* Whatever is on its way, to the server or back, has an entry that waits for
\* it: no response is ever dropped as unknown.
ResponseExpected ==
    \A k \in Clients : \A id \in IdsOnTheWay(k) :
        Cardinality(Found(k, id)) = 1

\* A call that waits is on the way somewhere, or was lost with its connection or
\* for want of a service; an entry without either would wait for nothing.
EntryAccountedFor ==
    \A k \in Clients : \A e \in outstandings[k] :
        pc[e[2]] = "returned" => e[1] \in IdsOnTheWay(k) \/ e[2] \in lost

\* A call made on a connection that stays up completes, unless nobody registered
\* the service.
CallCompletes ==
    \A c \in Calls :
        RequestOf(c) \in {clientTasks[ClientOf[c]][i] : i \in DOMAIN clientTasks[ClientOf[c]]}
            ~> outcome[c] # None \/ link[ClientOf[c]] = "down" \/ KindOf[c] = "noService"

\* What the documentation of RpcController::Failed says: it is true when the call
\* failed, because the server returned an error or the network failed.
NetworkFailureReported ==
    \A c \in Calls :
        c \in lost /\ link[ClientOf[c]] = "down" ~> outcome[c] \notin {None, "0"}
============================================================================
