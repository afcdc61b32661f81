----------------------------- MODULE Middleware -----------------------------
(***************************************************************************)
(* module2_middleware: MiddlewareServiceImpl and MiddlewareServer of       *)
(* src/middleware_server.cpp, with the thread pool before and the          *)
(* inference server behind it.                                             *)
(*                                                                         *)
(*   robots --- GrpcCalls --> handlers --- TaskQueue --> workers           *)
(*                                           --- InferenceServer (Up)      *)
(*                                                                         *)
(* A frame <<r, n>> is request n of call r; it stands for the request, for *)
(* the task that forwards it and for the response, which echoes its robot  *)
(* and timestamp (inference_server.cpp:41). The pool is the TaskQueue that *)
(* ThreadPool implements. A worker reaches the inference server with one   *)
(* unary call per task, so there the frames are the calls.                 *)
(***************************************************************************)
EXTENDS Naturals, Sequences, FiniteSets

CONSTANTS
  Unary,      \* calls of Detect from robots
  Streams,    \* calls of DetectStream from robots
  MaxFrames,  \* bound: requests on one stream
  Workers,    \* the threads of pool_
  None        \* no frame, no task, no result

VARIABLES
  client, sent, replies,    \* the robots' side, as in GrpcCalls
  rpc,              \* rpc[r]: where the handler of call r is
  read,             \* read[r]: requests the handler has read
  req,              \* req[r]: the request object of the handler, while it lives
  phase,            \* the gRPC server behind server_, then its destruction
  queue, slot, result, open,                      \* pool_, as a TaskQueue
  outgoing,         \* outgoing[w]: the frame in the upstream call of worker w
  response,         \* response[t]: the response in the future of task t
  total_forwarded,
  upClient, upSent, upReplies, upRpc, upRead,     \* the inference server
  total_inferences

Rpcs == Unary \cup Streams
Frames == Unary \X {1} \cup Streams \X (1..MaxFrames)

ASSUME MiddlewareAssumption ==
  /\ Unary \cap Streams = {}
  /\ MaxFrames \in Nat \ {0}
  /\ None \notin Frames \cup {"pending", "value", "exception", "refused"}

Robots == INSTANCE GrpcCalls

Pool == INSTANCE TaskQueue WITH Calls <- Frames, Slots <- Workers

\* An inference server that does not shut down: one that is gone, or was
\* never there, only makes calls fail, which forward() must expect anyway.
Up == INSTANCE InferenceServer WITH
        Unary <- Frames, Streams <- {}, MaxFrames <- 1,
        client <- upClient, sent <- upSent, replies <- upReplies,
        rpc <- upRpc, read <- upRead, phase <- "serving"

callVars    == <<client, sent, replies>>
handlerVars == <<rpc, read, req>>
poolVars    == <<queue, slot, result, open>>
workerVars  == <<outgoing, response, total_forwarded>>
upVars      == <<upClient, upSent, upReplies, upRpc, upRead, total_inferences>>
vars == <<callVars, handlerVars, phase, poolVars, workerVars, upVars>>

HandlerPoints == {"new", "reading", "enqueue", "awaiting", "done"}
Phases == {"serving", "draining", "stopped", "closing", "destroyed"}
Results == {None, "pending", "value", "exception", "refused"}

TypeOK ==
  /\ client \in [Rpcs -> Robots!ClientStates]
  /\ sent \in [Rpcs -> 0..MaxFrames] /\ read \in [Rpcs -> 0..MaxFrames]
  /\ replies \in [Rpcs -> Seq(Frames)]
  /\ rpc \in [Rpcs -> HandlerPoints]
  /\ req \in [Rpcs -> Frames \cup {None}]
  /\ phase \in Phases
  /\ queue \in Seq(Frames)
  /\ slot \in [Workers -> Frames \cup {None}]
  /\ result \in [Frames -> Results]
  /\ open \in BOOLEAN
  /\ outgoing \in [Workers -> Frames \cup {None}]
  /\ response \in [Frames -> Frames \cup {None}]
  /\ total_forwarded \in Nat
  /\ Up!TypeOK

Init ==
  /\ Robots!Init
  /\ rpc = [r \in Rpcs |-> "new"]
  /\ read = [r \in Rpcs |-> 0]
  /\ req = [r \in Rpcs |-> None]
  /\ phase = "serving"
  /\ Pool!Init
  /\ outgoing = [w \in Workers |-> None]
  /\ response = [t \in Frames |-> None]
  /\ total_forwarded = 0
  /\ Up!ServerInit

-----------------------------------------------------------------------------
(* The handlers. The task, and the future, of a handler are those of the   *)
(* request it read last.                                                   *)

Task(r) == <<r, read[r]>>

Goes(r, from, to) ==
  /\ rpc[r] = from
  /\ rpc' = [rpc EXCEPT ![r] = to]

(* A handler that returns takes its request object with it.                *)
Returns(r, from) ==
  /\ Goes(r, from, "done")
  /\ req' = [req EXCEPT ![r] = None]

(* The end of one request: a unary handler returns a status, a stream      *)
(* handler is back at its Read with the old request still in place.        *)
RequestEnds(r, from) ==
  IF r \in Unary THEN Returns(r, from) ELSE Goes(r, from, "reading") /\ UNCHANGED req

NextRequest(r) ==
  /\ read' = [read EXCEPT ![r] = @ + 1]
  /\ req' = [req EXCEPT ![r] = <<r, read[r] + 1>>]

(* gRPC parses the request of a unary call before it calls the handler.    *)
Detect(u) ==
  /\ phase = "serving"
  /\ client[u] # "new"
  /\ Goes(u, "new", "enqueue")
  /\ NextRequest(u)
  /\ UNCHANGED <<callVars, phase, poolVars, workerVars, upVars>>

DetectStream(s) ==
  /\ phase = "serving"
  /\ client[s] # "new"
  /\ Goes(s, "new", "reading")
  /\ UNCHANGED <<callVars, read, req, phase, poolVars, workerVars, upVars>>

\* Fault: the result of Read is not looked at.
ReadUnchecked(s) ==
  /\ Goes(s, "reading", "enqueue")
  /\ NextRequest(s)
  /\ UNCHANGED <<callVars, phase, poolVars, workerVars, upVars>>

(* stream->Read(&req) with a message.                                      *)
Read(s) ==
  /\ read[s] < sent[s]
  /\ Goes(s, "reading", "enqueue")
  /\ NextRequest(s)
  /\ UNCHANGED <<callVars, phase, poolVars, workerVars, upVars>>

\* Fault: the loop ends at the client's half-close only.
ReadFailsIfClosed(s) ==
  /\ client[s] = "closed" /\ read[s] = sent[s]
  /\ Returns(s, "reading")
  /\ UNCHANGED <<callVars, read, phase, poolVars, workerVars, upVars>>

(* stream->Read(&req) is false: half-closed and drained, or disconnected.  *)
ReadFails(s) ==
  /\ Robots!NothingToRead(s, read[s])
  /\ Returns(s, "reading")
  /\ UNCHANGED <<callVars, read, phase, poolVars, workerVars, upVars>>

(* pool_.enqueue(). That it throws on a stopped pool is not modelled here: *)
(* NeverRefused shows that no handler meets one.                           *)
Enqueue(r) ==
  /\ Goes(r, "enqueue", "awaiting")
  /\ Pool!Accept(Task(r))
  /\ UNCHANGED <<callVars, read, req, phase, workerVars, upVars>>

(* The handler waits on its future, which is in one of these states.       *)
Ready(r, states) == rpc[r] = "awaiting" /\ result[Task(r)] \in states

(* future.get() has a response: it goes out, and a failed Write ends the   *)
(* stream.                                                                 *)
Get(r) ==
  /\ Ready(r, {"value"})
  /\ \/ RequestEnds(r, "awaiting")
     \/ client[r] = "gone" /\ Returns(r, "awaiting")
  /\ Robots!Deliver(r, response[Task(r)])
  /\ UNCHANGED <<read, phase, poolVars, workerVars, upVars>>

\* Fault: future.wait_for() instead of get(), with an error on timeout.
GetGivesUp(r) ==
  /\ Ready(r, {"exception", "pending"})
  /\ RequestEnds(r, "awaiting")
  /\ UNCHANGED <<callVars, read, phase, poolVars, workerVars, upVars>>

\* Fault: an empty response for a frame that failed.
GetThrowsAndWrites(r) ==
  /\ Ready(r, {"exception"})
  /\ RequestEnds(r, "awaiting")
  /\ Robots!Deliver(r, Task(r))
  /\ UNCHANGED <<read, phase, poolVars, workerVars, upVars>>

(* future.get() throws: INTERNAL for a unary call; a stream logs it, sends *)
(* nothing for this frame and goes on.                                     *)
GetThrows(r) ==
  /\ Ready(r, {"exception"})
  /\ RequestEnds(r, "awaiting")
  /\ UNCHANGED <<callVars, read, phase, poolVars, workerVars, upVars>>

Handler(r) ==
  \/ r \in Streams /\ (Read(r) \/ ReadFails(r))
  \/ Enqueue(r) \/ Get(r) \/ GetThrows(r)

Call(r) == (r \in Unary /\ Detect(r)) \/ (r \in Streams /\ DetectStream(r))

-----------------------------------------------------------------------------
(* The workers of the pool and forward().                                  *)

Take(w) ==
  /\ Pool!Start(w)
  /\ UNCHANGED <<callVars, handlerVars, phase, workerVars, upVars>>

(* The task of a stream carries a copy of the request; the task of a unary *)
(* call carries a pointer to the request object of its handler.            *)
Captured(t) == IF t[1] \in Unary THEN req[t[1]] ELSE t

(* forward() serialises the request and sends it, under a deadline. What a *)
(* request object that is gone would hold is undefined; RequestAlive says  *)
(* that it never comes to that.                                            *)
Forward(w) ==
  /\ slot[w] # None
  /\ outgoing[w] = None
  /\ Captured(slot[w]) # None
  /\ outgoing' = [outgoing EXCEPT ![w] = Captured(slot[w])]
  /\ Up!CallDetect(Captured(slot[w]))
  /\ UNCHANGED <<callVars, handlerVars, phase, poolVars, response, total_forwarded,
                 upRpc, upRead, total_inferences>>

\* Fault: the workers share one response object.
ForwardReturnsShared(w) ==
  /\ outgoing[w] # None
  /\ upReplies[outgoing[w]] # <<>>
  /\ Pool!Finish(w, "value")
  /\ \E v \in Workers :
       /\ outgoing[v] # None
       /\ upReplies[outgoing[v]] # <<>>
       /\ response' = [response EXCEPT ![slot[w]] = Head(upReplies[outgoing[v]])[1]]
  /\ outgoing' = [outgoing EXCEPT ![w] = None]
  /\ total_forwarded' = total_forwarded + 1
  /\ UNCHANGED <<callVars, handlerVars, phase, upVars>>

(* The response arrived in time: counted, and stored in the future.        *)
ForwardReturns(w) ==
  /\ outgoing[w] # None
  /\ upReplies[outgoing[w]] # <<>>
  /\ Pool!Finish(w, "value")
  /\ response' = [response EXCEPT ![slot[w]] = Head(upReplies[outgoing[w]])[1]]
  /\ outgoing' = [outgoing EXCEPT ![w] = None]
  /\ total_forwarded' = total_forwarded + 1
  /\ UNCHANGED <<callVars, handlerVars, phase, upVars>>

\* Fault: the counter goes up before the status is looked at.
ForwardThrowsCounted(w) ==
  /\ outgoing[w] # None
  /\ Pool!Finish(w, "exception")
  /\ Up!Leave(outgoing[w])
  /\ outgoing' = [outgoing EXCEPT ![w] = None]
  /\ total_forwarded' = total_forwarded + 1
  /\ UNCHANGED <<callVars, handlerVars, phase, response, upRpc, upRead, total_inferences>>

\* Fault: the exception is swallowed and the promise never kept.
ForwardThrowsSwallowed(w) ==
  /\ outgoing[w] # None
  /\ slot' = [slot EXCEPT ![w] = None]
  /\ Up!Leave(outgoing[w])
  /\ outgoing' = [outgoing EXCEPT ![w] = None]
  /\ UNCHANGED <<callVars, handlerVars, phase, queue, result, open, response,
                 total_forwarded, upRpc, upRead, total_inferences>>

(* The status is not OK: the inference server answered INTERNAL, or cannot *)
(* be reached, or the deadline passed. In the last case the call is over   *)
(* for the middleware while the server may still be working on it.         *)
ForwardThrows(w) ==
  /\ outgoing[w] # None
  /\ Pool!Finish(w, "exception")
  /\ Up!Leave(outgoing[w])
  /\ outgoing' = [outgoing EXCEPT ![w] = None]
  /\ UNCHANGED <<callVars, handlerVars, phase, response, total_forwarded,
                 upRpc, upRead, total_inferences>>

Upstream(f) ==
  /\ Up!Call(f) \/ Up!Handler(f)
  /\ UNCHANGED <<callVars, handlerVars, phase, poolVars, workerVars>>

-----------------------------------------------------------------------------
(* MiddlewareServer: Shutdown() lets the handlers finish, then Run()       *)
(* returns and main() destroys the server, the service and its pool.       *)

\* Fault: Shutdown() stops the pool as well.
ShutdownAndClose ==
  /\ phase = "serving"
  /\ phase' = "draining"
  /\ Pool!Close
  /\ UNCHANGED <<callVars, handlerVars, workerVars, upVars>>

Shutdown ==
  /\ phase = "serving"
  /\ phase' = "draining"
  /\ UNCHANGED <<callVars, handlerVars, poolVars, workerVars, upVars>>

(* server_->Wait() returns when no handler is left.                        *)
Drained ==
  /\ phase = "draining"
  /\ \A r \in Rpcs : rpc[r] \in {"new", "done"}
  /\ phase' = "stopped"
  /\ UNCHANGED <<callVars, handlerVars, poolVars, workerVars, upVars>>

(* ~ThreadPool(): stop, then join the workers.                             *)
ClosePool ==
  /\ phase = "stopped"
  /\ phase' = "closing"
  /\ Pool!Close
  /\ UNCHANGED <<callVars, handlerVars, workerVars, upVars>>

Destroyed ==
  /\ phase = "closing"
  /\ queue = <<>> /\ \A w \in Workers : slot[w] = None
  /\ phase' = "destroyed"
  /\ UNCHANGED <<callVars, handlerVars, poolVars, workerVars, upVars>>

Teardown == Drained \/ ClosePool \/ Destroyed

(* Destroyed, and nobody will call any more.                               *)
Finished ==
  /\ phase = "destroyed"
  /\ \A r \in Rpcs : client[r] = "gone"
  /\ UNCHANGED vars

Next ==
  \/ Robots!ClientStep /\ UNCHANGED <<handlerVars, phase, poolVars, workerVars, upVars>>
  \/ \E r \in Rpcs : Call(r) \/ Handler(r)
  \/ \E w \in Workers : Take(w) \/ Forward(w) \/ ForwardReturns(w) \/ ForwardThrows(w)
  \/ \E f \in Frames : Upstream(f)
  \/ Shutdown \/ Teardown
  \/ Finished

SafeSpec == Init /\ [][Next]_vars

(* Threads that can run are scheduled, a free worker takes a waiting task, *)
(* and forward() ends, by its deadline at the latest. Nothing is asked of  *)
(* the clients or of the inference server.                                 *)
Fairness ==
  /\ \A r \in Rpcs : WF_vars(Handler(r))
  /\ WF_vars(\E w \in Workers : Take(w))
  /\ \A w \in Workers : WF_vars(Forward(w)) /\ WF_vars(ForwardReturns(w) \/ ForwardThrows(w))
  /\ WF_vars(Teardown)

Spec == SafeSpec /\ Fairness

-----------------------------------------------------------------------------
(* Safety.                                                                 *)

\* How many requests the handler of call r is through with.
Disposed(r) == IF rpc[r] \in {"enqueue", "awaiting"} THEN read[r] - 1 ELSE read[r]

Elements(seq) == {seq[i] : i \in 1..Len(seq)}

InPool == Elements(queue) \cup ({slot[w] : w \in Workers} \ {None})

\* Frames of one call that follow each other as they were sent, none twice.
InOrder(seq) == \A i, j \in 1..Len(seq) : i < j => seq[i][2] < seq[j][2]

\* The responses that robots hold, each as a call and a place in its replies.
Received == UNION {{r} \X (1..Len(replies[r])) : r \in Rpcs}

(* The pointer that the lambda of middleware_server.cpp:53 captures stays  *)
(* good: while a task waits or runs, the handler that made it is still in  *)
(* future.get() and its request object still holds this very frame, also   *)
(* when the robot has left or the server shuts down.                       *)
RequestAlive == \A t \in InPool : rpc[t[1]] = "awaiting" /\ req[t[1]] = t

(* The ordering guarantee of middleware_server.cpp:68, and no more frames  *)
(* lost than failed: what a robot that stays has received on a call is the *)
(* response to each frame that was forwarded with success, its own and in  *)
(* the order it sent them.                                                 *)
RepliesMatch ==
  \A r \in Rpcs :
    /\ InOrder(replies[r])
    /\ client[r] # "gone" =>
         Elements(replies[r]) = {t \in {r} \X (1..Disposed(r)) : result[t] = "value"}

(* Three totals that different threads keep never contradict each other:   *)
(* responses that robots hold <= total_forwarded() <= total_inferences().  *)
CountersAgree ==
  /\ Cardinality(Received) <= total_forwarded
  /\ total_forwarded <= total_inferences

(* A handler never meets a stopped pool, where enqueue() throws: the pool  *)
(* outlives the handlers through every order of calls and shutdown.        *)
NeverRefused == \A r \in Rpcs : rpc[r] \in {"reading", "enqueue"} => open

(* When Run() has returned nothing is left in the pool whose destructor    *)
(* comes next, so it never runs a task of a handler that is gone.          *)
IdleWhenStopped == phase \in {"stopped", "closing", "destroyed"} => InPool = {}

-----------------------------------------------------------------------------
(* Refinement and liveness.                                                *)

Service == INSTANCE InferenceService WITH handled <- [r \in Rpcs |-> Disposed(r)]

(* Through the pool, any number of workers and an inference server that    *)
(* answers in any order, the robot sees a service that answers in order.   *)
ImplementsService == Service!Spec

(* A handler whose robot has closed or left ends, whatever the inference   *)
(* server does: nobody waits for ever in future.get().                     *)
HandlersEnd ==
  \A r \in Rpcs : client[r] \in {"closed", "gone"} ~> rpc[r] \in {"new", "done"}

(* Shutdown gets through to the end of main() unless a robot keeps a       *)
(* stream open.                                                            *)
ShutdownEnds ==
  phase = "draining" ~>
    phase = "destroyed" \/ \E s \in Streams : client[s] = "open" /\ rpc[s] # "new"

=============================================================================
