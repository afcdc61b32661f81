-------------------------- MODULE MiddlewareProofs --------------------------
(***************************************************************************)
(* Proofs about Middleware, for any sets of calls and workers, any number  *)
(* of frames and any interleaving of robots, handlers, workers, inference  *)
(* server and shutdown.                                                    *)
(*                                                                         *)
(* The argument goes along the way of a frame: what a handler's place says *)
(* of its request (HandlerInv) and of its future (FutureInv), that the     *)
(* pool holds pending tasks only, each once (PoolInv), that a worker has   *)
(* the frame of its own task on the wire (ForwardInv), what has been       *)
(* answered at each point of a call (RepliesInv), and when the pool is     *)
(* open (PhaseInv). CountInv counts frames instead of adding up lengths.   *)
(***************************************************************************)
EXTENDS Middleware, TLAPS, FiniteSetTheorems

\* A handler has read no more than was sent; while it deals with a request
\* its request object holds that request; a unary call carries one request.
HandlerInv ==
  \A r \in Rpcs :
    /\ read[r] <= sent[r]
    /\ rpc[r] = "new" => read[r] = 0
    /\ rpc[r] \in {"enqueue", "awaiting"} => read[r] >= 1 /\ req[r] = Task(r)
    /\ client[r] = "new" => rpc[r] = "new" /\ sent[r] = 0
    /\ r \in Unary => rpc[r] # "reading" /\ (client[r] # "new" => sent[r] = 1)

\* A future that is pending is one that its handler waits for; a handler has
\* no future for its request before enqueue(), and waits on one that it has.
FutureInv ==
  \A t \in Frames :
    /\ result[t] = "pending" => rpc[t[1]] = "awaiting" /\ t = Task(t[1])
    /\ result[t] # None => t[2] <= read[t[1]]
    /\ rpc[t[1]] = "enqueue" /\ t = Task(t[1]) => result[t] = None
    /\ rpc[t[1]] = "awaiting" /\ t = Task(t[1]) => result[t] \in {"pending", "value", "exception"}

\* What is in the pool is pending, and it is there once.
PoolInv ==
  /\ \A t \in InPool : result[t] = "pending"
  /\ \A i, j \in 1..Len(queue) : queue[i] = queue[j] => i = j
  /\ \A v, w \in Workers : slot[v] = slot[w] /\ slot[v] # None => v = w
  /\ \A i \in 1..Len(queue), w \in Workers : queue[i] # slot[w]

\* A worker has the frame of its own task on the wire; what the inference
\* server sends back, and what a future holds, is for its own frame.
ForwardInv ==
  /\ \A w \in Workers : outgoing[w] # None => outgoing[w] = slot[w]
  /\ \A f \in Frames : upRpc[f] \in {"processing", "answering"} => upRead[f] = 1
  /\ \A f \in Frames : \A i \in 1..Len(upReplies[f]) : upReplies[f][i][1] = f
  /\ \A t \in Frames : result[t] = "value" => response[t] = t /\ upReplies[t] # <<>>

\* The pool closes when Run() has returned, and then no handler is left.
PhaseInv ==
  /\ open <=> phase \notin {"closing", "destroyed"}
  /\ phase \in {"stopped", "closing", "destroyed"} => \A r \in Rpcs : rpc[r] \in {"new", "done"}

\* The frames of call r that were answered, among those disposed of.
Answered(r) == {t \in {r} \X (1..Disposed(r)) : result[t] = "value"}

\* A robot has the responses to some of these frames, all while it stays.
RepliesInv ==
  \A r \in Rpcs :
    /\ InOrder(replies[r])
    /\ Elements(replies[r]) \subseteq Answered(r)
    /\ client[r] # "gone" => Answered(r) \subseteq Elements(replies[r])

\* Frames forwarded with success, and frames the inference server answered.
Forwarded == {t \in Frames : result[t] = "value"}
Inferred == {f \in Frames : upRpc[f] = "answering" \/ upReplies[f] # <<>>}

CountInv ==
  /\ IsFiniteSet(Forwarded) /\ total_forwarded = Cardinality(Forwarded)
  /\ IsFiniteSet(Inferred) /\ Cardinality(Inferred) <= total_inferences

IInv ==
  /\ TypeOK
  /\ HandlerInv /\ FutureInv /\ PoolInv /\ ForwardInv /\ PhaseInv
  /\ RepliesInv /\ CountInv

-----------------------------------------------------------------------------
(* A frame is a call and a place on it; a unary call has the place 1 only. *)
LEMMA FrameFacts ==
  /\ \A r \in Unary : r \in Rpcs /\ <<r, 1>> \in Frames
  /\ \A r \in Streams, n \in 1..MaxFrames : r \in Rpcs /\ <<r, n>> \in Frames
  /\ \A t \in Frames : /\ t[1] \in Rpcs /\ t[2] \in 1..MaxFrames /\ t = <<t[1], t[2]>>
                       /\ t[1] \in Unary => t[2] = 1
                       /\ t # None
  /\ \A r \in Rpcs : r \in Unary \/ r \in Streams
  /\ Up!Rpcs = Frames
<1>1. \A t \in Unary \X {1} : t[1] \in Unary /\ t[2] = 1 /\ t = <<t[1], t[2]>>
  OBVIOUS
<1>2. \A t \in Streams \X (1..MaxFrames) :
        t[1] \in Streams /\ t[2] \in 1..MaxFrames /\ t = <<t[1], t[2]>>
  OBVIOUS
<1>3. 1 \in 1..MaxFrames
  BY MiddlewareAssumption
<1> QED
  BY <1>1, <1>2, <1>3, MiddlewareAssumption DEF Frames, Rpcs, Up!Rpcs

(* The task of a handler that deals with a request is a frame.             *)
LEMMA TaskIsFrame ==
  ASSUME TypeOK, HandlerInv, NEW r \in Rpcs, rpc[r] \in {"enqueue", "awaiting"}
  PROVE  Task(r) \in Frames /\ Task(r)[1] = r /\ Task(r)[2] = read[r] /\ read[r] \in 1..MaxFrames
<1>1. read[r] \in 1..MaxFrames /\ (r \in Unary => read[r] = 1)
  BY MiddlewareAssumption DEF TypeOK, HandlerInv
<1> QED
  BY <1>1, FrameFacts DEF Task

(* What the steps of a handler leave alone.                                *)
LEMMA HandlerKeeps ==
  ASSUME NEW r \in Rpcs, Call(r) \/ Handler(r)
  PROVE  /\ UNCHANGED <<client, sent, phase, slot, open, workerVars, upVars>>
         /\ ~Enqueue(r) => UNCHANGED poolVars
BY DEF Call, Detect, DetectStream, Handler, Read, ReadFails, Enqueue, Get, GetThrows, Robots!Deliver,
       Pool!Accept, callVars, poolVars

\* The steps of a worker.
WorkerStep(w) == Take(w) \/ Forward(w) \/ ForwardReturns(w) \/ ForwardThrows(w)

(* What the steps of a worker leave alone.                                 *)
LEMMA WorkerKeeps ==
  ASSUME NEW w \in Workers, WorkerStep(w)
  PROVE  UNCHANGED <<callVars, handlerVars, phase, open, upRpc, upReplies, upRead, total_inferences>>
BY DEF WorkerStep, Take, Forward, ForwardReturns, ForwardThrows, Pool!Start, Pool!Finish,
       Up!CallDetect, Up!Leave, poolVars, upVars

(* What the steps of the inference server leave alone.                     *)
LEMMA UpstreamKeeps ==
  ASSUME NEW f \in Frames, Upstream(f)
  PROVE  UNCHANGED <<callVars, handlerVars, phase, poolVars, workerVars, upClient, upSent>>
BY DEF Upstream, Up!Call, Up!Detect, Up!DetectStream, Up!Handler, Up!Read, Up!ReadFails,
       Up!Process, Up!ProcessThrows, Up!Reply, Up!Deliver, Up!callVars

(* What the steps of main(), and stuttering, leave alone.                  *)
LEMMA ShutdownKeeps ==
  ASSUME Shutdown \/ Teardown \/ Finished \/ UNCHANGED vars
  PROVE  UNCHANGED <<callVars, handlerVars, queue, slot, result, workerVars, upVars>>
BY DEF Shutdown, Teardown, Drained, ClosePool, Destroyed, Finished, Pool!Close, vars, poolVars

(* What the steps of a robot leave alone.                                  *)
LEMMA ClientKeeps ==
  ASSUME Robots!ClientStep
  PROVE  UNCHANGED replies
BY DEF Robots!ClientStep, Robots!CallDetect, Robots!CallDetectStream, Robots!Send,
       Robots!HalfClose, Robots!Leave

(* Every step is of one of these kinds.                                    *)
LEMMA StepKinds ==
  ASSUME [Next]_vars
  PROVE  \/ Robots!ClientStep /\ UNCHANGED <<handlerVars, phase, poolVars, workerVars, upVars>>
         \/ \E r \in Rpcs : Call(r) \/ Handler(r)
         \/ \E w \in Workers : WorkerStep(w)
         \/ \E f \in Frames : Upstream(f)
         \/ Shutdown \/ Teardown \/ Finished \/ UNCHANGED vars
BY DEF Next, WorkerStep

-----------------------------------------------------------------------------
(* Initially no call is made, and the pool is open and empty.              *)
LEMMA InitIInv == Init => IInv
<1> SUFFICES ASSUME Init PROVE IInv
  OBVIOUS
<1> USE FrameFacts, MiddlewareAssumption DEF Init, Robots!Init, Pool!Init, Up!ServerInit, Up!Init
<1>1. TypeOK
  <2>1. /\ client \in [Rpcs -> Robots!ClientStates]
        /\ sent \in [Rpcs -> 0..MaxFrames] /\ read \in [Rpcs -> 0..MaxFrames]
        /\ replies \in [Rpcs -> Seq(Frames)]
    BY DEF Robots!ClientStates, Robots!Rpcs, Rpcs
  <2>2. /\ rpc \in [Rpcs -> HandlerPoints]
        /\ req \in [Rpcs -> Frames \cup {None}]
        /\ phase \in Phases
    BY DEF HandlerPoints, Phases
  <2>3. /\ queue \in Seq(Frames)
        /\ slot \in [Workers -> Frames \cup {None}]
        /\ result \in [Frames -> Results]
        /\ open \in BOOLEAN
    BY DEF Results
  <2>4. /\ outgoing \in [Workers -> Frames \cup {None}]
        /\ response \in [Frames -> Frames \cup {None}]
        /\ total_forwarded \in Nat
    OBVIOUS
  <2>5. Up!TypeOK
    BY DEF Up!TypeOK, Up!ClientStates, Up!HandlerPoints, Up!Phases
  <2> QED
    BY <2>1, <2>2, <2>3, <2>4, <2>5 DEF TypeOK
<1>2. HandlerInv /\ PhaseInv
  BY DEF HandlerInv, PhaseInv, Robots!Rpcs, Rpcs
<1>3. FutureInv /\ PoolInv /\ ForwardInv
  BY DEF FutureInv, PoolInv, ForwardInv, InPool, Elements
<1>4. RepliesInv
  <2>1. \A r \in Rpcs : replies[r] = <<>> /\ Answered(r) = {}
    <3>1. \A r \in Rpcs : replies[r] = <<>> /\ Disposed(r) = 0
      BY DEF Disposed, Robots!Rpcs, Rpcs
    <3>2. 1..0 = {}
      OBVIOUS
    <3>3. \A r \in Rpcs : {r} \X (1..Disposed(r)) = {}
      BY <3>1, <3>2
    <3>4. ASSUME NEW r \in Rpcs PROVE Answered(r) = {}
      <4>1. PICK S : S = {r} \X (1..Disposed(r)) /\ S = {}
        BY <3>3
      <4>2. Answered(r) = {t \in S : result[t] = "value"}
        BY <4>1 DEF Answered
      <4> QED
        BY <4>1, <4>2
    <3> QED
      BY <3>1, <3>4
  <2>2. InOrder(<<>>) /\ Elements(<<>>) = {}
    BY DEF InOrder, Elements
  <2> QED
    BY <2>1, <2>2 DEF RepliesInv
<1>5. CountInv
  <2>1. Forwarded = {} /\ Inferred = {}
    BY DEF Forwarded, Inferred
  <2> QED
    BY <2>1, FS_EmptySet DEF CountInv
<1> QED
  BY <1>1, <1>2, <1>3, <1>4, <1>5 DEF IInv

-----------------------------------------------------------------------------
(* The steps of the robots keep the variables in their types.              *)
LEMMA ClientTypes ==
  ASSUME TypeOK, Robots!ClientStep, UNCHANGED <<handlerVars, phase, poolVars, workerVars, upVars>>
  PROVE  TypeOK'
<1> DEFINE CallTypes == /\ client \in [Rpcs -> Robots!ClientStates]
                        /\ sent \in [Rpcs -> 0..MaxFrames]
                        /\ replies \in [Rpcs -> Seq(Frames)]
<1>1. CallTypes'
  <2> USE MiddlewareAssumption DEF TypeOK, Robots!ClientStates, Robots!Rpcs, Rpcs, Robots!ClientGoes
  <2>1. ASSUME NEW u \in Unary, Robots!CallDetect(u) PROVE CallTypes'
    BY <2>1 DEF Robots!CallDetect
  <2>2. ASSUME NEW s \in Streams, Robots!CallDetectStream(s) PROVE CallTypes'
    BY <2>2 DEF Robots!CallDetectStream
  <2>3. ASSUME NEW s \in Streams, Robots!Send(s) PROVE CallTypes'
    BY <2>3 DEF Robots!Send
  <2>4. ASSUME NEW s \in Streams, Robots!HalfClose(s) PROVE CallTypes'
    BY <2>4 DEF Robots!HalfClose
  <2>5. ASSUME NEW r \in Robots!Rpcs, Robots!Leave(r) PROVE CallTypes'
    BY <2>5 DEF Robots!Leave
  <2> QED
    BY <2>1, <2>2, <2>3, <2>4, <2>5 DEF Robots!ClientStep
<1> QED
  BY <1>1 DEF TypeOK, handlerVars, poolVars, workerVars, upVars, Up!TypeOK

(* The steps of a handler keep the variables in their types.               *)
LEMMA HandlerTypes ==
  ASSUME TypeOK, HandlerInv, FutureInv, ForwardInv, NEW r \in Rpcs, Call(r) \/ Handler(r)
  PROVE  TypeOK'
<1> USE FrameFacts, MiddlewareAssumption
<1>1. rpc' \in [Rpcs -> HandlerPoints]
  BY HandlerKeeps
     DEF TypeOK, HandlerPoints, Call, Detect, DetectStream, Handler, Read, ReadFails, Enqueue, Get, GetThrows,
         RequestEnds, Returns, Goes
<1>2. read' \in [Rpcs -> 0..MaxFrames] /\ req' \in [Rpcs -> Frames \cup {None}]
  <2>1. CASE r \in Unary /\ Detect(r)
    <3>1. read[r] = 0 /\ <<r, read[r] + 1>> \in Frames
      BY <2>1 DEF Detect, Goes, HandlerInv
    <3> QED
      BY <2>1, <3>1 DEF Detect, NextRequest, TypeOK
  <2>2. CASE r \in Streams /\ Read(r)
    <3>1. PICK n \in 1..MaxFrames : n = read[r] + 1
      BY <2>2 DEF Read, TypeOK
    <3>2. <<r, n>> \in Frames
      BY <2>2
    <3>3. read' = [read EXCEPT ![r] = n] /\ req' = [req EXCEPT ![r] = <<r, n>>]
      BY <2>2, <3>1 DEF Read, NextRequest
    <3>4. read \in [Rpcs -> 0..MaxFrames] /\ req \in [Rpcs -> Frames \cup {None}]
      BY DEF TypeOK
    <3>5. n \in 0..MaxFrames
      OBVIOUS
    <3> QED
      BY <3>2, <3>3, <3>4, <3>5
  <2>3. CASE UNCHANGED read /\ req' \in {req, [req EXCEPT ![r] = None]}
    BY <2>3 DEF TypeOK
  <2>4. CASE ReadFails(r) \/ DetectStream(r) \/ Enqueue(r) \/ Get(r) \/ GetThrows(r)
    BY <2>3, <2>4 DEF ReadFails, DetectStream, Enqueue, Get, GetThrows, RequestEnds, Returns
  <2> QED
    BY <2>1, <2>2, <2>4 DEF Call, Handler
<1>3. queue' \in Seq(Frames) /\ result' \in [Frames -> Results]
  <2>1. CASE Enqueue(r)
    <3>1. Task(r) \in Frames
      BY <2>1, TaskIsFrame DEF Enqueue, Goes
    <3>2. queue' = Append(queue, Task(r)) /\ result' = [result EXCEPT ![Task(r)] = "pending"]
      BY <2>1 DEF Enqueue, Pool!Accept
    <3> QED
      BY <3>1, <3>2 DEF TypeOK, Results
  <2> QED
    BY <2>1, HandlerKeeps DEF TypeOK, poolVars
<1>4. replies' \in [Rpcs -> Seq(Frames)]
  <2>1. CASE Get(r)
    <3>1. PICK answer : answer = response[Task(r)]
      OBVIOUS
    <3>2. Task(r) \in Frames /\ result[Task(r)] = "value"
      BY <2>1, TaskIsFrame DEF Get, Ready
    <3>3. answer \in Frames
      BY <3>1, <3>2 DEF ForwardInv
    <3>4. replies' = IF client[r] = "gone" THEN replies ELSE [replies EXCEPT ![r] = Append(@, answer)]
      BY <2>1, <3>1 DEF Get, Robots!Deliver
    <3> QED
      BY <3>3, <3>4 DEF TypeOK
  <2>2. CASE UNCHANGED replies
    BY <2>2 DEF TypeOK
  <2> QED
    BY <2>1, <2>2
       DEF Call, Detect, DetectStream, Handler, Read, ReadFails, Enqueue, GetThrows, callVars
<1> QED
  BY <1>1, <1>2, <1>3, <1>4, HandlerKeeps DEF TypeOK, workerVars, upVars, Up!TypeOK

(* The steps of a worker keep the variables in their types.                *)
LEMMA WorkerTypes ==
  ASSUME TypeOK, RequestAlive, ForwardInv, NEW w \in Workers, WorkerStep(w)
  PROVE  TypeOK'
<1> USE FrameFacts
<1>1. /\ queue' \in Seq(Frames) /\ slot' \in [Workers -> Frames \cup {None}]
      /\ result' \in [Frames -> Results]
  <2>1. CASE Take(w)
    <3>1. Head(queue) \in Frames /\ Tail(queue) \in Seq(Frames)
      BY <2>1 DEF Take, Pool!Start, TypeOK
    <3> QED
      BY <2>1, <3>1 DEF Take, Pool!Start, TypeOK
  <2>2. CASE Forward(w)
    BY <2>2 DEF Forward, poolVars, TypeOK
  <2>3. CASE ForwardReturns(w) \/ ForwardThrows(w)
    BY <2>3 DEF ForwardReturns, ForwardThrows, Pool!Finish, TypeOK, Results
  <2> QED
    BY <2>1, <2>2, <2>3 DEF WorkerStep
<1>2. /\ outgoing' \in [Workers -> Frames \cup {None}]
      /\ upClient' \in [Up!Rpcs -> Up!ClientStates]
      /\ upSent' \in [Up!Rpcs -> 0..1]
  <2> USE DEF TypeOK, Up!TypeOK, Up!ClientStates, Up!ClientGoes
  <2>1. CASE Take(w)
    BY <2>1 DEF Take, workerVars, upVars
  <2>2. CASE Forward(w)
    <3>1. Captured(slot[w]) \in Frames
      BY <2>2 DEF Forward, Captured
    <3> QED
      BY <2>2, <3>1 DEF Forward, Up!CallDetect
  <2>3. CASE ForwardReturns(w)
    BY <2>3 DEF ForwardReturns, upVars
  <2>4. CASE ForwardThrows(w)
    BY <2>4 DEF ForwardThrows, Up!Leave
  <2> QED
    BY <2>1, <2>2, <2>3, <2>4 DEF WorkerStep
<1>3. response' \in [Frames -> Frames \cup {None}] /\ total_forwarded' \in Nat
  <2>1. CASE ForwardReturns(w)
    <3>1. outgoing[w] \in Frames /\ 1 \in 1..Len(upReplies[outgoing[w]])
      BY <2>1 DEF ForwardReturns, TypeOK, Up!TypeOK
    <3>2. PICK answer \in Frames : answer = Head(upReplies[outgoing[w]])[1]
      BY <2>1, <3>1 DEF ForwardReturns, ForwardInv
    <3>3. response' = [response EXCEPT ![slot[w]] = answer] /\ total_forwarded' = total_forwarded + 1
      BY <2>1, <3>2 DEF ForwardReturns
    <3>4. response \in [Frames -> Frames \cup {None}] /\ total_forwarded \in Nat
      BY DEF TypeOK
    <3>5. total_forwarded' \in Nat
      BY <3>3, <3>4
    <3>6. response' \in [Frames -> Frames \cup {None}]
      BY <3>3, <3>4, Zenon
    <3> QED
      BY <3>5, <3>6
  <2> QED
    BY <2>1 DEF WorkerStep, Take, Forward, ForwardThrows, workerVars, TypeOK
<1> QED
  BY <1>1, <1>2, <1>3, WorkerKeeps DEF TypeOK, Up!TypeOK, callVars, handlerVars

(* The steps of the inference server keep the variables in their types.    *)
LEMMA UpstreamTypes ==
  ASSUME TypeOK, ForwardInv, NEW f \in Frames, Upstream(f)
  PROVE  TypeOK'
<1>1. Up!TypeOK'
  <2> USE FrameFacts DEF Upstream, TypeOK, Up!TypeOK, Up!Goes, Up!callVars, Up!HandlerPoints
  <2>1. CASE Up!Detect(f)
    BY <2>1 DEF Up!Detect
  <2>2. CASE Up!Process(f)
    BY <2>2 DEF Up!Process
  <2>3. CASE Up!ProcessThrows(f)
    BY <2>3 DEF Up!ProcessThrows
  <2>4. CASE Up!Reply(f)
    <3>1. PICK answer : answer = <<f, upRead[f]>>
      OBVIOUS
    <3>2. upRead[f] = 1 /\ answer \in Frames \X (1..1)
      BY <2>4, <3>1 DEF Up!Reply, ForwardInv
    <3>3. upReplies' \in [Frames -> Seq(Frames \X (1..1))]
      BY <2>4, <3>1, <3>2 DEF Up!Reply, Up!Deliver
    <3> QED
      BY <2>4, <3>3 DEF Up!Reply, Up!Deliver
  <2> QED
    BY <2>1, <2>2, <2>3, <2>4 DEF Up!Call, Up!Handler
<1> QED
  BY <1>1, UpstreamKeeps DEF TypeOK, callVars, handlerVars, poolVars, workerVars

(* Every action keeps the variables in their types.                        *)
LEMMA TypeStep == IInv /\ RequestAlive /\ [Next]_vars => TypeOK'
<1> SUFFICES ASSUME IInv, RequestAlive, [Next]_vars PROVE TypeOK'
  OBVIOUS
<1>1. CASE Shutdown \/ Teardown \/ Finished \/ UNCHANGED vars
  <2>1. phase' \in Phases /\ open' \in BOOLEAN
    BY <1>1 DEF Shutdown, Teardown, Drained, ClosePool, Destroyed, Finished, Pool!Close, vars, poolVars,
                Phases, IInv, TypeOK
  <2> QED
    BY <1>1, <2>1, ShutdownKeeps DEF IInv, TypeOK, Up!TypeOK, callVars, handlerVars, workerVars, upVars
<1> QED
  BY <1>1, StepKinds, ClientTypes, HandlerTypes, WorkerTypes, UpstreamTypes DEF IInv

-----------------------------------------------------------------------------
(* While a task waits or runs, its handler is still in future.get() with   *)
(* the request of this very task.                                          *)
LEMMA AliveInPool == TypeOK /\ HandlerInv /\ FutureInv /\ PoolInv => RequestAlive
<1> SUFFICES ASSUME TypeOK, HandlerInv, FutureInv, PoolInv, NEW t \in InPool
             PROVE  rpc[t[1]] = "awaiting" /\ req[t[1]] = t
  BY DEF RequestAlive
<1>1. t \in Frames
  BY DEF TypeOK, InPool, Elements
<1>2. result[t] = "pending"
  BY DEF PoolInv
<1> QED
  BY <1>1, <1>2, FrameFacts DEF FutureInv, HandlerInv

(* A step keeps the handlers in step with their requests.                  *)
LEMMA HandlerStep == TypeOK /\ HandlerInv /\ [Next]_vars => HandlerInv'
<1> SUFFICES ASSUME TypeOK, HandlerInv, [Next]_vars PROVE HandlerInv'
  OBVIOUS
<1>1. CASE Robots!ClientStep /\ UNCHANGED <<handlerVars, phase, poolVars, workerVars, upVars>>
  <2> USE <1>1, MiddlewareAssumption
      DEF TypeOK, HandlerInv, handlerVars, Robots!ClientGoes, Robots!ClientStates, Robots!Rpcs, Rpcs, Task
  <2>1. ASSUME NEW u \in Unary, Robots!CallDetect(u) PROVE HandlerInv'
    BY <2>1 DEF Robots!CallDetect
  <2>2. ASSUME NEW s \in Streams, Robots!CallDetectStream(s) PROVE HandlerInv'
    BY <2>2 DEF Robots!CallDetectStream
  <2>3. ASSUME NEW s \in Streams, Robots!Send(s) PROVE HandlerInv'
    BY <2>3 DEF Robots!Send
  <2>4. ASSUME NEW s \in Streams, Robots!HalfClose(s) PROVE HandlerInv'
    BY <2>4 DEF Robots!HalfClose
  <2>5. ASSUME NEW r \in Robots!Rpcs, Robots!Leave(r) PROVE HandlerInv'
    BY <2>5 DEF Robots!Leave
  <2> QED
    BY <2>1, <2>2, <2>3, <2>4, <2>5 DEF Robots!ClientStep
<1>2. ASSUME NEW r \in Rpcs, Call(r) \/ Handler(r) PROVE HandlerInv'
  <2>1. UNCHANGED <<client, sent>>
    BY <1>2, HandlerKeeps
  <2> USE <2>1, FrameFacts, MiddlewareAssumption DEF TypeOK, HandlerInv, Task, Goes
  <2>2. CASE r \in Unary /\ Detect(r)
    BY <2>2 DEF Detect, NextRequest
  <2>3. CASE r \in Streams /\ DetectStream(r)
    BY <2>3 DEF DetectStream
  <2>4. CASE r \in Streams /\ Read(r)
    BY <2>4 DEF Read, NextRequest
  <2>5. CASE r \in Streams /\ ReadFails(r)
    BY <2>5 DEF ReadFails, Returns
  <2>6. CASE Enqueue(r)
    BY <2>6 DEF Enqueue
  <2>7. CASE Get(r) \/ GetThrows(r)
    <3>1. UNCHANGED read
      BY <2>7 DEF Get, GetThrows
    <3>2. \/ Returns(r, "awaiting")
          \/ r \in Streams /\ Goes(r, "awaiting", "reading") /\ UNCHANGED req
      BY <2>7 DEF Get, GetThrows, RequestEnds
    <3> QED
      BY <3>1, <3>2 DEF Returns
  <2> QED
    BY <1>2, <2>2, <2>3, <2>4, <2>5, <2>6, <2>7 DEF Call, Handler
<1>3. CASE UNCHANGED <<callVars, handlerVars>>
  BY <1>3 DEF HandlerInv, callVars, handlerVars, Task
<1> QED
  BY <1>1, <1>2, <1>3, StepKinds, WorkerKeeps, UpstreamKeeps, ShutdownKeeps

(* A step keeps the futures in step with the handlers.                     *)
LEMMA FutureStep == TypeOK /\ HandlerInv /\ FutureInv /\ PoolInv /\ [Next]_vars => FutureInv'
<1> SUFFICES ASSUME TypeOK, HandlerInv, FutureInv, PoolInv, [Next]_vars PROVE FutureInv'
  OBVIOUS
<1> USE FrameFacts, MiddlewareAssumption
<1>1. ASSUME NEW r \in Rpcs, Call(r) \/ Handler(r) PROVE FutureInv'
  <2>1. CASE (r \in Unary /\ Detect(r)) \/ (r \in Streams /\ Read(r))
    <3>1. PICK n \in Nat : n = read[r]
      BY DEF TypeOK
    <3>2. /\ rpc' = [rpc EXCEPT ![r] = "enqueue"] /\ rpc[r] \notin {"awaiting", "enqueue"}
          /\ read' = [read EXCEPT ![r] = n + 1]
          /\ UNCHANGED result
      BY <2>1, <3>1 DEF Detect, Read, NextRequest, Goes, poolVars
    <3> QED
      BY <3>1, <3>2 DEF FutureInv, TypeOK, Task
  <2>2. CASE Enqueue(r)
    <3>1. PICK x \in Frames : x = Task(r)
      BY <2>2, TaskIsFrame DEF Enqueue, Goes
    <3>2. /\ rpc' = [rpc EXCEPT ![r] = "awaiting"] /\ rpc[r] = "enqueue" /\ UNCHANGED read
          /\ result' = [result EXCEPT ![x] = "pending"]
      BY <2>2, <3>1 DEF Enqueue, Goes, Pool!Accept
    <3>3. x[1] = r /\ x[2] = read[r]
      BY <3>1, <3>2, TaskIsFrame
    <3> QED
      BY <3>1, <3>2, <3>3 DEF FutureInv, TypeOK, Task
  <2>3. CASE ReadFails(r) \/ DetectStream(r)
    <3>1. UNCHANGED <<read, result>> /\ rpc[r] # "awaiting"
          /\ \E to \in {"done", "reading"} : rpc' = [rpc EXCEPT ![r] = to]
      BY <2>3 DEF ReadFails, DetectStream, Goes, Returns, poolVars
    <3> QED
      BY <3>1 DEF FutureInv, TypeOK, Task
  <2>4. CASE Get(r) \/ GetThrows(r)
    <3>1. UNCHANGED <<read, result>> /\ result[Task(r)] # "pending"
          /\ \E to \in {"done", "reading"} : rpc' = [rpc EXCEPT ![r] = to]
      BY <2>4 DEF Get, GetThrows, Goes, RequestEnds, Returns, Ready, poolVars
    <3> QED
      BY <3>1 DEF FutureInv, TypeOK, Task
  <2> QED
    BY <1>1, <2>1, <2>2, <2>3, <2>4 DEF Call, Handler
<1>2. ASSUME NEW w \in Workers, WorkerStep(w) PROVE FutureInv'
  <2>1. UNCHANGED <<rpc, read>>
    BY <1>2, WorkerKeeps DEF handlerVars
  <2>2. CASE UNCHANGED result
    BY <2>1, <2>2 DEF FutureInv, Task
  <2>3. ASSUME NEW answer \in {"value", "exception"}, Pool!Finish(w, answer) PROVE FutureInv'
    <3>1. PICK x \in Frames : x = slot[w]
      BY <2>3 DEF Pool!Finish, TypeOK
    <3>2. result[x] = "pending" /\ result' = [result EXCEPT ![x] = answer]
      BY <2>3, <3>1 DEF Pool!Finish, PoolInv, InPool
    <3> QED
      BY <2>1, <2>3, <3>2 DEF FutureInv, Task, TypeOK
  <2> QED
    BY <1>2, <2>2, <2>3 DEF WorkerStep, Take, Forward, ForwardReturns, ForwardThrows, Pool!Start, poolVars
<1>3. CASE UNCHANGED <<rpc, read, result>>
  BY <1>3 DEF FutureInv, Task
<1> QED
  BY <1>1, <1>2, <1>3, StepKinds, UpstreamKeeps, ShutdownKeeps DEF handlerVars, poolVars

(* The elements of a sequence after Append, Head and Tail.                 *)
LEMMA QueueFacts ==
  ASSUME NEW S, NEW seq \in Seq(S)
  PROVE  /\ \A x \in S : /\ Append(seq, x) \in Seq(S) /\ Len(Append(seq, x)) = Len(seq) + 1
                         /\ Append(seq, x)[Len(seq) + 1] = x
                         /\ \A i \in 1..Len(seq) : Append(seq, x)[i] = seq[i]
                         /\ Elements(Append(seq, x)) = Elements(seq) \cup {x}
         /\ seq # <<>> => /\ Head(seq) \in S /\ Head(seq) = seq[1] /\ Tail(seq) \in Seq(S)
                          /\ Len(seq) \in Nat \ {0} /\ Len(Tail(seq)) = Len(seq) - 1
                          /\ \A i \in 1..Len(Tail(seq)) : Tail(seq)[i] = seq[i + 1]
                          /\ Elements(seq) = Elements(Tail(seq)) \cup {Head(seq)}
<1>1. ASSUME NEW x \in S
      PROVE  /\ Append(seq, x) \in Seq(S) /\ Len(Append(seq, x)) = Len(seq) + 1
             /\ Append(seq, x)[Len(seq) + 1] = x
             /\ \A i \in 1..Len(seq) : Append(seq, x)[i] = seq[i]
             /\ Elements(Append(seq, x)) = Elements(seq) \cup {x}
  <2>1. /\ Append(seq, x) \in Seq(S) /\ Len(Append(seq, x)) = Len(seq) + 1
        /\ Append(seq, x)[Len(seq) + 1] = x
        /\ \A i \in 1..Len(seq) : Append(seq, x)[i] = seq[i]
    OBVIOUS
  <2>2. 1..(Len(seq) + 1) = 1..Len(seq) \cup {Len(seq) + 1}
    OBVIOUS
  <2> QED
    BY <2>1, <2>2 DEF Elements
<1>2. ASSUME seq # <<>>
      PROVE  /\ Head(seq) \in S /\ Head(seq) = seq[1] /\ Tail(seq) \in Seq(S)
             /\ Len(seq) \in Nat \ {0} /\ Len(Tail(seq)) = Len(seq) - 1
             /\ \A i \in 1..Len(Tail(seq)) : Tail(seq)[i] = seq[i + 1]
             /\ Elements(seq) = Elements(Tail(seq)) \cup {Head(seq)}
  <2>1. /\ Head(seq) \in S /\ Head(seq) = seq[1] /\ Tail(seq) \in Seq(S)
        /\ Len(seq) \in Nat \ {0} /\ Len(Tail(seq)) = Len(seq) - 1
        /\ \A i \in 1..Len(Tail(seq)) : Tail(seq)[i] = seq[i + 1]
    BY <1>2
  <2>2. ASSUME NEW i \in 1..Len(seq)
        PROVE  seq[i] \in Elements(Tail(seq)) \cup {Head(seq)}
    <3>1. CASE i = 1
      BY <2>1, <3>1
    <3>2. CASE i # 1
      <4>1. PICK j \in 1..Len(Tail(seq)) : i = j + 1
        BY <2>1, <3>2
      <4> QED
        BY <2>1, <4>1 DEF Elements
    <3> QED
      BY <3>1, <3>2
  <2>3. ASSUME NEW j \in 1..Len(Tail(seq)) PROVE j + 1 \in 1..Len(seq)
    BY <2>1
  <2>4. 1 \in 1..Len(seq)
    BY <2>1
  <2> QED
    BY <2>1, <2>2, <2>3, <2>4 DEF Elements
<1> QED
  BY <1>1, <1>2

(* A step keeps the pool free of duplicates and of finished tasks.         *)
LEMMA PoolStep == TypeOK /\ HandlerInv /\ FutureInv /\ PoolInv /\ [Next]_vars => PoolInv'
<1> SUFFICES ASSUME TypeOK, HandlerInv, FutureInv, PoolInv, [Next]_vars PROVE PoolInv'
  OBVIOUS
<1> USE FrameFacts, MiddlewareAssumption
<1>1. ASSUME NEW r \in Rpcs, Enqueue(r) PROVE PoolInv'
  <2>1. PICK x \in Frames : x = Task(r) /\ result[x] = None
    BY <1>1, TaskIsFrame DEF Enqueue, Goes, FutureInv
  <2>2. /\ queue' = Append(queue, x)
        /\ result' = [result EXCEPT ![x] = "pending"]
        /\ UNCHANGED slot
    BY <1>1, <2>1 DEF Enqueue, Pool!Accept
  <2>3. queue \in Seq(Frames)
    BY DEF TypeOK
  <2>4. x \notin InPool
    BY <2>1 DEF PoolInv
  <2>5. InPool' = InPool \cup {x}
    BY <2>2, <2>3, QueueFacts DEF InPool
  <2>6. \A t \in InPool' : result'[t] = "pending"
    BY <2>2, <2>4, <2>5 DEF PoolInv, TypeOK
  <2>7. PICK n \in Nat : n = Len(queue)
    BY <2>3
  <2>8. /\ Len(queue') = n + 1 /\ queue'[n + 1] = x
        /\ \A i \in 1..n : queue'[i] = queue[i] /\ queue[i] # x
    BY <2>2, <2>3, <2>4, <2>7, QueueFacts DEF InPool, Elements
  <2>9. \A i \in 1..(n + 1) : i \in 1..n \/ i = n + 1
    OBVIOUS
  <2>10. \A w \in Workers : slot'[w] = slot[w] /\ slot[w] # x
    BY <2>2, <2>4 DEF InPool
  <2> QED
    BY <2>6, <2>7, <2>8, <2>9, <2>10 DEF PoolInv
<1>2. ASSUME NEW w \in Workers, Take(w) PROVE PoolInv'
  <2>1. PICK x \in Frames : x = Head(queue)
    BY <1>2, QueueFacts DEF Take, Pool!Start, TypeOK
  <2>2. /\ slot[w] = None /\ queue # <<>>
        /\ slot' = [slot EXCEPT ![w] = x] /\ queue' = Tail(queue)
        /\ UNCHANGED result
    BY <1>2, <2>1 DEF Take, Pool!Start
  <2>3. PICK n \in Nat \ {0} : n = Len(queue)
    BY <2>2, QueueFacts DEF TypeOK
  <2>4. /\ queue[1] = x /\ Len(queue') = n - 1
        /\ \A i \in 1..(n - 1) : queue'[i] = queue[i + 1] /\ i + 1 \in 1..n /\ i + 1 # 1
        /\ 1 \in 1..n
    <3>1. queue[1] = x /\ Len(queue') = n - 1 /\ \A i \in 1..Len(queue') : queue'[i] = queue[i + 1]
      BY <2>1, <2>2, <2>3, QueueFacts DEF TypeOK
    <3>2. \A i \in 1..(n - 1) : i + 1 \in 1..n /\ i + 1 # 1
      OBVIOUS
    <3> QED
      BY <3>1, <3>2
  <2>5. \A v \in Workers : slot'[v] = IF v = w THEN x ELSE slot[v]
    BY <2>2 DEF TypeOK
  <2>6. InPool' \subseteq InPool
    <3>1. Elements(queue') \subseteq Elements(queue) /\ x \in Elements(queue)
      BY <2>1, <2>2, QueueFacts DEF TypeOK
    <3>2. {slot'[v] : v \in Workers} \subseteq {slot[v] : v \in Workers} \cup {x}
      BY <2>5
    <3> QED
      BY <3>1, <3>2 DEF InPool
  <2>7. \A t \in InPool' : result'[t] = "pending"
    BY <2>2, <2>6 DEF PoolInv
  <2>8. \A i, j \in 1..Len(queue') : queue'[i] = queue'[j] => i = j
    BY <2>3, <2>4 DEF PoolInv
  <2>9. \A u, v \in Workers : slot'[u] = slot'[v] /\ slot'[u] # None => u = v
    BY <2>3, <2>4, <2>5 DEF PoolInv
  <2>10. \A i \in 1..Len(queue'), v \in Workers : queue'[i] # slot'[v]
    BY <2>3, <2>4, <2>5 DEF PoolInv
  <2> QED
    BY <2>7, <2>8, <2>9, <2>10 DEF PoolInv
<1>3. ASSUME NEW w \in Workers, NEW answer, Pool!Finish(w, answer) PROVE PoolInv'
  <2>1. PICK x \in Frames : x = slot[w]
    BY <1>3 DEF Pool!Finish, TypeOK
  <2>2. /\ slot' = [slot EXCEPT ![w] = None]
        /\ result' = [result EXCEPT ![x] = answer]
        /\ UNCHANGED queue
    BY <1>3, <2>1 DEF Pool!Finish
  <2>3. \A v \in Workers : slot'[v] = IF v = w THEN None ELSE slot[v]
    BY <2>2 DEF TypeOK
  <2>4. InPool' \subseteq InPool
    BY <2>2, <2>3 DEF InPool
  <2>5. x \notin InPool'
    BY <2>1, <2>2, <2>3 DEF InPool, Elements, PoolInv
  <2>6. \A t \in InPool' : result'[t] = "pending"
    BY <2>2, <2>4, <2>5 DEF PoolInv, TypeOK
  <2>7. ASSUME NEW i \in 1..Len(queue), NEW v \in Workers PROVE queue[i] # slot'[v]
    <3>1. queue[i] \in Frames
      BY DEF TypeOK
    <3> QED
      BY <2>3, <3>1 DEF PoolInv
  <2> QED
    BY <2>2, <2>3, <2>6, <2>7 DEF PoolInv
<1>4. CASE UNCHANGED <<queue, slot, result>>
  BY <1>4 DEF PoolInv, InPool
<1> QED
  BY <1>1, <1>2, <1>3, <1>4, StepKinds, HandlerKeeps, UpstreamKeeps, ShutdownKeeps
     DEF poolVars, WorkerStep, Forward, ForwardReturns, ForwardThrows

(* A step keeps every frame on the wire, and every response, with its own  *)
(* task.                                                                   *)
LEMMA ForwardStep == IInv /\ RequestAlive /\ [Next]_vars => ForwardInv'
<1> SUFFICES ASSUME IInv, RequestAlive, [Next]_vars PROVE ForwardInv'
  OBVIOUS
<1> USE FrameFacts, MiddlewareAssumption DEF IInv
<1>1. ASSUME NEW w \in Workers, WorkerStep(w) PROVE ForwardInv'
  <2>1. UNCHANGED <<upRpc, upReplies, upRead>>
    BY <1>1, WorkerKeeps
  <2>2. CASE Take(w)
    <3>1. outgoing[w] = None
      BY <2>2 DEF Take, Pool!Start, ForwardInv
    <3> QED
      BY <2>1, <2>2, <3>1 DEF Take, Pool!Start, workerVars, ForwardInv, TypeOK
  <2>3. CASE Forward(w)
    <3>1. PICK x \in Frames : x = slot[w]
      BY <2>3 DEF Forward, TypeOK
    <3>2. x \in InPool
      BY <3>1 DEF InPool
    <3>3. Captured(x) = x
      BY <3>1, <3>2 DEF Captured, RequestAlive
    <3> QED
      BY <2>1, <2>3, <3>1, <3>3 DEF Forward, poolVars, ForwardInv, TypeOK
  <2>4. CASE ForwardReturns(w)
    <3>1. PICK x \in Frames : x = slot[w] /\ x = outgoing[w]
      BY <2>4 DEF ForwardReturns, ForwardInv, TypeOK
    <3>2. Head(upReplies[x])[1] = x
      <4>1. PICK seq \in Seq(Frames \X (1..1)) : seq = upReplies[x] /\ seq # <<>>
        BY <2>4, <3>1 DEF ForwardReturns, TypeOK, Up!TypeOK
      <4>2. 1 \in 1..Len(seq) /\ Head(seq) = seq[1]
        BY <4>1
      <4> QED
        BY <4>1, <4>2 DEF ForwardInv
    <3>3. /\ slot' = [slot EXCEPT ![w] = None] /\ outgoing' = [outgoing EXCEPT ![w] = None]
          /\ result' = [result EXCEPT ![x] = "value"] /\ response' = [response EXCEPT ![x] = x]
          /\ upReplies[x] # <<>>
      BY <2>4, <3>1, <3>2 DEF ForwardReturns, Pool!Finish
    <3> QED
      BY <2>1, <3>1, <3>3 DEF ForwardInv, TypeOK
  <2>5. CASE ForwardThrows(w)
    <3>1. PICK x \in Frames : x = slot[w]
      BY <2>5 DEF ForwardThrows, Pool!Finish, TypeOK
    <3>2. /\ slot' = [slot EXCEPT ![w] = None] /\ outgoing' = [outgoing EXCEPT ![w] = None]
          /\ result' = [result EXCEPT ![x] = "exception"] /\ UNCHANGED response
      BY <2>5, <3>1 DEF ForwardThrows, Pool!Finish
    <3> QED
      BY <2>1, <3>1, <3>2 DEF ForwardInv, TypeOK
  <2> QED
    BY <1>1, <2>2, <2>3, <2>4, <2>5 DEF WorkerStep
<1>2. ASSUME NEW f \in Frames, Upstream(f) PROVE ForwardInv'
  <2>1. UNCHANGED <<outgoing, slot, result, response>>
    BY <1>2, UpstreamKeeps DEF poolVars, workerVars
  <2> USE <2>1 DEF ForwardInv, TypeOK, Up!TypeOK, Up!Goes, Up!callVars
  <2>2. CASE Up!Detect(f)
    BY <2>2 DEF Up!Detect
  <2>3. CASE Up!Process(f) \/ Up!ProcessThrows(f)
    BY <2>3 DEF Up!Process, Up!ProcessThrows
  <2>4. CASE Up!Reply(f)
    <3>1. PICK answer \in Frames \X (1..1) : answer = <<f, upRead[f]>>
      BY <2>4 DEF Up!Reply
    <3>2. /\ UNCHANGED upRead
          /\ upReplies' \in {upReplies, [upReplies EXCEPT ![f] = Append(@, answer)]}
          /\ rpc' = rpc
      BY <1>2, <2>4, <3>1, UpstreamKeeps DEF Up!Reply, Up!Deliver, handlerVars
    <3>3. \A g \in Frames : upRpc'[g] \in {"processing", "answering"} => upRpc[g] \in {"processing", "answering"}
      BY <2>4 DEF Up!Reply
    <3>4. CASE upReplies' = upReplies
      BY <3>2, <3>3, <3>4
    <3>5. CASE upReplies' = [upReplies EXCEPT ![f] = Append(@, answer)]
      <4> DEFINE seq == upReplies[f]
      <4>1. /\ \A g \in Frames : g # f => upReplies'[g] = upReplies[g]
            /\ upReplies'[f] = Append(seq, answer)
            /\ seq \in Seq(Frames \X (1..1)) /\ answer[1] = f
            /\ \A i \in 1..Len(seq) : seq[i][1] = f
        BY <3>1, <3>5
      <4> HIDE DEF seq
      <4>2. /\ Len(upReplies'[f]) = Len(seq) + 1 /\ Len(seq) \in Nat
            /\ upReplies'[f][Len(seq) + 1] = answer
            /\ \A i \in 1..Len(seq) : upReplies'[f][i] = seq[i]
        BY <4>1, QueueFacts
      <4>3. \A i \in 1..Len(upReplies'[f]) : upReplies'[f][i][1] = f
        BY <4>1, <4>2
      <4>4. upReplies'[f] # <<>>
        <5>1. Len(upReplies'[f]) # 0
          BY <4>2
        <5>2. Len(<<>>) = 0
          OBVIOUS
        <5> QED
          BY <5>1, <5>2
      <4>5. \A g \in Frames : \A i \in 1..Len(upReplies'[g]) : upReplies'[g][i][1] = g
        BY <4>1, <4>3
      <4>6. \A g \in Frames : upReplies[g] # <<>> => upReplies'[g] # <<>>
        BY <4>1, <4>4
      <4> QED
        BY <3>2, <3>3, <4>5, <4>6
    <3> QED
      BY <3>2, <3>4, <3>5
  <2> QED
    BY <1>2, <2>2, <2>3, <2>4 DEF Upstream, Up!Call, Up!Handler
<1>3. ASSUME NEW r \in Rpcs, Enqueue(r) PROVE ForwardInv'
  <2>1. UNCHANGED <<slot, outgoing, response, upRpc, upReplies, upRead>>
    BY <1>3, HandlerKeeps DEF Handler, workerVars, upVars
  <2>2. \A t \in Frames : result'[t] = "value" => result[t] = "value"
    BY <1>3 DEF Enqueue, Pool!Accept, TypeOK
  <2> QED
    BY <2>1, <2>2 DEF ForwardInv
<1>4. CASE UNCHANGED <<slot, result, workerVars, upVars>>
  BY <1>4 DEF ForwardInv, workerVars, upVars
<1> QED
  BY <1>1, <1>2, <1>3, <1>4, StepKinds, HandlerKeeps, ShutdownKeeps DEF poolVars

(* A step keeps the pool open until Run() has returned.                    *)
LEMMA PhaseStep == TypeOK /\ PhaseInv /\ [Next]_vars => PhaseInv'
<1> SUFFICES ASSUME TypeOK, PhaseInv, [Next]_vars PROVE PhaseInv'
  OBVIOUS
<1>1. ASSUME NEW r \in Rpcs, Call(r) \/ Handler(r) PROVE PhaseInv'
  <2>1. UNCHANGED <<phase, open>>
    BY <1>1, HandlerKeeps
  <2>2. phase \notin {"stopped", "closing", "destroyed"}
    BY <1>1 DEF PhaseInv, Call, Detect, DetectStream, Handler, Read, ReadFails, Enqueue, Get, GetThrows,
                Ready, Returns, Goes
  <2> QED
    BY <2>1, <2>2 DEF PhaseInv
<1>2. CASE Shutdown \/ Teardown
  BY <1>2 DEF PhaseInv, Shutdown, Teardown, Drained, ClosePool, Destroyed, Pool!Close, poolVars, handlerVars
<1>3. CASE UNCHANGED <<rpc, phase, open>>
  BY <1>3 DEF PhaseInv
<1> QED
  BY <1>1, <1>2, <1>3, StepKinds, WorkerKeeps, UpstreamKeeps DEF Finished, vars, handlerVars, poolVars

-----------------------------------------------------------------------------
(* What a step of handler r disposes of: with the last step of a request   *)
(* the handler is through with it, and nobody else moves on.               *)
LEMMA DisposedSteps ==
  ASSUME TypeOK, HandlerInv, NEW r \in Rpcs, Call(r) \/ Handler(r)
  PROVE  /\ \A x \in Rpcs : x # r => Disposed(x)' = Disposed(x)
         /\ ~(Get(r) \/ GetThrows(r)) => Disposed(r)' = Disposed(r)
         /\ Get(r) \/ GetThrows(r) => /\ rpc[r] = "awaiting" /\ Disposed(r) = read[r] - 1
                                      /\ Disposed(r)' = read[r] /\ read[r] \in Nat \ {0}
<1> USE DEF TypeOK, Goes
<1>1. CASE Detect(r) \/ Read(r)
  <2>1. PICK n \in Nat : n = read[r]
    OBVIOUS
  <2>2. /\ rpc[r] \notin {"enqueue", "awaiting"} /\ rpc' = [rpc EXCEPT ![r] = "enqueue"]
        /\ read' = [read EXCEPT ![r] = n + 1]
    BY <1>1, <2>1 DEF Detect, Read, NextRequest
  <2>3. \A x \in Rpcs : Disposed(x)' = Disposed(x)
    BY <2>1, <2>2 DEF Disposed
  <2> QED
    BY <2>2, <2>3 DEF Get, GetThrows, Ready
<1>2. CASE DetectStream(r) \/ ReadFails(r) \/ Enqueue(r)
  <2>1. UNCHANGED read /\ rpc[r] # "awaiting"
    BY <1>2 DEF DetectStream, ReadFails, Enqueue, Returns
  <2>2. \/ rpc[r] = "enqueue" /\ rpc' = [rpc EXCEPT ![r] = "awaiting"]
        \/ rpc[r] # "enqueue" /\ \E to \in {"done", "reading"} : rpc' = [rpc EXCEPT ![r] = to]
    BY <1>2 DEF DetectStream, ReadFails, Enqueue, Returns
  <2>3. \A x \in Rpcs : Disposed(x)' = Disposed(x)
    BY <2>1, <2>2 DEF Disposed
  <2> QED
    BY <2>1, <2>3 DEF Get, GetThrows, Ready
<1>3. CASE Get(r) \/ GetThrows(r)
  <2>1. /\ rpc[r] = "awaiting" /\ UNCHANGED read
        /\ \E to \in {"done", "reading"} : rpc' = [rpc EXCEPT ![r] = to]
    BY <1>3 DEF Get, GetThrows, Returns, RequestEnds
  <2>2. read[r] \in Nat \ {0}
    BY <2>1 DEF HandlerInv
  <2> QED
    BY <1>3, <2>1, <2>2 DEF Disposed
<1> QED
  BY <1>1, <1>2, <1>3 DEF Call, Handler

(* With one frame more disposed of, that frame may be one more answered.   *)
LEMMA OneMore ==
  ASSUME NEW r, NEW n \in Nat \ {0}, NEW res
  PROVE  {t \in {r} \X (1..n) : res[t] = "value"} =
           {t \in {r} \X (1..(n - 1)) : res[t] = "value"}
             \cup (IF res[<<r, n>>] = "value" THEN {<<r, n>>} ELSE {})
<1>1. 1..n = 1..(n - 1) \cup {n}
  OBVIOUS
<1>2. {r} \X (1..n) = ({r} \X (1..(n - 1))) \cup {<<r, n>>}
  BY <1>1
<1> QED
  BY <1>2

(* The frames that a handler has disposed of are frames of its call.       *)
LEMMA DisposedFrames ==
  ASSUME TypeOK, HandlerInv, NEW r \in Rpcs
  PROVE  Disposed(r) \in Nat /\ Disposed(r) <= read[r] /\ {r} \X (1..Disposed(r)) \subseteq Frames
<1>1. Disposed(r) \in Nat /\ Disposed(r) <= read[r] /\ read[r] \in 0..MaxFrames
  BY MiddlewareAssumption DEF Disposed, TypeOK, HandlerInv
<1>2. CASE r \in Unary
  <2>1. read[r] \in {0, 1}
    BY <1>2, MiddlewareAssumption DEF HandlerInv, TypeOK
  <2>2. \A n \in 1..Disposed(r) : n = 1
    BY <1>1, <2>1
  <2> QED
    BY <1>1, <1>2, <2>2, FrameFacts
<1>3. CASE r \in Streams
  <2>1. \A n \in 1..Disposed(r) : n \in 1..MaxFrames
    BY <1>1, MiddlewareAssumption
  <2> QED
    BY <1>1, <1>3, <2>1, FrameFacts
<1> QED
  BY <1>2, <1>3, FrameFacts

(* A later frame joins the end of a sequence of frames in order.           *)
LEMMA InOrderAppend ==
  ASSUME NEW seq \in Seq(Frames), InOrder(seq), NEW x \in Frames,
         \A t \in Elements(seq) : t[2] < x[2]
  PROVE  InOrder(Append(seq, x))
<1> DEFINE n == Len(seq)
<1>1. /\ n \in Nat /\ Len(Append(seq, x)) = n + 1 /\ Append(seq, x)[n + 1] = x
      /\ \A i \in 1..n : Append(seq, x)[i] = seq[i] /\ seq[i] \in Elements(seq)
  BY QueueFacts DEF Elements
<1>2. ASSUME NEW i \in 1..(n + 1), NEW j \in 1..(n + 1), i < j
      PROVE  Append(seq, x)[i][2] < Append(seq, x)[j][2]
  <2>1. i \in 1..n
    BY <1>1, <1>2
  <2>2. CASE j = n + 1
    BY <1>1, <2>1, <2>2
  <2>3. CASE j # n + 1
    <3>1. j \in 1..n
      BY <1>1, <2>3
    <3> QED
      BY <1>1, <1>2, <2>1, <3>1 DEF InOrder
  <2> QED
    BY <2>2, <2>3
<1> QED
  BY <1>1, <1>2 DEF InOrder

(* A step keeps the responses of a call to those of the frames that were   *)
(* forwarded, in the order of the frames, and all of them while the robot  *)
(* is there.                                                               *)
LEMMA RepliesStep == IInv /\ [Next]_vars => RepliesInv'
<1> SUFFICES ASSUME IInv, [Next]_vars PROVE RepliesInv'
  OBVIOUS
<1> USE FrameFacts, MiddlewareAssumption DEF IInv
<1>1. ASSUME UNCHANGED <<replies, result>>, \A r \in Rpcs : Disposed(r)' = Disposed(r),
             \A r \in Rpcs : client[r] = "gone" => client'[r] = "gone"
      PROVE  RepliesInv'
  <2>1. \A r \in Rpcs : Answered(r)' = Answered(r)
    BY <1>1 DEF Answered
  <2> QED
    BY <1>1, <2>1 DEF RepliesInv
<1>2. ASSUME NEW x \in Frames, NEW state, result' = [result EXCEPT ![x] = state],
             result[x] # "value", state = "value" => x[2] > Disposed(x[1]),
             UNCHANGED <<client, replies>>, \A r \in Rpcs : Disposed(r)' = Disposed(r)
      PROVE  RepliesInv'
  <2>1. \A t \in Frames : result'[t] = IF t = x THEN state ELSE result[t]
    BY <1>2 DEF TypeOK
  <2>2. ASSUME NEW r \in Rpcs PROVE Answered(r)' = Answered(r)
    <3>1. {r} \X (1..Disposed(r)) \subseteq Frames /\ Disposed(r) \in Nat
      BY DisposedFrames
    <3>2. \A t \in {r} \X (1..Disposed(r)) : result'[t] = "value" <=> result[t] = "value"
      BY <1>2, <2>1, <3>1
    <3> QED
      BY <1>2, <3>2 DEF Answered
  <2> QED
    BY <1>2, <2>2 DEF RepliesInv
<1>3. ASSUME NEW r \in Rpcs, Get(r) \/ GetThrows(r) PROVE RepliesInv'
  <2>1. PICK n \in Nat \ {0} : n = read[r] /\ Disposed(r) = n - 1 /\ Disposed(r)' = n
    BY <1>3, DisposedSteps DEF Handler
  <2>2. PICK x \in Frames : x = Task(r) /\ x = <<r, n>>
    BY <1>3, <2>1, TaskIsFrame DEF Get, GetThrows, Ready, Task
  <2>3. UNCHANGED <<client, result>> /\ \A y \in Rpcs : y # r => Disposed(y)' = Disposed(y)
    BY <1>3, DisposedSteps, HandlerKeeps DEF Handler, Get, GetThrows, poolVars
  <2>4. Answered(r)' = Answered(r) \cup (IF result[x] = "value" THEN {x} ELSE {})
    BY <2>1, <2>2, <2>3, OneMore DEF Answered
  <2>5. \A y \in Rpcs : y # r => Answered(y)' = Answered(y)
    BY <2>3 DEF Answered
  <2>6. CASE result[x] # "value"
    <3>1. UNCHANGED replies
      BY <1>3, <2>2, <2>6 DEF Get, GetThrows, Ready, callVars
    <3> QED
      BY <2>3, <2>4, <2>5, <2>6, <3>1 DEF RepliesInv
  <2>7. CASE result[x] = "value" /\ client[r] = "gone"
    <3>1. UNCHANGED replies
      BY <1>3, <2>7 DEF Get, GetThrows, Robots!Deliver, callVars
    <3> QED
      BY <2>3, <2>4, <2>5, <2>7, <3>1 DEF RepliesInv
  <2>8. CASE result[x] = "value" /\ client[r] # "gone"
    <3>1. replies' = [replies EXCEPT ![r] = Append(@, x)]
      BY <1>3, <2>2, <2>8 DEF Get, GetThrows, Ready, Robots!Deliver, ForwardInv
    <3>2. /\ \A y \in Rpcs : y # r => replies'[y] = replies[y]
          /\ replies'[r] = Append(replies[r], x)
          /\ replies[r] \in Seq(Frames)
      BY <3>1 DEF TypeOK
    <3>3. Elements(replies'[r]) = Elements(replies[r]) \cup {x}
      BY <3>2, QueueFacts
    <3>4. \A t \in Elements(replies[r]) : t[2] < x[2]
      <4>1. \A t \in Answered(r) : t[2] \in 1..(n - 1)
        BY <2>1 DEF Answered
      <4> QED
        BY <2>1, <2>2, <4>1 DEF RepliesInv
    <3>5. InOrder(replies'[r])
      BY <3>2, <3>4, InOrderAppend DEF RepliesInv
    <3>6. /\ Elements(replies'[r]) \subseteq Answered(r)'
          /\ Answered(r)' \subseteq Elements(replies'[r])
      BY <2>4, <2>8, <3>3 DEF RepliesInv
    <3>7. ASSUME NEW y \in Rpcs, y # r
          PROVE  /\ InOrder(replies'[y])
                 /\ Elements(replies'[y]) \subseteq Answered(y)'
                 /\ client'[y] # "gone" => Answered(y)' \subseteq Elements(replies'[y])
      BY <2>3, <2>5, <3>2, <3>7 DEF RepliesInv
    <3> QED
      BY <3>5, <3>6, <3>7 DEF RepliesInv
  <2> QED
    BY <2>6, <2>7, <2>8
<1>4. ASSUME NEW r \in Rpcs, Enqueue(r) PROVE RepliesInv'
  <2>1. PICK x \in Frames : x = Task(r) /\ result[x] = None
    BY <1>4, TaskIsFrame DEF Enqueue, Goes, FutureInv
  <2>2. result' = [result EXCEPT ![x] = "pending"] /\ UNCHANGED <<client, replies>> /\ rpc[r] = "enqueue"
    BY <1>4, <2>1 DEF Enqueue, Goes, Pool!Accept, callVars
  <2>3. \A y \in Rpcs : Disposed(y)' = Disposed(y)
    BY <1>4, <2>2, DisposedSteps DEF Handler, Get, GetThrows, Ready
  <2> QED
    BY <1>2, <2>1, <2>2, <2>3
<1>5. ASSUME NEW r \in Rpcs, Call(r) \/ Handler(r) PROVE RepliesInv'
  <2>1. CASE ~(Enqueue(r) \/ Get(r) \/ GetThrows(r))
    <3>1. UNCHANGED <<client, result, replies>>
      BY <1>5, <2>1 DEF Call, Detect, DetectStream, Handler, Read, ReadFails, callVars, poolVars
    <3> QED
      BY <1>1, <1>5, <2>1, <3>1, DisposedSteps
  <2> QED
    BY <1>3, <1>4, <2>1
<1>6. ASSUME NEW w \in Workers, WorkerStep(w) PROVE RepliesInv'
  <2>1. UNCHANGED <<client, replies>> /\ \A r \in Rpcs : Disposed(r)' = Disposed(r)
    BY <1>6, WorkerKeeps DEF callVars, handlerVars, Disposed
  <2>2. ASSUME NEW answer, Pool!Finish(w, answer) PROVE RepliesInv'
    <3>1. PICK x \in Frames : x = slot[w] /\ x \in InPool
      BY <2>2 DEF Pool!Finish, TypeOK, InPool
    <3>2. result[x] = "pending" /\ result' = [result EXCEPT ![x] = answer]
      BY <2>2, <3>1 DEF Pool!Finish, PoolInv
    <3>3. x[2] > Disposed(x[1])
      BY <3>1, <3>2, TaskIsFrame DEF FutureInv, Disposed
    <3> QED
      BY <1>2, <2>1, <3>2, <3>3
  <2>3. CASE UNCHANGED result
    BY <1>1, <2>1, <2>3
  <2> QED
    BY <1>6, <2>2, <2>3 DEF WorkerStep, Take, Forward, ForwardReturns, ForwardThrows, Pool!Start, poolVars
<1>7. CASE Robots!ClientStep /\ UNCHANGED <<handlerVars, phase, poolVars, workerVars, upVars>>
  <2>1. \A r \in Rpcs : client[r] = "gone" => client'[r] = "gone"
    BY <1>7 DEF Robots!ClientStep, Robots!CallDetect, Robots!CallDetectStream, Robots!Send, Robots!HalfClose,
                Robots!Leave, Robots!ClientGoes, TypeOK
  <2> QED
    BY <1>1, <1>7, <2>1, ClientKeeps DEF handlerVars, poolVars, Disposed
<1>8. CASE UNCHANGED <<callVars, handlerVars, result>>
  BY <1>1, <1>8 DEF callVars, handlerVars, Disposed
<1> QED
  BY <1>5, <1>6, <1>7, <1>8, StepKinds, UpstreamKeeps, ShutdownKeeps DEF poolVars

(* A step counts what it forwards, and what it infers is counted before.   *)
LEMMA CountStep == IInv /\ [Next]_vars => CountInv'
<1> SUFFICES ASSUME IInv, [Next]_vars PROVE CountInv'
  OBVIOUS
<1> USE FrameFacts, MiddlewareAssumption DEF IInv
<1>1. ASSUME \A t \in Frames : result'[t] = "value" <=> result[t] = "value",
             UNCHANGED <<upRpc, upReplies, total_forwarded, total_inferences>>
      PROVE  CountInv'
  <2>1. Forwarded' = Forwarded /\ Inferred' = Inferred
    BY <1>1 DEF Forwarded, Inferred
  <2> QED
    BY <1>1, <2>1 DEF CountInv
<1>2. ASSUME NEW w \in Workers, WorkerStep(w) PROVE CountInv'
  <2>1. UNCHANGED <<upRpc, upReplies, total_inferences>>
    BY <1>2, WorkerKeeps
  <2>2. CASE Take(w) \/ Forward(w)
    BY <1>1, <2>1, <2>2 DEF Take, Forward, Pool!Start, workerVars, poolVars
  <2>3. ASSUME NEW answer, Pool!Finish(w, answer)
        PROVE  \E x \in Frames : result[x] = "pending" /\ result' = [result EXCEPT ![x] = answer]
    BY <2>3 DEF Pool!Finish, TypeOK, InPool, PoolInv
  <2>4. CASE ForwardThrows(w)
    <3>1. PICK x \in Frames : result[x] = "pending" /\ result' = [result EXCEPT ![x] = "exception"]
      BY <2>3, <2>4 DEF ForwardThrows
    <3>2. \A t \in Frames : result'[t] = "value" <=> result[t] = "value"
      BY <3>1 DEF TypeOK
    <3> QED
      BY <1>1, <2>1, <2>4, <3>2 DEF ForwardThrows
  <2>5. CASE ForwardReturns(w)
    <3>1. PICK x \in Frames : result[x] = "pending" /\ result' = [result EXCEPT ![x] = "value"]
      BY <2>3, <2>5 DEF ForwardReturns
    <3>2. Forwarded' = Forwarded \cup {x} /\ x \notin Forwarded
      BY <3>1 DEF Forwarded, TypeOK
    <3>3. IsFiniteSet(Forwarded') /\ Cardinality(Forwarded') = Cardinality(Forwarded) + 1
      BY <3>2, FS_AddElement DEF CountInv
    <3>4. Inferred' = Inferred
      BY <2>1 DEF Inferred
    <3> QED
      BY <2>1, <2>5, <3>3, <3>4 DEF ForwardReturns, CountInv
  <2> QED
    BY <1>2, <2>2, <2>4, <2>5 DEF WorkerStep
<1>3. ASSUME NEW f \in Frames, Upstream(f) PROVE CountInv'
  <2>1. Forwarded' = Forwarded /\ UNCHANGED total_forwarded
    BY <1>3, UpstreamKeeps DEF Forwarded, poolVars, workerVars
  <2>2. Cardinality(Inferred) \in Nat
    BY FS_CardinalityType DEF CountInv
  <2> USE DEF TypeOK, Up!TypeOK, Up!Goes, Up!callVars
  <2>3. CASE Up!Process(f)
    <3>1. Inferred' = Inferred \cup {f}
      BY <2>3 DEF Inferred, Up!Process
    <3>2. /\ IsFiniteSet(Inferred')
          /\ Cardinality(Inferred') = Cardinality(Inferred) \/ Cardinality(Inferred') = Cardinality(Inferred) + 1
      BY <3>1, FS_AddElement DEF CountInv
    <3>3. total_inferences' = total_inferences + 1
      BY <2>3 DEF Up!Process
    <3> QED
      BY <2>1, <2>2, <3>2, <3>3 DEF CountInv
  <2>4. CASE ~Up!Process(f)
    <3>1. Inferred' \subseteq Inferred /\ UNCHANGED total_inferences
      <4>1. CASE Up!Detect(f)
        BY <4>1 DEF Up!Detect, Inferred
      <4>2. CASE Up!ProcessThrows(f)
        BY <4>2 DEF Up!ProcessThrows, Inferred
      <4>3. CASE Up!Reply(f)
        BY <4>3 DEF Up!Reply, Up!Deliver, Inferred
      <4> QED
        BY <1>3, <2>4, <4>1, <4>2, <4>3 DEF Upstream, Up!Call, Up!Handler
    <3>2. IsFiniteSet(Inferred') /\ Cardinality(Inferred') <= Cardinality(Inferred)
      BY <3>1, FS_Subset DEF CountInv
    <3>3. Cardinality(Inferred') \in Nat
      BY <3>2, FS_CardinalityType
    <3> QED
      BY <2>1, <2>2, <3>1, <3>2, <3>3 DEF CountInv
  <2> QED
    BY <2>3, <2>4
<1>4. ASSUME NEW r \in Rpcs, Call(r) \/ Handler(r) PROVE CountInv'
  <2>1. UNCHANGED <<upRpc, upReplies, total_forwarded, total_inferences>>
    BY <1>4, HandlerKeeps DEF workerVars, upVars
  <2>2. CASE Enqueue(r)
    <3>1. PICK x \in Frames : x = Task(r) /\ result[x] = None
      BY <2>2, TaskIsFrame DEF Enqueue, Goes, FutureInv
    <3>2. result' = [result EXCEPT ![x] = "pending"]
      BY <2>2, <3>1 DEF Enqueue, Pool!Accept
    <3>3. \A t \in Frames : result'[t] = "value" <=> result[t] = "value"
      BY <3>1, <3>2 DEF TypeOK
    <3> QED
      BY <1>1, <2>1, <3>3
  <2> QED
    BY <1>1, <1>4, <2>1, <2>2, HandlerKeeps DEF poolVars
<1>5. CASE UNCHANGED <<result, upVars, workerVars>>
  BY <1>1, <1>5 DEF upVars, workerVars
<1> QED
  BY <1>2, <1>3, <1>4, <1>5, StepKinds, ShutdownKeeps DEF poolVars

-----------------------------------------------------------------------------
(* The inductive invariant holds in every reachable state.                 *)
THEOREM Invariance == SafeSpec => []IInv
<1>1. IInv /\ [Next]_vars => IInv'
  BY AliveInPool, TypeStep, HandlerStep, FutureStep, PoolStep, ForwardStep, PhaseStep, RepliesStep,
     CountStep DEF IInv
<1> QED
  BY InitIInv, <1>1, PTL DEF SafeSpec

(* Every variable keeps to its type, those of the inference server too.    *)
THEOREM Typing == SafeSpec => []TypeOK
<1>1. IInv => TypeOK
  BY DEF IInv
<1> QED
  BY <1>1, Invariance, PTL

(* The pointer to the request that the lambda captures stays good as long  *)
(* as a task is queued or runs, whoever leaves and whatever shuts down.    *)
THEOREM RequestStaysAlive == SafeSpec => []RequestAlive
<1>1. IInv => RequestAlive
  BY AliveInPool DEF IInv
<1> QED
  BY <1>1, Invariance, PTL

(* A robot that stays has the responses to its forwarded frames, its own   *)
(* and in the order it sent them, however many workers there are.          *)
THEOREM InOrderReplies == SafeSpec => []RepliesMatch
<1>1. IInv => RepliesMatch
  BY DEF IInv, RepliesInv, RepliesMatch, Answered
<1> QED
  BY <1>1, Invariance, PTL

(* The place of a response in the replies of its call tells which frame it *)
(* answers: the responses that robots hold are no more than those frames.  *)
LEMMA ReceivedForwarded ==
  ASSUME IInv
  PROVE  IsFiniteSet(Received) /\ Cardinality(Received) <= Cardinality(Forwarded)
<1> USE DEF IInv
<1> DEFINE answers == [p \in Received |-> replies[p[1]][p[2]]]
<1>1. ASSUME NEW p \in Received
      PROVE  /\ p = <<p[1], p[2]>> /\ p[1] \in Rpcs /\ p[2] \in 1..Len(replies[p[1]])
             /\ answers[p] \in Forwarded /\ answers[p][1] = p[1]
  <2>1. p = <<p[1], p[2]>> /\ p[1] \in Rpcs /\ p[2] \in 1..Len(replies[p[1]])
    BY DEF Received
  <2>2. answers[p] \in Elements(replies[p[1]])
    BY <2>1 DEF Elements
  <2>3. answers[p] \in Answered(p[1])
    BY <2>1, <2>2 DEF RepliesInv
  <2>4. answers[p] \in Frames /\ answers[p][1] = p[1] /\ result[answers[p]] = "value"
    BY <2>1, <2>3, DisposedFrames DEF Answered
  <2> QED
    BY <2>1, <2>4 DEF Forwarded
<1>2. ASSUME NEW p \in Received, NEW q \in Received, answers[p] = answers[q] PROVE p = q
  <2>1. PICK r \in Rpcs : r = p[1] /\ r = q[1]
    <3> HIDE DEF answers
    <3>1. answers[p][1] = p[1] /\ answers[q][1] = q[1] /\ p[1] \in Rpcs
      BY <1>1
    <3> QED
      BY <1>2, <3>1
  <2>2. PICK i \in 1..Len(replies[r]), j \in 1..Len(replies[r]) : p = <<r, i>> /\ q = <<r, j>>
    <3>1. p = <<r, p[2]>> /\ p[2] \in 1..Len(replies[r])
      BY <1>1, <2>1
    <3>2. q = <<r, q[2]>> /\ q[2] \in 1..Len(replies[r])
      BY <1>1, <2>1
    <3> QED
      BY <3>1, <3>2
  <2>3. replies[r][i][2] = replies[r][j][2]
    BY <1>2, <2>2
  <2>4. replies[r][i][2] \in Nat /\ replies[r][j][2] \in Nat
    <3>1. replies[r] \in Seq(Frames)
      BY DEF TypeOK
    <3>2. replies[r][i] \in Frames /\ replies[r][j] \in Frames
      BY <3>1
    <3>3. \A t \in Frames : t[2] \in Nat
      BY FrameFacts
    <3> QED
      BY <3>2, <3>3
  <2>5. ~(i < j) /\ ~(j < i)
    BY <2>3, <2>4 DEF RepliesInv, InOrder
  <2> QED
    BY <2>2, <2>5
<1>3. answers \in Injection(Received, Forwarded)
  <2>1. answers \in [Received -> Forwarded]
    BY <1>1
  <2> QED
    BY <1>2, <2>1 DEF Injection, IsInjective
<1> QED
  BY <1>3, FS_Injection DEF CountInv

(* The totals that robots, workers and inference handlers keep never       *)
(* contradict each other.                                                  *)
THEOREM TotalsAgree == SafeSpec => []CountersAgree
<1>1. IInv => CountersAgree
  <2> SUFFICES ASSUME IInv PROVE CountersAgree
    OBVIOUS
  <2> USE DEF IInv
  <2>1. Cardinality(Received) <= Cardinality(Forwarded) /\ Cardinality(Received) \in Nat
    BY ReceivedForwarded, FS_CardinalityType
  <2>2. Forwarded \subseteq Inferred
    BY DEF Forwarded, Inferred, ForwardInv
  <2>3. Cardinality(Forwarded) <= Cardinality(Inferred)
    BY <2>2, FS_Subset DEF CountInv
  <2>4. Cardinality(Forwarded) \in Nat /\ Cardinality(Inferred) \in Nat
    BY FS_CardinalityType DEF CountInv
  <2> QED
    BY <2>1, <2>3, <2>4 DEF CountInv, CountersAgree, TypeOK, Up!TypeOK
<1> QED
  BY <1>1, Invariance, PTL

(* No handler ever meets a stopped pool.                                   *)
THEOREM PoolOutlivesHandlers == SafeSpec => []NeverRefused
<1>1. IInv => NeverRefused
  BY DEF IInv, TypeOK, PhaseInv, NeverRefused
<1> QED
  BY <1>1, Invariance, PTL

(* The destructor of the pool finds no task.                               *)
THEOREM NothingLeft == SafeSpec => []IdleWhenStopped
<1>1. IInv => IdleWhenStopped
  <2> SUFFICES ASSUME IInv, phase \in {"stopped", "closing", "destroyed"}, NEW t \in InPool
               PROVE  FALSE
    BY DEF IdleWhenStopped
  <2>1. t \in Frames
    BY DEF IInv, TypeOK, InPool, Elements
  <2>2. t[1] \in Rpcs /\ rpc[t[1]] = "awaiting"
    BY <2>1, AliveInPool, FrameFacts DEF IInv, RequestAlive
  <2> QED
    BY <2>2 DEF IInv, PhaseInv
<1> QED
  BY <1>1, Invariance, PTL

-----------------------------------------------------------------------------
\* The requests that the handlers are through with, as the service counts them.
Handled == [r \in Rpcs |-> Disposed(r)]

(* Through the pool, any number of workers and an inference server that    *)
(* answers in any order and at any time, whatever the middleware does is a *)
(* step of InferenceService, or nothing that a robot can tell.             *)
THEOREM ServiceRefinement == SafeSpec => ImplementsService
<1>1. Init => Service!Init
  BY DEF Init, Robots!Init, Service!Init, Robots!Rpcs, Rpcs, Disposed
<1>2. IInv /\ [Next]_vars => [Service!Next]_(Service!svars)
  <2> SUFFICES ASSUME IInv, [Next]_vars PROVE Service!Next \/ UNCHANGED Service!svars
    OBVIOUS
  <2> USE FrameFacts DEF IInv
  <2>1. ASSUME UNCHANGED <<sent, replies>>, \A r \in Rpcs : Disposed(r)' = Disposed(r)
        PROVE  UNCHANGED Service!svars
    BY <2>1 DEF Service!svars
  <2>2. ASSUME NEW r \in Rpcs, sent' = [sent EXCEPT ![r] = @ + 1],
               UNCHANGED <<replies, handlerVars>>
        PROVE  Service!Next
    <3>1. \A x \in Rpcs : Disposed(x)' = Disposed(x)
      BY <2>2 DEF handlerVars, Disposed
    <3>2. Service!Send(r)
      BY <2>2, <3>1 DEF Service!Send
    <3> QED
      BY <3>2 DEF Service!Next
  <2>3. CASE Robots!ClientStep /\ UNCHANGED <<handlerVars, phase, poolVars, workerVars, upVars>>
    <3>1. UNCHANGED replies /\ \A x \in Rpcs : Disposed(x)' = Disposed(x)
      BY <2>3, ClientKeeps DEF handlerVars, Disposed
    <3>2. ASSUME NEW u \in Unary, Robots!CallDetect(u) PROVE Service!Next
      <4>1. sent[u] = 0
        BY <3>2 DEF Robots!CallDetect, Robots!ClientGoes, HandlerInv
      <4>2. sent' = [sent EXCEPT ![u] = sent[u] + 1]
        BY <3>2, <4>1 DEF Robots!CallDetect
      <4> QED
        BY <2>2, <2>3, <3>1, <4>2
    <3>3. ASSUME NEW s \in Streams, Robots!Send(s) PROVE Service!Next
      BY <2>2, <2>3, <3>1, <3>3 DEF Robots!Send, Rpcs
    <3>4. ASSUME NEW s \in Streams, Robots!CallDetectStream(s) \/ Robots!HalfClose(s)
          PROVE  UNCHANGED Service!svars
      BY <2>1, <3>1, <3>4 DEF Robots!CallDetectStream, Robots!HalfClose
    <3>5. ASSUME NEW r \in Robots!Rpcs, Robots!Leave(r) PROVE UNCHANGED Service!svars
      BY <2>1, <3>1, <3>5 DEF Robots!Leave
    <3> QED
      BY <2>3, <3>2, <3>3, <3>4, <3>5 DEF Robots!ClientStep
  <2>4. ASSUME NEW r \in Rpcs, Get(r) \/ GetThrows(r) PROVE Service!Next
    <3>1. PICK n \in Nat \ {0} : n = read[r] /\ Disposed(r) = n - 1 /\ Disposed(r)' = n
      BY <2>4, DisposedSteps DEF Handler
    <3>2. UNCHANGED <<client, sent>> /\ \A y \in Rpcs : y # r => Disposed(y)' = Disposed(y)
      BY <2>4, DisposedSteps, HandlerKeeps DEF Handler
    <3>3. Handled' = [Handled EXCEPT ![r] = @ + 1] /\ Handled[r] = n - 1 /\ Handled[r] + 1 = n
      <4>1. /\ \A y \in Rpcs : y # r => Handled'[y] = Handled[y]
            /\ Handled'[r] = n /\ Handled[r] = n - 1 /\ n - 1 + 1 = n
        BY <3>1, <3>2 DEF Handled
      <4>2. Handled' = [x \in Rpcs |-> Handled'[x]] /\ Handled = [x \in Rpcs |-> Handled[x]]
        BY DEF Handled
      <4> HIDE DEF Handled
      <4> QED
        BY <4>1, <4>2
    <3>4. n - 1 < sent[r]
      BY <3>1 DEF HandlerInv, TypeOK
    <3>5. Service!Dispose(r)
      BY <3>2, <3>3, <3>4 DEF Service!Dispose, Handled
    <3>6. CASE UNCHANGED replies
      <4>1. Service!Skip(r)
        BY <3>5, <3>6 DEF Service!Skip
      <4> QED
        BY <4>1 DEF Service!Next
    <3>7. CASE ~UNCHANGED replies
      <4>1. Get(r) /\ client[r] # "gone"
        BY <2>4, <3>7 DEF Get, GetThrows, Robots!Deliver, callVars
      <4>2. Task(r) \in Frames /\ result[Task(r)] = "value" /\ Task(r) = <<r, n>>
        BY <3>1, <4>1, TaskIsFrame DEF Get, Ready, Task
      <4>3. replies' = [replies EXCEPT ![r] = Append(@, <<r, n>>)]
        BY <4>1, <4>2 DEF Get, Robots!Deliver, ForwardInv
      <4>4. replies' = [replies EXCEPT ![r] = Append(@, <<r, Handled[r] + 1>>)]
        BY <3>3, <4>3
      <4>5. Service!Answer(r)
        BY <3>5, <4>4 DEF Service!Answer, Service!Response, Handled
      <4> QED
        BY <4>5 DEF Service!Next
    <3> QED
      BY <3>6, <3>7
  <2>5. ASSUME NEW r \in Rpcs, Call(r) \/ Handler(r)
        PROVE  Service!Next \/ UNCHANGED Service!svars
    <3>1. CASE ~(Get(r) \/ GetThrows(r))
      <4>1. UNCHANGED <<sent, replies>>
        BY <2>5, <3>1 DEF Call, Detect, DetectStream, Handler, Read, ReadFails, Enqueue, callVars
      <4> QED
        BY <2>1, <2>5, <3>1, <4>1, DisposedSteps
    <3> QED
      BY <2>4, <3>1
  <2>6. CASE UNCHANGED <<callVars, handlerVars>>
    BY <2>1, <2>6 DEF callVars, handlerVars, Disposed
  <2> QED
    BY <2>3, <2>5, <2>6, StepKinds, WorkerKeeps, UpstreamKeeps, ShutdownKeeps
<1> QED
  BY <1>1, <1>2, Invariance, PTL DEF SafeSpec, ImplementsService, Service!Spec

-----------------------------------------------------------------------------
(* The middleware uses its pool as TaskQueue says: what handlers, workers  *)
(* and the destructor do to it is what ThreadPool is shown to implement.   *)
THEOREM PoolRefinement == SafeSpec => Pool!SafeSpec
<1>1. Init => Pool!Init
  BY DEF Init
<1>2. IInv /\ [Next]_vars => [Pool!Next]_(Pool!qvars)
  <2> SUFFICES ASSUME IInv, [Next]_vars PROVE Pool!Next \/ UNCHANGED Pool!qvars
    OBVIOUS
  <2>1. ASSUME NEW r \in Rpcs, Enqueue(r) PROVE Pool!Next
    <3>1. Task(r) \in Frames /\ Pool!Accept(Task(r))
      BY <2>1, TaskIsFrame DEF IInv, Enqueue, Goes
    <3> QED
      BY <3>1 DEF Pool!Next
  <2>2. ASSUME NEW w \in Workers, WorkerStep(w) PROVE Pool!Next \/ UNCHANGED Pool!qvars
    <3>1. CASE Forward(w)
      BY <3>1 DEF Forward, poolVars, Pool!qvars
    <3>2. CASE Take(w)
      BY <3>2 DEF Take, Pool!Next
    <3>3. CASE ForwardReturns(w) \/ ForwardThrows(w)
      BY <3>3 DEF ForwardReturns, ForwardThrows, Pool!Next, Pool!Answers
    <3> QED
      BY <2>2, <3>1, <3>2, <3>3 DEF WorkerStep
  <2>3. CASE ClosePool
    BY <2>3 DEF ClosePool, Pool!Next
  <2>4. CASE UNCHANGED poolVars
    BY <2>4 DEF poolVars, Pool!qvars
  <2>5. CASE Shutdown \/ Drained \/ Destroyed \/ Finished \/ UNCHANGED vars
    BY <2>4, <2>5 DEF Shutdown, Drained, Destroyed, Finished, vars
  <2> QED
    BY <2>1, <2>2, <2>3, <2>4, <2>5, StepKinds, HandlerKeeps, UpstreamKeeps DEF Teardown
<1> QED
  BY <1>1, <1>2, Invariance, PTL DEF SafeSpec, Pool!SafeSpec

(* What the middleware does to the inference server is what that module    *)
(* lets its clients do: a worker calls with the frame of its own task, and *)
(* leaves a call that it made.                                             *)
THEOREM UpstreamRefinement == SafeSpec => Up!SafeSpec
<1>1. Init => Up!ServerInit
  BY DEF Init
<1>2. IInv /\ [Next]_vars => [Up!Next]_(Up!vars)
  <2> SUFFICES ASSUME IInv, [Next]_vars PROVE Up!Next \/ UNCHANGED Up!vars
    OBVIOUS
  <2> USE FrameFacts
  <2>1. ASSUME NEW w \in Workers, WorkerStep(w) PROVE Up!Next \/ UNCHANGED Up!vars
    <3>1. CASE Forward(w)
      <4>1. PICK x \in Frames : x = slot[w] /\ x \in InPool
        BY <3>1 DEF Forward, IInv, TypeOK, InPool
      <4>2. Captured(x) = x
        BY <4>1, AliveInPool DEF IInv, Captured, RequestAlive
      <4>3. Up!CallDetect(x) /\ UNCHANGED Up!serverVars
        BY <3>1, <4>1, <4>2 DEF Forward, Up!serverVars
      <4> QED
        BY <4>3 DEF Up!Next, Up!ClientStep
    <3>2. CASE ForwardThrows(w)
      <4>1. outgoing[w] \in Frames /\ Up!Leave(outgoing[w]) /\ UNCHANGED Up!serverVars
        BY <3>2 DEF ForwardThrows, IInv, TypeOK, Up!serverVars
      <4> QED
        BY <4>1 DEF Up!Next, Up!ClientStep
    <3>3. CASE Take(w) \/ ForwardReturns(w)
      BY <3>3 DEF Take, ForwardReturns, upVars, Up!vars, Up!callVars, Up!serverVars
    <3> QED
      BY <2>1, <3>1, <3>2, <3>3 DEF WorkerStep
  <2>2. ASSUME NEW f \in Frames, Upstream(f) PROVE Up!Next
    BY <2>2 DEF Upstream, Up!Next
  <2>3. CASE UNCHANGED upVars
    BY <2>3 DEF upVars, Up!vars, Up!callVars, Up!serverVars
  <2> QED
    BY <2>1, <2>2, <2>3, StepKinds, HandlerKeeps, ShutdownKeeps
<1> QED
  BY <1>1, <1>2, Invariance, PTL DEF SafeSpec, Up!SafeSpec
=============================================================================
