-------------------------- MODULE InferenceServer --------------------------
(***************************************************************************)
(* module1_inference: InferenceServiceImpl and InferenceServer of          *)
(* src/inference_server.cpp. gRPC gives every call a handler thread, and   *)
(* handlers run side by side; the model run inside process() is one step   *)
(* that ends with detections or with an exception.                         *)
(***************************************************************************)
EXTENDS GrpcCalls, FiniteSets

VARIABLES
  rpc,      \* rpc[r]: where the handler of call r is
  read,     \* read[r]: requests the handler has read
  phase,    \* the gRPC server behind server_
  total_inferences

serverVars == <<rpc, read, phase, total_inferences>>
vars == <<callVars, serverVars>>

HandlerPoints == {"new", "reading", "processing", "answering", "done"}
Phases == {"serving", "draining", "stopped"}

TypeOK ==
  /\ client \in [Rpcs -> ClientStates]
  /\ sent \in [Rpcs -> 0..MaxFrames]
  /\ replies \in [Rpcs -> Seq(Rpcs \X (1..MaxFrames))]
  /\ rpc \in [Rpcs -> HandlerPoints]
  /\ read \in [Rpcs -> 0..MaxFrames]
  /\ phase \in Phases
  /\ total_inferences \in Nat

ServerInit ==
  /\ Init
  /\ rpc = [r \in Rpcs |-> "new"]
  /\ read = [r \in Rpcs |-> 0]
  /\ phase = "serving"
  /\ total_inferences = 0

Goes(r, from, to) ==
  /\ rpc[r] = from
  /\ rpc' = [rpc EXCEPT ![r] = to]

(* gRPC parses the request of a unary call before it calls the handler.    *)
Detect(u) ==
  /\ phase = "serving"
  /\ client[u] # "new"
  /\ Goes(u, "new", "processing")
  /\ read' = [read EXCEPT ![u] = 1]
  /\ UNCHANGED <<callVars, phase, total_inferences>>

DetectStream(s) ==
  /\ phase = "serving"
  /\ client[s] # "new"
  /\ Goes(s, "new", "reading")
  /\ UNCHANGED <<callVars, read, phase, total_inferences>>

(* stream->Read(&req) with a message.                                      *)
Read(s) ==
  /\ read[s] < sent[s]
  /\ Goes(s, "reading", "processing")
  /\ read' = [read EXCEPT ![s] = @ + 1]
  /\ UNCHANGED <<callVars, phase, total_inferences>>

\* Fault: the loop ends at the client's half-close only.
ReadFailsIfClosed(s) ==
  /\ client[s] = "closed" /\ read[s] = sent[s]
  /\ Goes(s, "reading", "done")
  /\ UNCHANGED <<callVars, read, phase, total_inferences>>

(* stream->Read(&req) is false: half-closed and drained, or disconnected.  *)
ReadFails(s) ==
  /\ NothingToRead(s, read[s])
  /\ Goes(s, "reading", "done")
  /\ UNCHANGED <<callVars, read, phase, total_inferences>>

\* Fault: the counter goes up only after the response is on the wire.
ProcessUncounted(r) ==
  /\ Goes(r, "processing", "answering")
  /\ UNCHANGED <<callVars, read, phase, total_inferences>>

(* process() returns: the response echoes the request, and it was counted. *)
Process(r) ==
  /\ Goes(r, "processing", "answering")
  /\ total_inferences' = total_inferences + 1
  /\ UNCHANGED <<callVars, read, phase>>

(* process() throws: an empty image or an error of the model. The unary    *)
(* handler returns INTERNAL, the stream handler goes on to the next frame. *)
ProcessThrows(r) ==
  /\ Goes(r, "processing", IF r \in Unary THEN "done" ELSE "reading")
  /\ UNCHANGED <<callVars, read, phase, total_inferences>>

\* Fault: the handler writes the response of the frame before this one.
ReplyLate(r) ==
  /\ Goes(r, "answering", IF r \in Unary THEN "done" ELSE "reading")
  /\ Deliver(r, <<r, IF read[r] = 1 THEN 1 ELSE read[r] - 1>>)
  /\ UNCHANGED <<read, phase, total_inferences>>

(* The response goes out; a failed Write ends the stream.                  *)
Reply(r) ==
  /\ \/ Goes(r, "answering", IF r \in Unary THEN "done" ELSE "reading")
     \/ client[r] = "gone" /\ Goes(r, "answering", "done")
  /\ Deliver(r, <<r, read[r]>>)
  /\ UNCHANGED <<read, phase, total_inferences>>

Handler(r) ==
  \/ r \in Streams /\ (Read(r) \/ ReadFails(r))
  \/ Process(r) \/ ProcessThrows(r) \/ Reply(r)

Call(r) == (r \in Unary /\ Detect(r)) \/ (r \in Streams /\ DetectStream(r))

(* server_->Shutdown() takes no new call, and waits for those it has.      *)
Shutdown ==
  /\ phase = "serving"
  /\ phase' = "draining"
  /\ UNCHANGED <<callVars, rpc, read, total_inferences>>

Drained ==
  /\ phase = "draining"
  /\ \A r \in Rpcs : rpc[r] \in {"new", "done"}
  /\ phase' = "stopped"
  /\ UNCHANGED <<callVars, rpc, read, total_inferences>>

(* Stopped, and every client has left.                                     *)
Finished ==
  /\ phase = "stopped"
  /\ \A r \in Rpcs : client[r] = "gone"
  /\ UNCHANGED vars

Next ==
  \/ ClientStep /\ UNCHANGED serverVars
  \/ \E r \in Rpcs : Call(r) \/ Handler(r)
  \/ Shutdown \/ Drained \/ Finished

SafeSpec == ServerInit /\ [][Next]_vars

(* A running handler thread is scheduled and a model run ends. Clients     *)
(* need not do anything.                                                   *)
Fairness == (\A r \in Rpcs : WF_vars(Handler(r))) /\ WF_vars(Drained)

Spec == SafeSpec /\ Fairness

-----------------------------------------------------------------------------

\* The responses that clients hold, each as a call and a place in its replies.
Received == UNION {{r} \X (1..Len(replies[r])) : r \in Rpcs}

(* Every response that a client sees is in total_inferences(), whatever    *)
(* handlers run side by side: the count is taken before the response is.   *)
RepliesWereCounted == Cardinality(Received) <= total_inferences

(* The handlers with their early exits and skipped frames keep the promise *)
(* of the service: in order, at most one response per request, each with   *)
(* the robot and timestamp of its own request.                             *)
Service == INSTANCE InferenceService WITH
  handled <- [r \in Rpcs |->
                IF rpc[r] \in {"processing", "answering"} THEN read[r] - 1 ELSE read[r]]

ImplementsService == Service!Spec

(* A handler whose client has closed or left ends: no stream keeps a       *)
(* thread of the server for ever, whatever exceptions process() throws.    *)
HandlersEnd ==
  \A r \in Rpcs : client[r] \in {"closed", "gone"} ~> rpc[r] \in {"new", "done"}
=============================================================================
