----------------------- MODULE InferenceServerProofs -----------------------
(***************************************************************************)
(* Proofs about InferenceServer, for any set of calls, any number of       *)
(* frames and any interleaving of the handlers.                            *)
(*                                                                         *)
(* CallInv says what the place of a handler tells of its call; CountInv    *)
(* counts a response from the moment it is made, before any client has it. *)
(***************************************************************************)
EXTENDS InferenceServer, TLAPS, FiniteSetTheorems

\* A handler has read no more than was sent, and has a request in hand while
\* it works on one; a unary call carries one request.
CallInv ==
  \A r \in Rpcs :
    /\ read[r] <= sent[r]
    /\ rpc[r] = "new" => read[r] = 0
    /\ rpc[r] \in {"processing", "answering"} => read[r] >= 1
    /\ client[r] = "new" => rpc[r] = "new" /\ sent[r] = 0
    /\ r \in Unary /\ client[r] # "new" => sent[r] = 1

\* The responses there are: received, or about to be written.
Made == Received \cup {<<r, 0>> : r \in {x \in Rpcs : rpc[x] = "answering"}}

CountInv == IsFiniteSet(Made) /\ Cardinality(Made) <= total_inferences

IInv == TypeOK /\ CallInv /\ CountInv

-----------------------------------------------------------------------------
(* Initially no call is made.                                              *)
LEMMA InitIInv == ServerInit => IInv
<1> SUFFICES ASSUME ServerInit PROVE IInv
  OBVIOUS
<1> USE DEF ServerInit, Init
<1>1. TypeOK
  BY CallsAssumption DEF TypeOK, ClientStates, HandlerPoints, Phases
<1>2. CallInv
  BY DEF CallInv, Rpcs
<1>3. Made = {}
  BY DEF Made, Received
<1>4. CountInv
  BY <1>3, FS_EmptySet DEF CountInv
<1> QED
  BY <1>1, <1>2, <1>4 DEF IInv

(* A step of a client keeps the variables of the calls in their types.     *)
LEMMA ClientTypes ==
  ASSUME TypeOK, ClientStep, UNCHANGED serverVars
  PROVE  TypeOK'
<1> USE CallsAssumption DEF TypeOK, ClientStates, Rpcs, ClientGoes, serverVars
<1>1. ASSUME NEW u \in Unary, CallDetect(u) PROVE TypeOK'
  BY <1>1 DEF CallDetect
<1>2. ASSUME NEW s \in Streams, CallDetectStream(s) \/ Send(s) \/ HalfClose(s) PROVE TypeOK'
  <2>1. CASE CallDetectStream(s)
    BY <2>1 DEF CallDetectStream
  <2>2. CASE Send(s)
    BY <2>2 DEF Send
  <2>3. CASE HalfClose(s)
    BY <2>3 DEF HalfClose
  <2> QED
    BY <1>2, <2>1, <2>2, <2>3
<1>3. ASSUME NEW r \in Rpcs, Leave(r) PROVE TypeOK'
  BY <1>3 DEF Leave
<1> QED
  BY <1>1, <1>2, <1>3 DEF ClientStep

(* Every action keeps the variables in their types.                        *)
LEMMA TypeStep == TypeOK /\ CallInv /\ [Next]_vars => TypeOK'
<1> SUFFICES ASSUME TypeOK, CallInv, [Next]_vars PROVE TypeOK'
  OBVIOUS
<1> USE CallsAssumption DEF TypeOK, HandlerPoints, Phases, callVars, serverVars
<1>1. CASE ClientStep /\ UNCHANGED serverVars
  BY <1>1, ClientTypes
<1>2. ASSUME NEW r \in Rpcs, Call(r) \/ Handler(r) PROVE TypeOK'
  <2> USE <1>2 DEF Goes
  <2>1. CASE Detect(r)
    BY <2>1 DEF Detect
  <2>2. CASE DetectStream(r)
    BY <2>2 DEF DetectStream
  <2>3. CASE Read(r)
    BY <2>3 DEF Read
  <2>4. CASE ReadFails(r)
    BY <2>4 DEF ReadFails
  <2>5. CASE Process(r)
    BY <2>5 DEF Process
  <2>6. CASE ProcessThrows(r)
    BY <2>6 DEF ProcessThrows
  <2>7. CASE Reply(r)
    <3>1. PICK response \in Rpcs \X (1..MaxFrames) : response = <<r, read[r]>>
      BY <2>7 DEF Reply, CallInv
    <3>2. replies' \in [Rpcs -> Seq(Rpcs \X (1..MaxFrames))]
      BY <2>7, <3>1 DEF Reply, Deliver
    <3> QED
      BY <2>7, <3>2 DEF Reply, Deliver
  <2> QED
    BY <1>2, <2>1, <2>2, <2>3, <2>4, <2>5, <2>6, <2>7 DEF Call, Handler
<1>3. CASE Shutdown \/ Drained
  BY <1>3 DEF Shutdown, Drained
<1>4. CASE UNCHANGED vars
  BY <1>4 DEF vars
<1> QED
  BY <1>1, <1>2, <1>3, <1>4 DEF Next, Finished

(* Every action keeps handler and call in step.                            *)
LEMMA CallStep == TypeOK /\ CallInv /\ [Next]_vars => CallInv'
<1> SUFFICES ASSUME TypeOK, CallInv, [Next]_vars PROVE CallInv'
  OBVIOUS
<1> USE CallsAssumption DEF TypeOK, CallInv, callVars, serverVars
<1>1. CASE ClientStep /\ UNCHANGED serverVars
  <2> USE <1>1 DEF ClientGoes, ClientStates, Rpcs
  <2>1. ASSUME NEW u \in Unary, CallDetect(u) PROVE CallInv'
    BY <2>1 DEF CallDetect
  <2>2. ASSUME NEW s \in Streams, CallDetectStream(s) \/ Send(s) \/ HalfClose(s) PROVE CallInv'
    BY <2>2 DEF CallDetectStream, Send, HalfClose
  <2>3. ASSUME NEW r \in Rpcs, Leave(r) PROVE CallInv'
    BY <2>3 DEF Leave
  <2> QED
    BY <1>1, <2>1, <2>2, <2>3 DEF ClientStep
<1>2. ASSUME NEW r \in Rpcs, Call(r) \/ Handler(r) PROVE CallInv'
  <2> USE <1>2 DEF Goes
  <2>1. CASE r \in Unary /\ Detect(r)
    BY <2>1 DEF Detect
  <2>2. CASE DetectStream(r) \/ ReadFails(r)
    BY <2>2 DEF DetectStream, ReadFails
  <2>3. CASE Read(r)
    BY <2>3 DEF Read
  <2>4. CASE Process(r) \/ ProcessThrows(r)
    BY <2>4 DEF Process, ProcessThrows
  <2>5. CASE Reply(r)
    BY <2>5 DEF Reply, Deliver
  <2> QED
    BY <1>2, <2>1, <2>2, <2>3, <2>4, <2>5 DEF Call, Handler
<1>3. CASE Shutdown \/ Drained
  BY <1>3 DEF Shutdown, Drained
<1>4. CASE UNCHANGED vars
  BY <1>4 DEF vars
<1> QED
  BY <1>1, <1>2, <1>3, <1>4 DEF Next, Finished

(* A step that makes no response and counts none keeps the count.          *)
LEMMA CountKept ==
  ASSUME CountInv, TypeOK, Made' \subseteq Made, UNCHANGED total_inferences
  PROVE  CountInv'
<1>1. IsFiniteSet(Made') /\ Cardinality(Made') <= Cardinality(Made)
  BY FS_Subset DEF CountInv
<1>2. Cardinality(Made') \in Nat /\ Cardinality(Made) \in Nat
  BY <1>1, FS_CardinalityType DEF CountInv
<1> QED
  BY <1>1, <1>2 DEF CountInv, TypeOK

(* A response is counted when it is made, and only handed over later.      *)
LEMMA CountStep == IInv /\ [Next]_vars => CountInv'
<1> SUFFICES ASSUME IInv, [Next]_vars PROVE CountInv'
  OBVIOUS
<1> USE DEF IInv, callVars, serverVars
<1>1. ASSUME UNCHANGED <<replies, total_inferences>>,
             \A r \in Rpcs : rpc'[r] = "answering" => rpc[r] = "answering"
      PROVE  CountInv'
  <2>1. Made' \subseteq Made
    BY <1>1 DEF Made, Received
  <2> QED
    BY <1>1, <2>1, CountKept
<1>2. CASE ClientStep /\ UNCHANGED serverVars
  <2>1. UNCHANGED <<replies, rpc, total_inferences>>
    BY <1>2 DEF ClientStep, CallDetect, CallDetectStream, Send, HalfClose, Leave
  <2> QED
    BY <1>1, <2>1
<1>3. ASSUME NEW r \in Rpcs, Call(r) \/ Handler(r) PROVE CountInv'
  <2> USE <1>3 DEF TypeOK, Goes
  <2>1. CASE Detect(r) \/ DetectStream(r) \/ Read(r) \/ ReadFails(r) \/ ProcessThrows(r)
    BY <1>1, <2>1 DEF Detect, DetectStream, Read, ReadFails, ProcessThrows
  <2>2. CASE Process(r)
    <3>1. Made' = Made \cup {<<r, 0>>}
      BY <2>2 DEF Process, Made, Received
    <3>2. /\ IsFiniteSet(Made')
          /\ Cardinality(Made') = Cardinality(Made) \/ Cardinality(Made') = Cardinality(Made) + 1
      BY <3>1, FS_AddElement DEF CountInv
    <3>3. Cardinality(Made) \in Nat
      BY FS_CardinalityType DEF CountInv
    <3> QED
      BY <2>2, <3>2, <3>3 DEF Process, CountInv
  <2>3. CASE Reply(r)
    <3>1. total_inferences' = total_inferences
      BY <2>3 DEF Reply
    <3>2. CASE client[r] = "gone"
      BY <1>1, <2>3, <3>1, <3>2 DEF Reply, Deliver
    <3>3. CASE client[r] # "gone"
      <4>1. PICK n \in Nat : n = Len(replies[r])
        OBVIOUS
      <4>2. /\ \A x \in Rpcs : x # r => replies'[x] = replies[x]
            /\ Len(replies'[r]) = n + 1
        BY <2>3, <3>3, <4>1 DEF Reply, Deliver
      <4>3. \A x \in Rpcs : rpc'[x] = "answering" <=> rpc[x] = "answering" /\ x # r
        BY <2>3 DEF Reply
      <4>4. 1..(n + 1) = (1..n) \cup {n + 1}
        OBVIOUS
      <4>5. Received' \subseteq Received \cup {<<r, n + 1>>}
        BY <4>1, <4>2, <4>4 DEF Received
      <4>6. <<r, 0>> \in Made /\ <<r, 0>> \notin Received
        BY <2>3 DEF Made, Reply, Received
      <4>7. Made' \subseteq (Made \ {<<r, 0>>}) \cup {<<r, n + 1>>}
        <5>1. \A x \in Rpcs : rpc'[x] = "answering" => <<x, 0>> \in Made \ {<<r, 0>>}
          BY <4>3 DEF Made
        <5>2. Received \subseteq Made \ {<<r, 0>>}
          BY <4>6 DEF Made
        <5>3. Made' = Received' \cup {<<x, 0>> : x \in {y \in Rpcs : rpc'[y] = "answering"}}
          BY DEF Made
        <5> QED
          BY <4>5, <5>1, <5>2, <5>3, Zenon
      <4>8. /\ IsFiniteSet(Made \ {<<r, 0>>})
            /\ Cardinality(Made \ {<<r, 0>>}) = Cardinality(Made) - 1
        BY <4>6, FS_RemoveElement DEF CountInv
      <4>9. PICK S : S = Made \ {<<r, 0>>}
        OBVIOUS
      <4>10. Cardinality(Made) \in Nat /\ Cardinality(S) \in Nat
        BY <4>8, <4>9, FS_CardinalityType DEF CountInv
      <4>11. PICK T : T = S \cup {<<r, n + 1>>}
        OBVIOUS
      <4>12. IsFiniteSet(T) /\ Cardinality(T) <= Cardinality(S) + 1 /\ Cardinality(T) \in Nat
        <5>1. /\ IsFiniteSet(T)
              /\ Cardinality(T) = Cardinality(S) \/ Cardinality(T) = Cardinality(S) + 1
          BY <4>8, <4>9, <4>11, FS_AddElement
        <5> QED
          BY <4>10, <5>1
      <4>13. IsFiniteSet(Made') /\ Cardinality(Made') <= Cardinality(T) /\ Cardinality(Made') \in Nat
        BY <4>7, <4>9, <4>11, <4>12, FS_Subset, FS_CardinalityType
      <4> QED
        BY <3>1, <4>8, <4>9, <4>10, <4>12, <4>13 DEF CountInv
    <3> QED
      BY <3>2, <3>3
  <2> QED
    BY <1>3, <2>1, <2>2, <2>3 DEF Call, Handler
<1>4. CASE Shutdown \/ Drained \/ UNCHANGED vars
  BY <1>1, <1>4 DEF Shutdown, Drained, vars
<1> QED
  BY <1>2, <1>3, <1>4 DEF Next, Finished

-----------------------------------------------------------------------------
(* The inductive invariant holds in every reachable state.                 *)
THEOREM Invariance == SafeSpec => []IInv
<1>1. IInv /\ [Next]_vars => IInv'
  BY TypeStep, CallStep, CountStep DEF IInv
<1> QED
  BY InitIInv, <1>1, PTL DEF SafeSpec

(* Every variable keeps to its type.                                       *)
THEOREM Typing == SafeSpec => []TypeOK
<1>1. IInv => TypeOK
  BY DEF IInv
<1> QED
  BY <1>1, Invariance, PTL

(* total_inferences() is never behind the responses that clients hold,     *)
(* whatever handlers run side by side.                                     *)
THEOREM Counted == SafeSpec => []RepliesWereCounted
<1>1. IInv => RepliesWereCounted
  <2> SUFFICES ASSUME IInv PROVE RepliesWereCounted
    OBVIOUS
  <2>1. Cardinality(Received) <= Cardinality(Made) /\ IsFiniteSet(Received)
    BY FS_Subset DEF IInv, CountInv, Made
  <2>2. Cardinality(Received) \in Nat /\ Cardinality(Made) \in Nat
    BY <2>1, FS_CardinalityType DEF IInv, CountInv
  <2> QED
    BY <2>1, <2>2 DEF IInv, CountInv, TypeOK, RepliesWereCounted
<1> QED
  BY <1>1, Invariance, PTL

-----------------------------------------------------------------------------
\* The requests that the handler of call r is through with.
Handled == [r \in Rpcs |->
              IF rpc[r] \in {"processing", "answering"} THEN read[r] - 1 ELSE read[r]]

(* A step that leaves the client's requests and the replies alone, and     *)
(* every handler with what it has handled, is no step of the service.      *)
LEMMA Unseen ==
  ASSUME UNCHANGED <<sent, replies>>, Handled' = Handled
  PROVE  UNCHANGED Service!svars
BY DEF Service!svars, Handled

(* A handler that ends a request has handled one more.                     *)
LEMMA Ended ==
  ASSUME TypeOK, NEW r \in Rpcs, rpc[r] \in {"processing", "answering"},
         NEW to, to \notin {"processing", "answering"},
         rpc' = [rpc EXCEPT ![r] = to], UNCHANGED read
  PROVE  Handled' = [Handled EXCEPT ![r] = @ + 1]
<1>1. /\ \A x \in Rpcs : x # r => Handled'[x] = Handled[x]
      /\ Handled'[r] = Handled[r] + 1
  BY DEF Handled, TypeOK
<1>2. DOMAIN Handled = Rpcs /\ Handled' = [x \in Rpcs |-> Handled'[x]]
  BY DEF Handled
<1> QED
  BY <1>1, <1>2 DEF Handled

(* A handler that ends a request and has not been seen to answer skips it. *)
LEMMA Skipped ==
  ASSUME TypeOK, CallInv, NEW r \in Rpcs,
         rpc[r] \in {"processing", "answering"},
         UNCHANGED <<sent, replies>>,
         Handled' = [Handled EXCEPT ![r] = @ + 1]
  PROVE  Service!Skip(r)
<1>1. Handled[r] = read[r] - 1 /\ read[r] - 1 < sent[r]
  BY DEF Handled, TypeOK, CallInv
<1> QED
  BY <1>1 DEF Service!Skip, Service!Dispose, Handled

(* The handlers with their early exits and skipped frames keep the promise *)
(* of the service: whatever they do is a step of InferenceService, or      *)
(* nothing that a client can tell.                                         *)
THEOREM ServiceRefinement == SafeSpec => ImplementsService
<1>1. ServerInit => Service!Init
  BY DEF ServerInit, Init, Service!Init
<1>2. IInv /\ [Next]_vars => [Service!Next]_(Service!svars)
  <2> SUFFICES ASSUME IInv, [Next]_vars PROVE Service!Next \/ UNCHANGED Service!svars
    OBVIOUS
  <2> USE CallsAssumption DEF IInv, TypeOK, callVars, serverVars
  <2>1. CASE ClientStep /\ UNCHANGED serverVars
    <3>1. Handled' = Handled
      BY <2>1 DEF Handled
    <3>2. ASSUME NEW u \in Unary, CallDetect(u) PROVE Service!Next
      <4>1. u \in Rpcs /\ sent[u] = 0
        BY <3>2 DEF CallDetect, ClientGoes, CallInv, Rpcs
      <4>2. Service!Send(u)
        BY <3>1, <3>2, <4>1 DEF CallDetect, Service!Send, Handled
      <4> QED
        BY <4>1, <4>2 DEF Service!Next
    <3>3. ASSUME NEW s \in Streams, Send(s) PROVE Service!Next
      <4>1. s \in Rpcs /\ Service!Send(s)
        BY <3>1, <3>3 DEF Send, Service!Send, Handled, Rpcs
      <4> QED
        BY <4>1 DEF Service!Next
    <3>4. ASSUME NEW s \in Streams, CallDetectStream(s) \/ HalfClose(s)
          PROVE  UNCHANGED Service!svars
      BY <3>1, <3>4, Unseen DEF CallDetectStream, HalfClose
    <3>5. ASSUME NEW r \in Rpcs, Leave(r) PROVE UNCHANGED Service!svars
      BY <3>1, <3>5, Unseen DEF Leave
    <3> QED
      BY <2>1, <3>2, <3>3, <3>4, <3>5 DEF ClientStep
  <2>2. ASSUME NEW r \in Rpcs, Call(r) \/ Handler(r)
        PROVE  Service!Next \/ UNCHANGED Service!svars
    <3> USE DEF Goes
    <3>1. CASE Detect(r)
      <4>1. Handled' = Handled
        BY <3>1 DEF Detect, Handled, CallInv
      <4> QED
        BY <3>1, <4>1, Unseen DEF Detect
    <3>2. CASE DetectStream(r) \/ ReadFails(r)
      <4>1. Handled' = Handled
        BY <3>2 DEF DetectStream, ReadFails, Handled
      <4> QED
        BY <3>2, <4>1, Unseen DEF DetectStream, ReadFails
    <3>3. CASE Read(r)
      <4>1. Handled' = Handled
        BY <3>3 DEF Read, Handled
      <4> QED
        BY <3>3, <4>1, Unseen DEF Read
    <3>4. CASE Process(r)
      <4>1. Handled' = Handled
        BY <3>4 DEF Process, Handled
      <4> QED
        BY <3>4, <4>1, Unseen DEF Process
    <3>5. CASE ProcessThrows(r)
      <4>1. PICK to \in {"done", "reading"} : rpc' = [rpc EXCEPT ![r] = to]
        BY <3>5 DEF ProcessThrows
      <4>2. Handled' = [Handled EXCEPT ![r] = @ + 1]
        BY <3>5, <4>1, Ended DEF ProcessThrows
      <4>3. Service!Skip(r)
        BY <3>5, <4>2, Skipped DEF ProcessThrows
      <4> QED
        BY <4>3 DEF Service!Next
    <3>6. CASE Reply(r)
      <4>1. Handled' = [Handled EXCEPT ![r] = @ + 1]
        BY <3>6, Ended DEF Reply
      <4>2. CASE client[r] = "gone"
        <5>1. Service!Skip(r)
          BY <3>6, <4>1, <4>2, Skipped DEF Reply, Deliver
        <5> QED
          BY <5>1 DEF Service!Next
      <4>3. CASE client[r] # "gone"
        <5>1. Handled[r] = read[r] - 1 /\ Handled[r] + 1 = read[r] /\ Handled[r] < sent[r]
          BY <3>6 DEF Reply, Handled, CallInv
        <5>2. replies' = [replies EXCEPT ![r] = Append(@, <<r, Handled[r] + 1>>)]
          BY <3>6, <4>3, <5>1 DEF Reply, Deliver
        <5>3. Service!Answer(r)
          BY <3>6, <4>1, <5>1, <5>2 DEF Reply, Deliver, Service!Answer, Service!Dispose,
                                        Service!Response, Handled
        <5> QED
          BY <5>3 DEF Service!Next
      <4> QED
        BY <4>2, <4>3
    <3> QED
      BY <2>2, <3>1, <3>2, <3>3, <3>4, <3>5, <3>6 DEF Call, Handler
  <2>3. CASE Shutdown \/ Drained \/ UNCHANGED vars
    <3>1. UNCHANGED <<sent, replies>> /\ Handled' = Handled
      BY <2>3 DEF Shutdown, Drained, vars, Handled
    <3> QED
      BY <3>1, Unseen
  <2> QED
    BY <2>1, <2>2, <2>3 DEF Next, Finished
<1> QED
  BY <1>1, <1>2, Invariance, PTL DEF SafeSpec, ImplementsService, Service!Spec

=============================================================================
