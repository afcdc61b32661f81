-------------------------- MODULE InferenceService --------------------------
(***************************************************************************)
(* What a server of InferenceService promises on one call, seen from the   *)
(* robot: requests are disposed of in the order they were sent, each one   *)
(* is answered at most once, with the robot id and timestamp it carried,   *)
(* and a request that fails is skipped. InferenceServer and Middleware,    *)
(* with everything behind it, both implement this.                         *)
(***************************************************************************)
EXTENDS Naturals, Sequences

CONSTANT Rpcs   \* the calls, Detect and DetectStream alike

VARIABLES
  sent,      \* sent[r]: requests sent so far
  handled,   \* handled[r]: requests disposed of so far
  replies    \* replies[r]: responses that reached the client

svars == <<sent, handled, replies>>

\* A response names its request: the robot (its call) and the timestamp
\* (the position of the frame on the call).
Response(r, n) == <<r, n>>

Init ==
  /\ sent = [r \in Rpcs |-> 0]
  /\ handled = [r \in Rpcs |-> 0]
  /\ replies = [r \in Rpcs |-> <<>>]

Send(r) ==
  /\ sent' = [sent EXCEPT ![r] = @ + 1]
  /\ UNCHANGED <<handled, replies>>

Dispose(r) ==
  /\ handled[r] < sent[r]
  /\ handled' = [handled EXCEPT ![r] = @ + 1]
  /\ UNCHANGED sent

Answer(r) ==
  /\ Dispose(r)
  /\ replies' = [replies EXCEPT ![r] = Append(@, Response(r, handled[r] + 1))]

(* The request failed, or its response found no client.                    *)
Skip(r) == Dispose(r) /\ UNCHANGED replies

Next == \E r \in Rpcs : Send(r) \/ Answer(r) \/ Skip(r)

Spec == Init /\ [][Next]_svars
=============================================================================
