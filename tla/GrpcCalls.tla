----------------------------- MODULE GrpcCalls -----------------------------
(***************************************************************************)
(* The calls of proto/inference.proto as the client side and the gRPC      *)
(* library present them to a synchronous server: a unary Detect carries    *)
(* one request, a DetectStream carries requests in the order the client    *)
(* sent them until the client half-closes, and a client may leave at any   *)
(* time (its deadline passes, it cancels, it dies).                        *)
(***************************************************************************)
EXTENDS Naturals, Sequences

CONSTANTS
  Unary,      \* calls of Detect
  Streams,    \* calls of DetectStream
  MaxFrames   \* bound: requests on one stream

ASSUME CallsAssumption ==
  /\ Unary \cap Streams = {}
  /\ MaxFrames \in Nat \ {0}

VARIABLES
  client,     \* client[r]: what the client of call r has done
  sent,       \* sent[r]: requests sent so far
  replies     \* replies[r]: responses that reached the client, in order

callVars == <<client, sent, replies>>

Rpcs == Unary \cup Streams
ClientStates == {"new", "open", "closed", "gone"}

Init ==
  /\ client = [r \in Rpcs |-> "new"]
  /\ sent = [r \in Rpcs |-> 0]
  /\ replies = [r \in Rpcs |-> <<>>]

ClientGoes(r, from, to) ==
  /\ client[r] = from
  /\ client' = [client EXCEPT ![r] = to]

(* A unary call sends its only request and half-closes at once.            *)
CallDetect(u) ==
  /\ ClientGoes(u, "new", "closed")
  /\ sent' = [sent EXCEPT ![u] = 1]
  /\ UNCHANGED replies

CallDetectStream(s) ==
  /\ ClientGoes(s, "new", "open")
  /\ UNCHANGED <<sent, replies>>

Send(s) ==
  /\ client[s] = "open"
  /\ sent[s] < MaxFrames
  /\ sent' = [sent EXCEPT ![s] = @ + 1]
  /\ UNCHANGED <<client, replies>>

HalfClose(s) ==
  /\ ClientGoes(s, "open", "closed")
  /\ UNCHANGED <<sent, replies>>

Leave(r) ==
  /\ client[r] \in {"open", "closed"}
  /\ client' = [client EXCEPT ![r] = "gone"]
  /\ UNCHANGED <<sent, replies>>

ClientStep ==
  \/ \E u \in Unary : CallDetect(u)
  \/ \E s \in Streams : CallDetectStream(s) \/ Send(s) \/ HalfClose(s)
  \/ \E r \in Rpcs : Leave(r)

(* What the server may do with a call: see that there is no request left   *)
(* to read, and hand over a response, which a client that left never sees. *)
NothingToRead(r, read) ==
  \/ client[r] = "closed" /\ read = sent[r]
  \/ client[r] = "gone"

Deliver(r, response) ==
  /\ replies' = IF client[r] = "gone" THEN replies
                ELSE [replies EXCEPT ![r] = Append(@, response)]
  /\ UNCHANGED <<client, sent>>
=============================================================================
