------------------------------ MODULE Deadlines ------------------------------
(***************************************************************************)
(* The two deadlines of a frame and the pool between them, in discrete     *)
(* time: a robot waits Timeout for its call (grpc_client.py), a worker of  *)
(* the middleware waits Deadline for the inference server (forward), both  *)
(* 5 s, and nobody tells the middleware that a robot has given up.         *)
(*                                                                         *)
(* Within Latency a message is on the other side, and a worker that is     *)
(* free takes a waiting task at once. The inference server is external:    *)
(* it answers or fails at any time, or never. What it still does with a    *)
(* frame that forward() has given up is not in the model.                  *)
(***************************************************************************)
EXTENDS Integers, FiniteSets, Sequences

CONSTANTS
  Robots,    \* robot nodes, each with one blocking call at a time
  Workers,   \* how many threads pool_ has
  Timeout,   \* of detect()
  Deadline,  \* of forward()
  Latency,   \* bound: the longest way of a message
  Copies     \* bound: frames of one robot that exist at once

(* Two workers to a robot: main() makes 8 unless told otherwise, for the    *)
(* three robots of the launch file. A way takes much less than 5 s.        *)
ASSUME DeadlinesAssumption ==
  /\ IsFiniteSet(Robots)
  /\ Workers \in Nat /\ Workers >= 2 * Cardinality(Robots)
  /\ Timeout \in Nat /\ Deadline \in Nat /\ Latency \in Nat
  /\ Deadline <= Timeout /\ 2 * Latency < Timeout
  /\ Copies \in Nat

VARIABLES
  call,     \* call[r]: the frame that robot r waits for, 0 if none
  waited,   \* waited[r]: for how long
  place,    \* place[f]: where robot and middleware have frame f
  since,    \* since[f]: for how long
  spent,    \* spent[f]: how long forward() took, while f is on its way back
  queue     \* tasks of pool_

vars == <<call, waited, place, since, spent, queue>>

Frames == Robots \X (1..Copies)
Places == {"none", "travelling", "queued", "upstream", "returning"}

Init ==
  /\ call = [r \in Robots |-> 0]
  /\ waited = [r \in Robots |-> 0]
  /\ place = [f \in Frames |-> "none"]
  /\ since = [f \in Frames |-> 0]
  /\ spent = [f \in Frames |-> 0]
  /\ queue = <<>>

In(p) == {f \in Frames : place[f] = p}
Awaited(f) == call[f[1]] = f[2]

Moves(f, from, to) ==
  /\ place[f] = from
  /\ place' = [place EXCEPT ![f] = to]
  /\ since' = [since EXCEPT ![f] = 0]

-----------------------------------------------------------------------------
(* detect() is called with the next image, any time after the last call.   *)
Send(r) ==
  /\ call[r] = 0
  /\ \E k \in 1..Copies :
       /\ \A j \in 1..(k - 1) : place[<<r, j>>] # "none"
       /\ Moves(<<r, k>>, "none", "travelling")
       /\ call' = [call EXCEPT ![r] = k]
  /\ UNCHANGED <<waited, spent, queue>>

(* The robot's deadline: detect() throws. The frame goes on without it.    *)
GivesUp(r) ==
  /\ call[r] # 0 /\ waited[r] = Timeout
  /\ call' = [call EXCEPT ![r] = 0]
  /\ waited' = [waited EXCEPT ![r] = 0]
  /\ UNCHANGED <<place, since, spent, queue>>

(* The handler thread of the call puts its task into the pool.             *)
Enqueue(f) ==
  /\ Moves(f, "travelling", "queued")
  /\ queue' = Append(queue, f)
  /\ UNCHANGED <<call, waited, spent>>

(* A free worker takes the oldest task into forward().                     *)
Take ==
  /\ queue # <<>> /\ Cardinality(In("upstream")) < Workers
  /\ Moves(Head(queue), "queued", "upstream")
  /\ queue' = Tail(queue)
  /\ UNCHANGED <<call, waited, spent>>

\* Fault: forward() has no deadline.
NeverOverdue(f) == FALSE

\* Fault: forward() waits twice as long as the robot.
OverdueLate(f) == since[f] = 2 * Deadline

Overdue(f) == since[f] = Deadline

(* forward() has a response, an error, or no more time: the handler        *)
(* returns, and the answer finds its way, if there is anybody to hear it.  *)
(* process() of the inference server never looks whether its caller is     *)
(* still there: out of time, the frame is over for the middleware only.    *)
ForwardEnds(f) ==
  /\ Moves(f, "upstream", IF Awaited(f) THEN "returning" ELSE "none")
  /\ spent' = [spent EXCEPT ![f] = IF Awaited(f) THEN since[f] ELSE 0]
  /\ UNCHANGED <<call, waited, queue>>

(* The status or response is there.                                        *)
Return(f) ==
  /\ Moves(f, "returning", "none")
  /\ call' = [call EXCEPT ![f[1]] = IF Awaited(f) THEN 0 ELSE @]
  /\ waited' = [waited EXCEPT ![f[1]] = IF Awaited(f) THEN 0 ELSE @]
  /\ spent' = [spent EXCEPT ![f] = 0]
  /\ UNCHANGED queue

(* Time does not pass beside something that is due.                        *)
Due ==
  \/ \E f \in In("travelling") \cup In("returning") : since[f] = Latency
  \/ \E f \in In("upstream") : Overdue(f)
  \/ \E r \in Robots : call[r] # 0 /\ waited[r] = Timeout
  \/ queue # <<>> /\ Cardinality(In("upstream")) < Workers

Tick ==
  /\ ~Due
  /\ waited' = [r \in Robots |-> IF call[r] = 0 THEN 0 ELSE waited[r] + 1]
  /\ since' = [f \in Frames |-> IF place[f] = "none" THEN 0 ELSE since[f] + 1]
  /\ UNCHANGED <<call, place, spent, queue>>

Next ==
  \/ \E r \in Robots : Send(r) \/ GivesUp(r)
  \/ \E f \in Frames : Enqueue(f) \/ ForwardEnds(f) \/ Return(f)
  \/ Take \/ Tick

Spec == Init /\ [][Next]_vars

-----------------------------------------------------------------------------
(* Safety. A frame outlives its robot's call: detect() has given up, and    *)
(* forward() waits on, with a worker, while the robot sends the next one.  *)

(* README.md:24, "all three robots [...] frames in flight simultaneously":  *)
(* with two workers to a robot no frame ever waits for a worker, however   *)
(* slow the inference server is and whichever calls it leaves hanging.     *)
NeverWaits == \A f \in In("queued") : since[f] = 0

(* What robots give up does not pile up in the middleware: at most two     *)
(* frames of a robot are under way, in the pool, with a worker or between  *)
(* robot and middleware, since forward() gives up before the robot's       *)
(* second call does. Frames that forward() has given up are not counted:   *)
(* nothing bounds how many the inference server is still busy with.        *)
TwoUnderWay ==
  \A r \in Robots : Cardinality({f \in Frames : f[1] = r /\ place[f] # "none"}) <= 2

(* A robot gives up only on an inference server that was slow with its own *)
(* frame: but for the two ways it was there for the whole timeout. Nothing *)
(* in the middleware, such as frames of other robots, costs it its answer. *)
BlameUpstream ==
  \A r \in Robots :
    call[r] # 0 /\ waited[r] = Timeout =>
      LET f == <<r, call[r]>>
      IN  (IF place[f] = "upstream" THEN since[f] ELSE spent[f]) >= Timeout - 2 * Latency
=============================================================================
