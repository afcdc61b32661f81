----------------------------- MODULE TaskQueue -----------------------------
(***************************************************************************)
(* What a middleware::ThreadPool promises to the threads that use it, with *)
(* no mutex, no condition variable and no thread in sight: calls are       *)
(* accepted in some order while the pool is open, started in that order on *)
(* a fixed number of slots, and each one gets exactly one result.          *)
(* ThreadPool implements this specification; Middleware is built on it.    *)
(***************************************************************************)
EXTENDS Naturals, Sequences

CONSTANTS
  Calls,   \* the calls of enqueue(); a call is identified with its task
  Slots,   \* how many tasks can run at once: one slot per worker thread
  None     \* no task, no result

VARIABLES
  queue,   \* accepted tasks that have not started, oldest first
  slot,    \* slot[s]: the task running on slot s
  result,  \* result[c]: the shared state of the std::future of call c
  open     \* FALSE once the pool refuses new tasks

qvars == <<queue, slot, result, open>>

\* Answered futures hold a value, or the exception that the task threw.
Answers == {"value", "exception"}

Init ==
  /\ queue = <<>>
  /\ slot = [s \in Slots |-> None]
  /\ result = [c \in Calls |-> None]
  /\ open = TRUE

(* enqueue() on an open pool: the task joins the queue.                    *)
Accept(c) ==
  /\ open
  /\ result[c] = None
  /\ result' = [result EXCEPT ![c] = "pending"]
  /\ queue' = Append(queue, c)
  /\ UNCHANGED <<slot, open>>

(* enqueue() on a closed pool throws: the task is never run.               *)
Refuse(c) ==
  /\ ~open
  /\ result[c] = None
  /\ result' = [result EXCEPT ![c] = "refused"]
  /\ UNCHANGED <<queue, slot, open>>

(* The oldest task starts on a free slot.                                  *)
Start(s) ==
  /\ slot[s] = None
  /\ queue # <<>>
  /\ slot' = [slot EXCEPT ![s] = Head(queue)]
  /\ queue' = Tail(queue)
  /\ UNCHANGED <<result, open>>

(* A running task ends and its future becomes ready.                       *)
Finish(s, answer) ==
  /\ slot[s] # None
  /\ result' = [result EXCEPT ![slot[s]] = answer]
  /\ slot' = [slot EXCEPT ![s] = None]
  /\ UNCHANGED <<queue, open>>

(* shutdown() closes the pool; what was accepted still runs.               *)
Close ==
  /\ open
  /\ open' = FALSE
  /\ UNCHANGED <<queue, slot, result>>

Next ==
  \/ \E c \in Calls : Accept(c) \/ Refuse(c)
  \/ \E s \in Slots : Start(s) \/ \E answer \in Answers : Finish(s, answer)
  \/ Close

SafeSpec == Init /\ [][Next]_qvars

(* A pool with a free slot and a waiting task makes progress, and every    *)
(* task that runs ends.                                                    *)
Spec ==
  /\ SafeSpec
  /\ WF_qvars(\E s \in Slots : Start(s))
  /\ \A s \in Slots : WF_qvars(\E answer \in Answers : Finish(s, answer))

=============================================================================
