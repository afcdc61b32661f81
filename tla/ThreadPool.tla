----------------------------- MODULE ThreadPool -----------------------------
(***************************************************************************)
(* middleware::ThreadPool (module2_middleware/include/thread_pool.hpp and  *)
(* src/thread_pool.cpp) at the grain of its mutex and condition variable:  *)
(* a step is what one thread does between two points where another thread  *)
(* can be scheduled.                                                       *)
(*                                                                         *)
(* Three kinds of thread: the workers run the loop of the constructor,     *)
(* each call of enqueue() is made by a thread of its own that then waits   *)
(* on the future, and one owner calls shutdown(), explicitly and again     *)
(* from the destructor.                                                    *)
(***************************************************************************)
EXTENDS Naturals, Sequences, FiniteSets

CONSTANTS
  Workers,      \* workers_: the threads of the pool (may be empty)
  Calls,        \* the calls of enqueue(), each with its task and its caller
  Owner,        \* the thread that calls shutdown()
  None,         \* no thread, no task, no result
  MaxShutdowns  \* bound: how often the owner calls shutdown()

ASSUME ThreadsAssumption ==
  /\ Workers \cap Calls = {}
  /\ Owner \notin Workers \cup Calls
  /\ None \notin Workers \cup Calls \cup {Owner}
  /\ None \notin {"pending", "value", "exception", "refused"}

ASSUME BoundAssumption == MaxShutdowns \in Nat

VARIABLES
  mtx,        \* mtx_: the thread that holds the mutex, or None
  tasks,      \* tasks_: the queue of tasks
  stop,       \* stop_
  wpc,        \* wpc[w]: where worker w is in its loop
  hand,       \* hand[w]: the local `task` of worker w
  cpc,        \* cpc[c]: where the caller of enqueue() c is
  fut,        \* fut[c]: the shared state behind the future of call c
  spc,        \* where the owner is in shutdown()
  joined,     \* the workers whose std::thread has been joined
  shutdowns   \* how many calls of shutdown() have begun

workerVars == <<wpc, hand>>
callVars   == <<cpc, fut>>
ownerVars  == <<spc, joined, shutdowns>>
vars == <<mtx, tasks, stop, workerVars, callVars, ownerVars>>

\* Program points, named for what the thread is about to do.
WorkerPoints == {"acquire", "test", "block", "asleep", "run", "exited"}
CallerPoints == {"call", "locked", "notify", "get", "done", "thrown"}
OwnerPoints  == {"idle", "acquire", "locked", "notify", "join", "returned"}
FutureStates == {None, "pending", "value", "exception", "refused"}
Answers      == {"value", "exception"}

TypeOK ==
  /\ mtx \in Workers \cup Calls \cup {Owner, None}
  /\ tasks \in Seq(Calls)
  /\ stop \in BOOLEAN
  /\ wpc \in [Workers -> WorkerPoints]
  /\ hand \in [Workers -> Calls \cup {None}]
  /\ cpc \in [Calls -> CallerPoints]
  /\ fut \in [Calls -> FutureStates]
  /\ spc \in OwnerPoints
  /\ joined \in SUBSET Workers
  /\ shutdowns \in 0..MaxShutdowns

(* The constructor starts every worker; one that the system has not        *)
(* scheduled yet is simply still before its first lock.                    *)
Init ==
  /\ mtx = None
  /\ tasks = <<>>
  /\ stop = FALSE
  /\ wpc = [w \in Workers |-> "acquire"]
  /\ hand = [w \in Workers |-> None]
  /\ cpc = [c \in Calls |-> "call"]
  /\ fut = [c \in Calls |-> None]
  /\ spc = "idle"
  /\ joined = {}
  /\ shutdowns = 0

Lock(t) == mtx = None /\ mtx' = t
Unlock  == mtx' = None

-----------------------------------------------------------------------------
(* The worker loop.                                                        *)

WorkerGoes(w, from, to) ==
  /\ wpc[w] = from
  /\ wpc' = [wpc EXCEPT ![w] = to]

(* Take the lock, at the top of the loop or on the way out of cv_.wait().  *)
WAcquire(w) ==
  /\ WorkerGoes(w, "acquire", "test")
  /\ Lock(w)
  /\ UNCHANGED <<tasks, stop, hand, callVars, ownerVars>>

(* The predicate of cv_.wait() is false; the lock is still held.           *)
WTest(w) ==
  /\ ~stop /\ tasks = <<>>
  /\ WorkerGoes(w, "test", "block")
  /\ UNCHANGED <<mtx, tasks, stop, hand, callVars, ownerVars>>

(* cv_.wait() releases the mutex and blocks in one step.                   *)
WSleep(w) ==
  /\ WorkerGoes(w, "block", "asleep")
  /\ Unlock
  /\ UNCHANGED <<tasks, stop, hand, callVars, ownerVars>>

(* A condition variable may wake a thread that nobody notified.            *)
WSpurious(w) ==
  /\ WorkerGoes(w, "asleep", "acquire")
  /\ UNCHANGED <<mtx, tasks, stop, hand, callVars, ownerVars>>

\* Fault: leave as soon as the pool is stopped.
WorkerMayExitEarly == stop

WorkerMayExit == stop /\ tasks = <<>>

WExit(w) ==
  /\ WorkerMayExit
  /\ WorkerGoes(w, "test", "exited")
  /\ Unlock
  /\ UNCHANGED <<tasks, stop, hand, callVars, ownerVars>>

\* Fault: tasks_.pop() forgotten.
WTakeWithoutPop(w) ==
  /\ tasks # <<>>
  /\ WorkerGoes(w, "test", "run")
  /\ hand' = [hand EXCEPT ![w] = Head(tasks)]
  /\ Unlock
  /\ UNCHANGED <<tasks, stop, callVars, ownerVars>>

\* Fault: the newest task first.
WTakeNewest(w) ==
  /\ tasks # <<>>
  /\ WorkerGoes(w, "test", "run")
  /\ hand' = [hand EXCEPT ![w] = tasks[Len(tasks)]]
  /\ tasks' = SubSeq(tasks, 1, Len(tasks) - 1)
  /\ Unlock
  /\ UNCHANGED <<stop, callVars, ownerVars>>

(* front(), pop() and the release of the lock at the end of the block.     *)
WTake(w) ==
  /\ ~WorkerMayExit
  /\ tasks # <<>>
  /\ WorkerGoes(w, "test", "run")
  /\ hand' = [hand EXCEPT ![w] = Head(tasks)]
  /\ tasks' = Tail(tasks)
  /\ Unlock
  /\ UNCHANGED <<stop, callVars, ownerVars>>

(* task() returns: the packaged_task has stored the value, or what the     *)
(* callable threw, in the shared state of the future.                      *)
WFinish(w) ==
  /\ WorkerGoes(w, "run", "acquire")
  /\ \E answer \in Answers : fut' = [fut EXCEPT ![hand[w]] = answer]
  /\ hand' = [hand EXCEPT ![w] = None]
  /\ UNCHANGED <<mtx, tasks, stop, cpc, ownerVars>>

Worker(w) ==
  \/ WAcquire(w) \/ WTest(w) \/ WSleep(w) \/ WSpurious(w)
  \/ WExit(w) \/ WTake(w) \/ WFinish(w)

-----------------------------------------------------------------------------
(* enqueue(), and the future.get() that follows it.                        *)

CallerGoes(c, from, to) ==
  /\ cpc[c] = from
  /\ cpc' = [cpc EXCEPT ![c] = to]

CAcquire(c) ==
  /\ CallerGoes(c, "call", "locked")
  /\ Lock(c)
  /\ UNCHANGED <<tasks, stop, workerVars, fut, ownerVars>>

\* Fault: the future of a refused call is handed out all the same.
CThrowAbandons(c) ==
  /\ stop
  /\ CallerGoes(c, "locked", "get")
  /\ fut' = [fut EXCEPT ![c] = "broken_promise"]
  /\ Unlock
  /\ UNCHANGED <<tasks, stop, workerVars, ownerVars>>

(* The exception leaves the scope of the unique_lock, which unlocks.       *)
CThrow(c) ==
  /\ stop
  /\ CallerGoes(c, "locked", "thrown")
  /\ fut' = [fut EXCEPT ![c] = "refused"]
  /\ Unlock
  /\ UNCHANGED <<tasks, stop, workerVars, ownerVars>>

CPush(c) ==
  /\ ~stop
  /\ CallerGoes(c, "locked", "notify")
  /\ fut' = [fut EXCEPT ![c] = "pending"]
  /\ tasks' = Append(tasks, c)
  /\ Unlock
  /\ UNCHANGED <<stop, workerVars, ownerVars>>

Asleep == {w \in Workers : wpc[w] = "asleep"}

\* Fault: no notification.
NotifyNobody == UNCHANGED wpc

\* Fault: notify only when the queue was empty before the push.
NotifyOneWhenFirst ==
  IF Asleep = {} \/ Len(tasks) > 1 THEN UNCHANGED wpc
  ELSE \E w \in Asleep : wpc' = [wpc EXCEPT ![w] = "acquire"]

(* A notification with nobody in the wait set is lost.                     *)
NotifyOne ==
  IF Asleep = {} THEN UNCHANGED wpc
  ELSE \E w \in Asleep : wpc' = [wpc EXCEPT ![w] = "acquire"]

\* Fault: shutdown() calls notify_one().
NotifyAllOnlyOne == NotifyOne

NotifyAll ==
  wpc' = [w \in Workers |-> IF w \in Asleep THEN "acquire" ELSE wpc[w]]

(* cv_.notify_one() comes after the lock is released.                      *)
CNotify(c) ==
  /\ CallerGoes(c, "notify", "get")
  /\ NotifyOne
  /\ UNCHANGED <<mtx, tasks, stop, hand, fut, ownerVars>>

CGet(c) ==
  /\ fut[c] \in Answers
  /\ CallerGoes(c, "get", "done")
  /\ UNCHANGED <<mtx, tasks, stop, workerVars, fut, ownerVars>>

Caller(c) == CAcquire(c) \/ CThrow(c) \/ CPush(c) \/ CNotify(c) \/ CGet(c)

-----------------------------------------------------------------------------
(* shutdown(), called explicitly and once more by the destructor.          *)

OwnerGoes(from, to) == spc = from /\ spc' = to

SCall ==
  /\ shutdowns < MaxShutdowns
  /\ \/ OwnerGoes("idle", "acquire")
     \/ OwnerGoes("returned", "acquire")
  /\ shutdowns' = shutdowns + 1
  /\ UNCHANGED <<mtx, tasks, stop, workerVars, callVars, joined>>

\* Fault: stop_ is set without the lock.
SAcquireNothing ==
  /\ OwnerGoes("acquire", "notify")
  /\ stop' = TRUE
  /\ UNCHANGED <<mtx, tasks, workerVars, callVars, joined, shutdowns>>

SAcquire ==
  /\ OwnerGoes("acquire", "locked")
  /\ Lock(Owner)
  /\ UNCHANGED <<tasks, stop, workerVars, callVars, joined, shutdowns>>

SStop ==
  /\ OwnerGoes("locked", "notify")
  /\ stop' = TRUE
  /\ Unlock
  /\ UNCHANGED <<tasks, workerVars, callVars, joined, shutdowns>>

SNotify ==
  /\ OwnerGoes("notify", "join")
  /\ NotifyAll
  /\ UNCHANGED <<mtx, tasks, stop, hand, callVars, joined, shutdowns>>

(* join() returns once the worker has left its loop; a joined thread is no *)
(* longer joinable(), so a second shutdown() skips it. The order of the    *)
(* joins does not matter to anyone and is left open.                       *)
SJoin(w) ==
  /\ spc = "join"
  /\ w \notin joined
  /\ wpc[w] = "exited"
  /\ joined' = joined \cup {w}
  /\ UNCHANGED <<mtx, tasks, stop, workerVars, callVars, spc, shutdowns>>

SReturn ==
  /\ joined = Workers
  /\ OwnerGoes("join", "returned")
  /\ UNCHANGED <<mtx, tasks, stop, workerVars, callVars, joined, shutdowns>>

ShutdownStep == SAcquire \/ SStop \/ SNotify \/ (\E w \in Workers : SJoin(w)) \/ SReturn

-----------------------------------------------------------------------------
(* Everybody is finished: not a deadlock.                                  *)
Finished ==
  /\ spc = "returned" /\ shutdowns = MaxShutdowns
  /\ \A c \in Calls : cpc[c] \in {"done", "thrown"}
  /\ UNCHANGED vars

Next ==
  \/ \E w \in Workers : Worker(w)
  \/ \E c \in Calls : Caller(c)
  \/ SCall \/ ShutdownStep
  \/ Finished

SafeSpec == Init /\ [][Next]_vars

(* A thread that can run is scheduled eventually, and a task that runs     *)
(* ends (forward() carries a deadline). Nobody has to call enqueue() or    *)
(* shutdown(). The mutex is not fair: only the owner, which competes with  *)
(* workers that spurious wake-ups may bring back to the lock for ever, is  *)
(* assumed to get it when it is free again and again.                      *)
Fairness ==
  /\ \A w \in Workers :
       /\ WF_vars(WAcquire(w))
       /\ WF_vars(WTest(w) \/ WSleep(w) \/ WExit(w) \/ WTake(w))
       /\ WF_vars(WFinish(w))
  /\ \A c \in Calls : WF_vars(CThrow(c) \/ CPush(c) \/ CNotify(c) \/ CGet(c))
  /\ SF_vars(SAcquire)
  /\ WF_vars(SStop \/ SNotify \/ (\E w \in Workers : SJoin(w)) \/ SReturn)

Spec == SafeSpec /\ Fairness

-----------------------------------------------------------------------------
(* Safety.                                                                 *)

InQueue(c) == \E i \in 1..Len(tasks) : tasks[i] = c
InHand(c)  == \E w \in Workers : hand[w] = c

(* A future is pending exactly while its task is in one place, the queue   *)
(* or the hand of one worker: no task is lost, duplicated or run twice     *)
(* whatever the interleaving of push, pop and shutdown.                    *)
EachTaskOnce ==
  /\ \A c \in Calls : fut[c] = "pending" <=> InQueue(c) \/ InHand(c)
  /\ \A c \in Calls : ~(InQueue(c) /\ InHand(c))
  /\ \A i, j \in 1..Len(tasks) : tasks[i] = tasks[j] => i = j
  /\ \A v, w \in Workers : hand[v] = hand[w] /\ hand[v] # None => v = w

(* thread_pool.hpp:37, "Finish all queued tasks and stop workers": when    *)
(* shutdown() returns every worker has left its loop and no accepted task  *)
(* is left without a result, even one pushed while shutdown() waited for   *)
(* the lock.                                                               *)
ShutdownDrains ==
  spc = "returned" =>
    /\ \A w \in Workers : wpc[w] = "exited"
    /\ tasks = <<>>
    /\ \A c \in Calls : fut[c] # "pending"

(* No lost wake-up: when a task waits in the queue and no notification for *)
(* it is still on its way, some worker is on its way to the queue. The     *)
(* notification comes after the lock is released (thread_pool.hpp:68), so  *)
(* this rests on the workers' test and block being one critical section.   *)
NoLostWakeup ==
  tasks # <<>> /\ (\A c \in Calls : cpc[c] # "notify") =>
    \E w \in Workers : wpc[w] \in {"acquire", "test", "run"}

(* While some worker sleeps there are, for every queued task, a worker     *)
(* on its way to the queue or a notification on its way to a sleeper. So a *)
(* frame never waits behind the long upstream calls of busy workers while  *)
(* another worker sleeps beside the queue.                                 *)
NoIdleWorkerBesideTask ==
  Asleep # {} =>
    Len(tasks) <= Cardinality({w \in Workers : wpc[w] \in {"acquire", "test"}})
                  + Cardinality({c \in Calls : cpc[c] = "notify"})

(* Once shutdown() has notified, no worker sleeps or is about to: the      *)
(* joins of thread_pool.cpp:32 cannot wait for a thread nobody will wake.  *)
NoSleeperAfterStop ==
  stop /\ spc # "notify" => \A w \in Workers : wpc[w] \notin {"block", "asleep"}

-----------------------------------------------------------------------------
(* Liveness and refinement.                                                *)

(* Every caller whose task was accepted gets its answer, also when the     *)
(* pool is shut down meanwhile.                                            *)
AcceptedIsAnswered == \A c \in Calls : cpc[c] = "notify" ~> cpc[c] = "done"

(* shutdown() returns: no join blocks for ever.                            *)
ShutdownReturns == spc = "acquire" ~> spc = "returned"

(* The queue in front of one slot per worker that callers rely on.         *)
TQ == INSTANCE TaskQueue WITH
        Slots <- Workers, queue <- tasks, slot <- hand,
        result <- fut, open <- ~stop

(* The pool with its mutex, condition variable and threads implements the  *)
(* task queue: first in first out, one slot per worker, one result each,   *)
(* no acceptance after shutdown, and progress.                             *)
ImplementsTaskQueue == TQ!Spec
=============================================================================
