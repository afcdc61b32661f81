-------------------------- MODULE ThreadPoolProofs --------------------------
(***************************************************************************)
(* Proofs about ThreadPool, for any sets of workers and callers, any       *)
(* number of shutdown() calls and any interleaving.                        *)
(*                                                                         *)
(* The properties of ThreadPool are not inductive on their own. IInv adds  *)
(* what the mutex protects (LockInv), what a worker's place in its loop    *)
(* says of its hand and of the queue (WorkerInv), what a caller's place    *)
(* says of its future (CallerInv) and what the owner's place says of       *)
(* stop_ and of the joined workers (OwnerInv).                             *)
(***************************************************************************)
EXTENDS ThreadPool, FiniteSetTheorems, TLAPS

\* Who is inside a critical section holds the mutex.
LockInv ==
  /\ \A w \in Workers : wpc[w] \in {"test", "block"} <=> mtx = w
  /\ \A c \in Calls : cpc[c] = "locked" <=> mtx = c
  /\ spc = "locked" <=> mtx = Owner

\* A worker holds a task while it runs one; it settles down to sleep, or
\* leaves, only beside an empty queue, and it leaves only a stopped pool.
WorkerInv ==
  /\ \A w \in Workers : hand[w] # None <=> wpc[w] = "run"
  /\ \A w \in Workers : wpc[w] = "block" => ~stop /\ tasks = <<>>
  /\ \A w \in Workers : wpc[w] = "exited" => stop /\ tasks = <<>>

\* A call has no future yet, or was refused, exactly where its caller says.
CallerInv ==
  \A c \in Calls :
    /\ cpc[c] \in {"call", "locked"} <=> fut[c] = None
    /\ cpc[c] = "thrown" <=> fut[c] = "refused"

\* The owner notifies and joins a stopped pool; joined workers are gone.
OwnerInv ==
  /\ \A w \in joined : wpc[w] = "exited"
  /\ spc \in {"notify", "join", "returned"} => stop
  /\ spc = "returned" => joined = Workers

IInv ==
  /\ TypeOK
  /\ LockInv /\ WorkerInv /\ CallerInv /\ OwnerInv
  /\ EachTaskOnce
  /\ NoSleeperAfterStop

-----------------------------------------------------------------------------
(* Initially nothing is queued, held or locked.                            *)
LEMMA InitIInv == Init => IInv
<1> SUFFICES ASSUME Init PROVE IInv
  OBVIOUS
<1> USE DEF Init
<1>1. TypeOK
  <2>1. mtx \in Workers \cup Calls \cup {Owner, None} /\ stop \in BOOLEAN
    OBVIOUS
  <2>2. tasks \in Seq(Calls)
    OBVIOUS
  <2>3. wpc \in [Workers -> WorkerPoints] /\ hand \in [Workers -> Calls \cup {None}]
    BY DEF WorkerPoints
  <2>4. cpc \in [Calls -> CallerPoints] /\ fut \in [Calls -> FutureStates]
    BY DEF CallerPoints, FutureStates
  <2>5. spc \in OwnerPoints /\ joined \in SUBSET Workers /\ shutdowns \in 0..MaxShutdowns
    BY BoundAssumption DEF OwnerPoints
  <2> QED
    BY <2>1, <2>2, <2>3, <2>4, <2>5 DEF TypeOK
<1>2. LockInv /\ WorkerInv /\ CallerInv /\ OwnerInv
  BY ThreadsAssumption DEF LockInv, WorkerInv, CallerInv, OwnerInv
<1>3. EachTaskOnce /\ NoSleeperAfterStop
  BY ThreadsAssumption DEF EachTaskOnce, InQueue, InHand, NoSleeperAfterStop
<1> QED
  BY <1>1, <1>2, <1>3 DEF IInv

-----------------------------------------------------------------------------
(* Every action keeps the variables in their types.                        *)
LEMMA TypeStep == TypeOK /\ [Next]_vars => TypeOK'
<1> SUFFICES ASSUME TypeOK, [Next]_vars PROVE TypeOK'
  OBVIOUS
<1> USE DEF TypeOK, WorkerPoints, CallerPoints, OwnerPoints, FutureStates
<1>1. ASSUME NEW w \in Workers, Worker(w) PROVE TypeOK'
  <2> USE <1>1 DEF workerVars, callVars, ownerVars, WorkerGoes, Lock, Unlock
  <2>1. CASE WAcquire(w) \/ WTest(w) \/ WSleep(w) \/ WSpurious(w) \/ WExit(w)
    BY <2>1 DEF WAcquire, WTest, WSleep, WSpurious, WExit
  <2>2. CASE WTake(w)
    <3>1. Head(tasks) \in Calls /\ Tail(tasks) \in Seq(Calls)
      BY <2>2 DEF WTake
    <3> QED
      BY <2>2, <3>1 DEF WTake
  <2>3. CASE WFinish(w)
    BY <2>3 DEF WFinish, Answers
  <2> QED
    BY <2>1, <2>2, <2>3 DEF Worker
<1>2. ASSUME NEW c \in Calls, Caller(c) PROVE TypeOK'
  <2> USE <1>2 DEF workerVars, callVars, ownerVars, CallerGoes, Lock, Unlock
  <2>1. CASE CAcquire(c) \/ CThrow(c) \/ CGet(c)
    BY <2>1 DEF CAcquire, CThrow, CGet
  <2>2. CASE CPush(c)
    BY <2>2 DEF CPush
  <2>3. CASE CNotify(c)
    BY <2>3 DEF CNotify, NotifyOne, Asleep
  <2> QED
    BY <2>1, <2>2, <2>3 DEF Caller
<1>3. CASE SCall
  BY <1>3, BoundAssumption DEF SCall, OwnerGoes, workerVars, callVars
<1>4. CASE ShutdownStep
  <2> USE <1>4 DEF workerVars, callVars, ownerVars, OwnerGoes, Lock, Unlock
  <2>1. CASE SAcquire \/ SStop \/ SReturn
    BY <2>1 DEF SAcquire, SStop, SReturn
  <2>2. CASE SNotify
    BY <2>2 DEF SNotify, NotifyAll
  <2>3. CASE \E w \in Workers : SJoin(w)
    BY <2>3 DEF SJoin
  <2> QED
    BY <2>1, <2>2, <2>3 DEF ShutdownStep
<1>5. CASE UNCHANGED vars
  BY <1>5 DEF vars, workerVars, callVars, ownerVars
<1> QED
  BY <1>1, <1>2, <1>3, <1>4, <1>5 DEF Next, Finished

(* In a step that leaves the queue, the hands and the futures alone        *)
(* every task stays where it is.                                           *)
LEMMA TasksStayPut ==
  ASSUME EachTaskOnce, UNCHANGED <<tasks, hand, fut>>
  PROVE  EachTaskOnce'
BY DEF EachTaskOnce, InQueue, InHand

-----------------------------------------------------------------------------
(* The inductive step, one lemma per kind of thread.                       *)

LEMMA WorkerStep ==
  ASSUME IInv, TypeOK', NEW w \in Workers, Worker(w)
  PROVE  IInv'
<1> USE ThreadsAssumption DEF IInv, TypeOK, WorkerGoes, Lock, Unlock, callVars, ownerVars
<1>1. CASE WAcquire(w) \/ WTest(w) \/ WSleep(w) \/ WSpurious(w) \/ WExit(w)
  <2>1. UNCHANGED <<tasks, stop, hand, callVars, ownerVars>>
    BY <1>1 DEF WAcquire, WTest, WSleep, WSpurious, WExit
  <2>2. LockInv'
    BY <1>1 DEF LockInv, WAcquire, WTest, WSleep, WSpurious, WExit
  <2>3. WorkerInv'
    BY <1>1 DEF WorkerInv, WAcquire, WTest, WSleep, WSpurious, WExit, WorkerMayExit
  <2>4. CallerInv' /\ OwnerInv'
    BY <1>1, <2>1 DEF CallerInv, OwnerInv, WAcquire, WTest, WSleep, WSpurious, WExit
  <2>5. EachTaskOnce'
    BY <2>1, TasksStayPut
  <2>6. NoSleeperAfterStop'
    BY <1>1 DEF NoSleeperAfterStop, WorkerInv, WAcquire, WTest, WSleep, WSpurious, WExit
  <2> QED
    BY <2>2, <2>3, <2>4, <2>5, <2>6
<1>2. CASE WTake(w)
  <2> USE <1>2 DEF WTake
  <2>1. LockInv' /\ CallerInv' /\ OwnerInv'
    BY DEF LockInv, CallerInv, OwnerInv
  <2>2. WorkerInv'
    BY DEF WorkerInv, LockInv
  <2>3. EachTaskOnce'
    <3>1. Head(tasks) = tasks[1] /\ Len(tasks) >= 1 /\ Len(tasks') = Len(tasks) - 1
      OBVIOUS
    <3>2. \A i \in 1..Len(tasks') : tasks'[i] = tasks[i + 1] /\ i + 1 \in 1..Len(tasks)
      BY <3>1
    <3>3. \A i \in 1..Len(tasks) : i = 1 \/ (i - 1 \in 1..Len(tasks') /\ tasks'[i - 1] = tasks[i])
      BY <3>1, <3>2
    <3>4. \A c \in Calls : InQueue(c)' <=> InQueue(c) /\ c # Head(tasks)
      <4> SUFFICES ASSUME NEW c \in Calls
                   PROVE  InQueue(c)' <=> InQueue(c) /\ c # Head(tasks)
        OBVIOUS
      <4>1. ASSUME NEW i \in 1..Len(tasks'), tasks'[i] = c PROVE InQueue(c) /\ c # tasks[1]
        <5>1. i + 1 \in 1..Len(tasks) /\ tasks[i + 1] = c /\ i + 1 # 1 /\ 1 \in 1..Len(tasks)
          BY <3>1, <3>2, <4>1
        <5> QED
          BY <5>1 DEF InQueue, EachTaskOnce
      <4>2. ASSUME NEW i \in 1..Len(tasks), tasks[i] = c, c # tasks[1] PROVE InQueue(c)'
        BY <3>3, <4>2 DEF InQueue
      <4> QED
        BY <3>1, <4>1, <4>2 DEF InQueue
    <3>5. hand[w] = None
      BY DEF WorkerInv
    <3>6. \A c \in Calls : InHand(c)' <=> InHand(c) \/ c = Head(tasks)
      BY <3>1, <3>5 DEF InHand
    <3>7. Head(tasks) \in Calls /\ InQueue(Head(tasks))
      BY <3>1 DEF InQueue
    <3>8. \A c \in Calls : fut'[c] = "pending" <=> InQueue(c)' \/ InHand(c)'
      BY <3>4, <3>6, <3>7 DEF EachTaskOnce
    <3>9. \A c \in Calls : ~(InQueue(c)' /\ InHand(c)')
      BY <3>4, <3>6, <3>7 DEF EachTaskOnce
    <3>10. \A i, j \in 1..Len(tasks') : tasks'[i] = tasks'[j] => i = j
      BY <3>1, <3>2 DEF EachTaskOnce
    <3>11. \A u, v \in Workers : hand'[u] = hand'[v] /\ hand'[u] # None => u = v
      BY <3>5, <3>7 DEF EachTaskOnce, InHand
    <3> QED
      BY <3>8, <3>9, <3>10, <3>11 DEF EachTaskOnce, InQueue, InHand
  <2>4. NoSleeperAfterStop'
    BY DEF NoSleeperAfterStop
  <2> QED
    BY <2>1, <2>2, <2>3, <2>4
<1>3. CASE WFinish(w)
  <2> USE <1>3 DEF WFinish
  <2>1. PICK answer \in Answers : fut' = [fut EXCEPT ![hand[w]] = answer]
    OBVIOUS
  <2>2. hand[w] \in Calls /\ fut[hand[w]] = "pending"
    BY DEF WorkerInv, EachTaskOnce, InHand
  <2>3. LockInv' /\ OwnerInv'
    BY DEF LockInv, OwnerInv
  <2>4. WorkerInv'
    BY DEF WorkerInv
  <2>5. CallerInv'
    BY <2>1, <2>2 DEF CallerInv, Answers
  <2>6. EachTaskOnce'
    <3>1. \A c \in Calls : InHand(c)' <=> InHand(c) /\ c # hand[w]
      BY <2>2 DEF InHand, EachTaskOnce
    <3>2. \A c \in Calls : InQueue(c)' <=> InQueue(c)
      BY DEF InQueue
    <3>3. InHand(hand[w])
      BY DEF InHand
    <3>4. \A c \in Calls : fut'[c] = "pending" <=> fut[c] = "pending" /\ c # hand[w]
      BY <2>1, <2>2 DEF Answers
    <3>5. \A c \in Calls : fut'[c] = "pending" <=> InQueue(c)' \/ InHand(c)'
      BY <3>1, <3>2, <3>3, <3>4, <2>2 DEF EachTaskOnce
    <3>6. \A c \in Calls : ~(InQueue(c)' /\ InHand(c)')
      BY <3>1, <3>2 DEF EachTaskOnce
    <3>7. \A u, v \in Workers : hand'[u] = hand'[v] /\ hand'[u] # None => u = v
      BY DEF EachTaskOnce
    <3> QED
      BY <3>5, <3>6, <3>7 DEF EachTaskOnce, InQueue, InHand
  <2>7. NoSleeperAfterStop'
    BY DEF NoSleeperAfterStop
  <2> QED
    BY <2>3, <2>4, <2>5, <2>6, <2>7
<1> QED
  BY <1>1, <1>2, <1>3 DEF Worker

LEMMA CallerStep ==
  ASSUME IInv, TypeOK', NEW c \in Calls, Caller(c)
  PROVE  IInv'
<1> USE ThreadsAssumption DEF IInv, TypeOK, CallerGoes, Lock, Unlock, workerVars, ownerVars
<1>1. CASE CAcquire(c) \/ CNotify(c) \/ CGet(c)
  <2>1. UNCHANGED <<tasks, stop, hand, fut, ownerVars>>
    BY <1>1 DEF CAcquire, CNotify, CGet
  <2>2. \A w \in Workers : wpc'[w] = wpc[w] \/ (wpc[w] = "asleep" /\ wpc'[w] = "acquire")
    BY <1>1 DEF CAcquire, CNotify, CGet, NotifyOne, Asleep
  <2>3. LockInv'
    <3>1. \A w \in Workers : wpc'[w] \in {"test", "block"} <=> mtx' = w
      BY <1>1, <2>2 DEF LockInv, CAcquire, CNotify, CGet
    <3>2. (\A b \in Calls : cpc'[b] = "locked" <=> mtx' = b) /\ (spc' = "locked" <=> mtx' = Owner)
      BY <1>1 DEF LockInv, CAcquire, CNotify, CGet
    <3> QED
      BY <3>1, <3>2 DEF LockInv
  <2>4. WorkerInv'
    BY <2>1, <2>2 DEF WorkerInv
  <2>5. CallerInv'
    BY <1>1 DEF CallerInv, CAcquire, CNotify, CGet
  <2>6. OwnerInv' /\ NoSleeperAfterStop'
    BY <2>1, <2>2 DEF OwnerInv, NoSleeperAfterStop
  <2>7. EachTaskOnce'
    BY <2>1, TasksStayPut
  <2> QED
    BY <2>3, <2>4, <2>5, <2>6, <2>7
<1>2. CASE CThrow(c)
  <2> USE <1>2 DEF CThrow
  <2>1. LockInv' /\ WorkerInv' /\ OwnerInv' /\ NoSleeperAfterStop'
    BY DEF LockInv, WorkerInv, OwnerInv, NoSleeperAfterStop
  <2>2. CallerInv'
    BY DEF CallerInv
  <2>3. EachTaskOnce'
    BY DEF EachTaskOnce, CallerInv, InQueue, InHand
  <2> QED
    BY <2>1, <2>2, <2>3
<1>3. CASE CPush(c)
  <2> USE <1>3 DEF CPush
  <2>1. LockInv' /\ OwnerInv' /\ NoSleeperAfterStop'
    BY DEF LockInv, OwnerInv, NoSleeperAfterStop
  <2>2. WorkerInv'
    BY DEF WorkerInv, LockInv
  <2>3. CallerInv'
    BY DEF CallerInv
  <2>4. EachTaskOnce'
    <3>1. Len(tasks') = Len(tasks) + 1 /\ tasks'[Len(tasks) + 1] = c
      OBVIOUS
    <3>2. \A i \in 1..Len(tasks) : tasks'[i] = tasks[i] /\ i \in 1..Len(tasks')
      OBVIOUS
    <3>3. \A b \in Calls : InQueue(b)' <=> InQueue(b) \/ b = c
      BY <3>1, <3>2 DEF InQueue
    <3>4. \A b \in Calls : InHand(b)' <=> InHand(b)
      BY DEF InHand
    <3>5. ~InQueue(c) /\ ~InHand(c)
      BY DEF EachTaskOnce, CallerInv
    <3>6. \A b \in Calls : fut'[b] = "pending" <=> InQueue(b)' \/ InHand(b)'
      BY <3>3, <3>4 DEF EachTaskOnce
    <3>7. \A b \in Calls : ~(InQueue(b)' /\ InHand(b)')
      BY <3>3, <3>4, <3>5 DEF EachTaskOnce
    <3>8. \A i, j \in 1..Len(tasks') : tasks'[i] = tasks'[j] => i = j
      BY <3>1, <3>2, <3>5 DEF EachTaskOnce, InQueue
    <3> QED
      BY <3>6, <3>7, <3>8 DEF EachTaskOnce, InQueue, InHand
  <2> QED
    BY <2>1, <2>2, <2>3, <2>4
<1> QED
  BY <1>1, <1>2, <1>3 DEF Caller

LEMMA OwnerStep ==
  ASSUME IInv, TypeOK', SCall \/ ShutdownStep
  PROVE  IInv'
<1> USE ThreadsAssumption DEF IInv, TypeOK, OwnerGoes, Lock, Unlock, workerVars, callVars
<1>1. UNCHANGED <<tasks, hand, callVars>>
  BY DEF SCall, ShutdownStep, SAcquire, SStop, SNotify, SJoin, SReturn
<1>2. EachTaskOnce' /\ CallerInv'
  BY <1>1, TasksStayPut DEF CallerInv
<1>3. LockInv'
  <2>1. \A w \in Workers : wpc'[w] \in {"test", "block"} <=> mtx' = w
    BY DEF LockInv, SCall, ShutdownStep, SAcquire, SStop, SNotify, NotifyAll, Asleep, SJoin, SReturn
  <2>2. (\A c \in Calls : cpc'[c] = "locked" <=> mtx' = c) /\ (spc' = "locked" <=> mtx' = Owner)
    BY DEF LockInv, SCall, ShutdownStep, SAcquire, SStop, SNotify, SJoin, SReturn
  <2> QED
    BY <2>1, <2>2 DEF LockInv
<1>4. CASE SCall \/ SAcquire \/ (\E w \in Workers : SJoin(w)) \/ SReturn
  <2>1. WorkerInv' /\ NoSleeperAfterStop'
    BY <1>4, <1>1 DEF WorkerInv, NoSleeperAfterStop, SCall, SAcquire, SJoin, SReturn
  <2>2. OwnerInv'
    BY <1>4 DEF OwnerInv, SCall, SAcquire, SJoin, SReturn
  <2> QED
    BY <1>2, <1>3, <2>1, <2>2
<1>5. CASE SStop
  <2>1. WorkerInv' /\ NoSleeperAfterStop'
    BY <1>5, <1>1 DEF WorkerInv, NoSleeperAfterStop, LockInv, SStop
  <2>2. OwnerInv'
    BY <1>5 DEF OwnerInv, SStop
  <2> QED
    BY <1>2, <1>3, <2>1, <2>2
<1>6. CASE SNotify
  <2>1. WorkerInv'
    BY <1>6, <1>1 DEF WorkerInv, SNotify, NotifyAll, Asleep
  <2>2. OwnerInv'
    BY <1>6 DEF OwnerInv, SNotify, NotifyAll, Asleep
  <2>3. NoSleeperAfterStop'
    BY <1>6 DEF NoSleeperAfterStop, WorkerInv, OwnerInv, SNotify, NotifyAll, Asleep
  <2> QED
    BY <1>2, <1>3, <2>1, <2>2, <2>3
<1> QED
  BY <1>4, <1>5, <1>6 DEF ShutdownStep

LEMMA NextIInv == IInv /\ [Next]_vars => IInv'
<1> SUFFICES ASSUME IInv, [Next]_vars PROVE IInv'
  OBVIOUS
<1>1. TypeOK'
  BY TypeStep DEF IInv
<1>2. CASE UNCHANGED vars
  BY <1>2, <1>1 DEF vars, workerVars, callVars, ownerVars, IInv, LockInv, WorkerInv,
                    CallerInv, OwnerInv, EachTaskOnce, InQueue, InHand, NoSleeperAfterStop
<1> QED
  BY <1>1, <1>2, WorkerStep, CallerStep, OwnerStep DEF Next, Finished

-----------------------------------------------------------------------------
(* The theorems.                                                           *)

(* The strengthened invariant holds in every reachable state.              *)
THEOREM Invariance == SafeSpec => []IInv
BY InitIInv, NextIInv, PTL DEF SafeSpec

(* Every variable keeps its type, under any interleaving.                  *)
THEOREM Typing == SafeSpec => []TypeOK
<1>1. IInv => TypeOK
  BY DEF IInv
<1> QED
  BY <1>1, Invariance, PTL

(* No task is lost, duplicated or run twice, for any number of workers and *)
(* callers: a future is pending exactly while its task is in the queue or  *)
(* in one worker's hand.                                                   *)
THEOREM TaskOnce == SafeSpec => []EachTaskOnce
<1>1. IInv => EachTaskOnce
  BY DEF IInv
<1> QED
  BY <1>1, Invariance, PTL

(* After the notification of shutdown() no worker sleeps or is about to.   *)
THEOREM NobodyLeftAsleep == SafeSpec => []NoSleeperAfterStop
<1>1. IInv => NoSleeperAfterStop
  BY DEF IInv
<1> QED
  BY <1>1, Invariance, PTL

(* shutdown() of a pool that has a worker returns only when the queue is   *)
(* empty and every accepted task has its result.                           *)
THEOREM Drained == ASSUME Workers # {} PROVE SafeSpec => []ShutdownDrains
<1>1. IInv => ShutdownDrains
  <2> SUFFICES ASSUME IInv, spc = "returned"
               PROVE  /\ \A w \in Workers : wpc[w] = "exited"
                      /\ tasks = <<>>
                      /\ \A c \in Calls : fut[c] # "pending"
    BY DEF ShutdownDrains
  <2>1. \A w \in Workers : wpc[w] = "exited" /\ tasks = <<>>
    BY DEF IInv, OwnerInv, WorkerInv
  <2>2. \A c \in Calls : ~InQueue(c) /\ ~InHand(c)
    BY <2>1, ThreadsAssumption DEF IInv, WorkerInv, InQueue, InHand
  <2> QED
    BY <2>1, <2>2 DEF IInv, EachTaskOnce
<1> QED
  BY <1>1, Invariance, PTL

(* No lost wake-up in any pool that has a worker: beside a queued task that *)
(* no notification is on its way for, some worker is on its way.           *)
THEOREM WakeupKept == ASSUME Workers # {} PROVE SafeSpec => []NoLostWakeup
<1>1. Init => NoLostWakeup
  BY DEF Init, NoLostWakeup
<1>2. IInv /\ NoLostWakeup /\ [Next]_vars => NoLostWakeup'
  <2> SUFFICES ASSUME IInv, NoLostWakeup, [Next]_vars,
                      tasks' # <<>>, \A c \in Calls : cpc'[c] # "notify"
               PROVE  \E w \in Workers : wpc'[w] \in {"acquire", "test", "run"}
    BY DEF NoLostWakeup
  <2> DEFINE OnItsWay(p) == p \in {"acquire", "test", "run"}
  <2>1. CASE UNCHANGED vars
    BY <2>1 DEF NoLostWakeup, vars, workerVars, callVars
  <2>2. ASSUME NEW w \in Workers, Worker(w) PROVE \E v \in Workers : OnItsWay(wpc'[v])
    <3> USE <2>2 DEF IInv, TypeOK, WorkerGoes, callVars
    <3>1. CASE WAcquire(w) \/ WSpurious(w) \/ WTake(w) \/ WFinish(w)
      BY <3>1 DEF WAcquire, WSpurious, WTake, WFinish
    <3>2. CASE WTest(w) \/ WSleep(w) \/ WExit(w)
      <4>1. tasks = <<>>
        BY <3>2 DEF WTest, WSleep, WExit, WorkerMayExit, WorkerInv
      <4> QED
        BY <3>2, <4>1 DEF WTest, WSleep, WExit
    <3> QED
      BY <2>2, <3>1, <3>2 DEF Worker
  <2>3. ASSUME NEW c \in Calls, Caller(c) PROVE \E v \in Workers : OnItsWay(wpc'[v])
    <3> USE <2>3 DEF IInv, TypeOK, CallerGoes, workerVars
    <3>1. CASE CAcquire(c) \/ CThrow(c) \/ CGet(c)
      <4>1. \A b \in Calls : cpc[b] # "notify"
        BY <3>1 DEF CAcquire, CThrow, CGet
      <4> QED
        BY <3>1, <4>1 DEF NoLostWakeup, CAcquire, CThrow, CGet
    <3>2. CASE CPush(c)
      BY <3>2 DEF CPush
    <3>3. CASE CNotify(c)
      <4>1. CASE Asleep = {}
        <5>1. tasks # <<>> /\ wpc' = wpc
          BY <3>3, <4>1 DEF CNotify, NotifyOne
        <5>2. \A v \in Workers : wpc[v] \notin {"asleep", "block", "exited"}
          BY <4>1, <5>1 DEF Asleep, WorkerInv
        <5>3. \A v \in Workers : OnItsWay(wpc[v])
          BY <5>2 DEF WorkerPoints
        <5> QED
          BY <5>1, <5>3
      <4>2. CASE Asleep # {}
        BY <3>3, <4>2 DEF CNotify, NotifyOne, Asleep
      <4> QED
        BY <4>1, <4>2
    <3> QED
      BY <2>3, <3>1, <3>2, <3>3 DEF Caller
  <2>4. CASE SCall \/ ShutdownStep
    <3>1. UNCHANGED <<tasks, cpc>>
      BY <2>4 DEF SCall, ShutdownStep, SAcquire, SStop, SNotify, SJoin, SReturn, callVars
    <3>2. PICK w \in Workers : OnItsWay(wpc[w])
      BY <3>1 DEF NoLostWakeup
    <3>3. wpc'[w] = wpc[w]
      BY <2>4, <3>2 DEF SCall, ShutdownStep, SAcquire, SStop, SNotify, NotifyAll, Asleep,
                        SJoin, SReturn, workerVars
    <3> QED
      BY <3>2, <3>3
  <2> QED
    BY <2>1, <2>2, <2>3, <2>4 DEF Next, Finished
<1> QED
  BY <1>1, <1>2, Invariance, PTL DEF SafeSpec

(* The two sets that NoIdleWorkerBesideTask counts. The callers may be any *)
(* number; those about to notify are finitely many at any time.            *)
Coming == {w \in Workers : wpc[w] \in {"acquire", "test"}}
Notifying == {c \in Calls : cpc[c] = "notify"}

IdleInv == IsFiniteSet(Notifying) /\ NoIdleWorkerBesideTask

(* Adding to a finite set, or taking from it, changes its size by one.     *)
LEMMA OneMore ==
  ASSUME NEW S, IsFiniteSet(S), NEW x, x \notin S
  PROVE  /\ IsFiniteSet(S \cup {x}) /\ Cardinality(S) \in Nat
         /\ Cardinality(S \cup {x}) = Cardinality(S) + 1
BY FS_AddElement, FS_CardinalityType

LEMMA OneLess ==
  ASSUME NEW S, IsFiniteSet(S), NEW x \in S
  PROVE  /\ IsFiniteSet(S \ {x}) /\ Cardinality(S) \in Nat
         /\ Cardinality(S \ {x}) = Cardinality(S) - 1
BY FS_RemoveElement, FS_CardinalityType

(* Steps that move no task and no notification, and send nobody to sleep   *)
(* or away.                                                                *)
LEMMA NobodyLeaves ==
  ASSUME IsFiniteSet(Workers), IdleInv, TypeOK, UNCHANGED <<tasks, Notifying>>,
         Coming \subseteq Coming', Coming' \subseteq Workers, Asleep' # {} => Asleep # {}
  PROVE  IdleInv'
<1>1. IsFiniteSet(Coming') /\ Cardinality(Coming) <= Cardinality(Coming')
      /\ Cardinality(Coming) \in Nat /\ Cardinality(Coming') \in Nat
  BY FS_Subset, FS_CardinalityType
<1>2. Cardinality(Notifying) \in Nat /\ Len(tasks) \in Nat
  BY FS_CardinalityType DEF IdleInv, TypeOK
<1>3. Asleep # {} => Len(tasks) <= Cardinality(Coming) + Cardinality(Notifying)
  BY DEF IdleInv, NoIdleWorkerBesideTask, Coming, Notifying
<1>4. Asleep' # {} => Len(tasks') <= Cardinality(Coming') + Cardinality(Notifying')
  BY <1>1, <1>2, <1>3
<1> QED
  BY <1>4 DEF IdleInv, NoIdleWorkerBesideTask, Coming, Notifying

(* A worker goes to sleep, or leaves, only beside an empty queue; who takes *)
(* a task was on its way and takes one from the queue.                     *)
LEMMA IdleWorkerStep ==
  ASSUME IsFiniteSet(Workers), IInv, IdleInv, NEW w \in Workers, Worker(w)
  PROVE  IdleInv'
<1> USE DEF WorkerGoes, callVars
<1>1. TypeOK /\ wpc \in [Workers -> WorkerPoints] /\ IsFiniteSet(Notifying)
      /\ tasks \in Seq(Calls)
  BY DEF IInv, TypeOK, IdleInv
<1>2. Notifying' = Notifying
  BY DEF Worker, WAcquire, WTest, WSleep, WSpurious, WExit, WTake, WFinish, Notifying
<1>3. IsFiniteSet(Coming) /\ Coming' \subseteq Workers /\ IsFiniteSet(Coming')
  BY FS_Subset DEF Coming
<1>4. CASE WAcquire(w) \/ WSpurious(w) \/ WFinish(w)
  <2>1. Coming \subseteq Coming' /\ Asleep' \subseteq Asleep /\ UNCHANGED tasks
    BY <1>1, <1>4 DEF WAcquire, WSpurious, WFinish, Coming, Asleep
  <2> QED
    BY <1>1, <1>2, <1>3, <2>1, NobodyLeaves
<1>5. CASE WTest(w) \/ WSleep(w) \/ WExit(w)
  <2>1. tasks' = <<>>
    BY <1>5 DEF WTest, WSleep, WExit, WorkerMayExit, IInv, WorkerInv
  <2>2. Len(tasks') = 0
    BY <2>1
  <2>3. Cardinality(Coming') \in Nat /\ Cardinality(Notifying') \in Nat
    BY <1>1, <1>2, <1>3, FS_CardinalityType
  <2>4. Len(tasks') <= Cardinality(Coming') + Cardinality(Notifying')
    BY <2>2, <2>3
  <2> QED
    BY <1>1, <1>2, <2>4 DEF IdleInv, NoIdleWorkerBesideTask, Coming, Notifying
<1>6. CASE WTake(w)
  <2>1. w \in Coming /\ Coming' = Coming \ {w} /\ Asleep' = Asleep
    BY <1>1, <1>6 DEF WTake, Coming, Asleep
  <2>2. Len(tasks) \in Nat /\ Len(tasks') = Len(tasks) - 1
    BY <1>1, <1>6 DEF WTake
  <2>3. Cardinality(Coming) \in Nat /\ Cardinality(Coming') = Cardinality(Coming) - 1
    BY <1>3, <2>1, OneLess
  <2>4. Cardinality(Notifying) \in Nat
    BY <1>1, FS_CardinalityType
  <2>5. Asleep # {} => Len(tasks) <= Cardinality(Coming) + Cardinality(Notifying)
    BY DEF IdleInv, NoIdleWorkerBesideTask, Coming, Notifying
  <2>6. Asleep' # {} => Len(tasks') <= Cardinality(Coming') + Cardinality(Notifying')
    BY <1>2, <2>1, <2>2, <2>3, <2>4, <2>5
  <2> QED
    BY <1>1, <1>2, <2>6 DEF IdleInv, NoIdleWorkerBesideTask, Coming, Notifying
<1> QED
  BY <1>4, <1>5, <1>6 DEF Worker

(* A push brings a task and a notification; the notification becomes a     *)
(* worker on its way if any sleeps.                                        *)
LEMMA IdleCallerStep ==
  ASSUME IsFiniteSet(Workers), IInv, IdleInv, NEW c \in Calls, Caller(c)
  PROVE  IdleInv'
<1> USE DEF CallerGoes, workerVars
<1>1. TypeOK /\ wpc \in [Workers -> WorkerPoints] /\ cpc \in [Calls -> CallerPoints]
      /\ tasks \in Seq(Calls) /\ Len(tasks) \in Nat
  BY DEF IInv, TypeOK
<1>2. IsFiniteSet(Coming) /\ Cardinality(Coming) \in Nat
  BY FS_Subset, FS_CardinalityType DEF Coming
<1>3. IsFiniteSet(Notifying) /\ Cardinality(Notifying) \in Nat
  BY FS_CardinalityType DEF IdleInv
<1>4. Asleep # {} => Len(tasks) <= Cardinality(Coming) + Cardinality(Notifying)
  BY DEF IdleInv, NoIdleWorkerBesideTask, Coming, Notifying
<1>5. CASE CAcquire(c) \/ CThrow(c) \/ CGet(c)
  <2>1. UNCHANGED <<tasks, wpc, Notifying>>
    BY <1>1, <1>5 DEF CAcquire, CThrow, CGet, Notifying
  <2>2. Coming' = Coming /\ Coming \subseteq Workers /\ Asleep' = Asleep
    BY <2>1 DEF Coming, Asleep
  <2> QED
    BY <1>1, <2>1, <2>2, NobodyLeaves
<1>6. CASE CPush(c)
  <2>1. c \notin Notifying /\ Notifying' = Notifying \cup {c}
    BY <1>1, <1>6 DEF CPush, Notifying
  <2>2. Coming' = Coming /\ Asleep' = Asleep /\ Len(tasks') = Len(tasks) + 1
    BY <1>1, <1>6 DEF CPush, Coming, Asleep
  <2>3. IsFiniteSet(Notifying') /\ Cardinality(Notifying') = Cardinality(Notifying) + 1
    BY <1>3, <2>1, OneMore
  <2>4. Asleep' # {} => Len(tasks') <= Cardinality(Coming') + Cardinality(Notifying')
    BY <1>1, <1>2, <1>3, <1>4, <2>2, <2>3
  <2> QED
    BY <2>3, <2>4 DEF IdleInv, NoIdleWorkerBesideTask, Coming, Notifying
<1>7. CASE CNotify(c)
  <2>1. c \in Notifying /\ Notifying' = Notifying \ {c} /\ tasks' = tasks
    BY <1>1, <1>7 DEF CNotify, Notifying
  <2>2. IsFiniteSet(Notifying') /\ Cardinality(Notifying') = Cardinality(Notifying) - 1
    BY <1>3, <2>1, OneLess
  <2>3. CASE Asleep = {}
    <3>1. Asleep' = {}
      BY <1>7, <2>3 DEF CNotify, NotifyOne, Asleep
    <3> QED
      BY <2>2, <3>1 DEF IdleInv, NoIdleWorkerBesideTask, Notifying
  <2>4. CASE Asleep # {}
    <3>1. PICK v \in Asleep : wpc' = [wpc EXCEPT ![v] = "acquire"]
      BY <1>7, <2>4 DEF CNotify, NotifyOne
    <3>2. v \notin Coming /\ Coming' = Coming \cup {v}
      BY <1>1, <3>1 DEF Coming, Asleep
    <3>3. Cardinality(Coming') = Cardinality(Coming) + 1
      BY <1>2, <3>2, OneMore
    <3>4. Len(tasks') <= Cardinality(Coming') + Cardinality(Notifying')
      BY <1>1, <1>2, <1>3, <1>4, <2>1, <2>2, <2>4, <3>3
    <3> QED
      BY <2>2, <3>4 DEF IdleInv, NoIdleWorkerBesideTask, Coming, Notifying
  <2> QED
    BY <2>3, <2>4
<1> QED
  BY <1>5, <1>6, <1>7 DEF Caller

(* While a worker of a pool sleeps, the queued tasks are no more than the  *)
(* workers on their way to it and the notifications on their way to one:   *)
(* no task waits for a busy worker beside an idle one.                     *)
THEOREM NoIdleWorker ==
  ASSUME IsFiniteSet(Workers) PROVE SafeSpec => []NoIdleWorkerBesideTask
<1>1. Init => IdleInv
  <2> SUFFICES ASSUME Init PROVE IdleInv
    OBVIOUS
  <2>1. Notifying = {} /\ Asleep = {}
    BY DEF Init, Notifying, Asleep
  <2> QED
    BY <2>1, FS_EmptySet DEF IdleInv, NoIdleWorkerBesideTask
<1>2. IInv /\ IdleInv /\ [Next]_vars => IdleInv'
  <2> SUFFICES ASSUME IInv, IdleInv, [Next]_vars PROVE IdleInv'
    OBVIOUS
  <2>1. CASE SNotify
    <3>1. Asleep' = {} /\ Notifying' = Notifying
      BY <2>1 DEF SNotify, NotifyAll, Asleep, Notifying, callVars
    <3> QED
      BY <3>1 DEF IdleInv, NoIdleWorkerBesideTask
  <2>2. CASE SCall \/ SAcquire \/ SStop \/ (\E w \in Workers : SJoin(w)) \/ SReturn \/ UNCHANGED vars
    <3>1. UNCHANGED <<tasks, wpc, cpc>>
      BY <2>2 DEF SCall, SAcquire, SStop, SJoin, SReturn, vars, workerVars, callVars
    <3>2. /\ UNCHANGED <<tasks, Notifying>> /\ Coming' = Coming /\ Asleep' = Asleep
          /\ Coming \subseteq Workers
      BY <3>1 DEF Notifying, Coming, Asleep
    <3> QED
      BY <3>2, NobodyLeaves DEF IInv
  <2> QED
    BY <2>1, <2>2, IdleWorkerStep, IdleCallerStep DEF Next, ShutdownStep, Finished
<1>3. IdleInv => NoIdleWorkerBesideTask
  BY DEF IdleInv
<1> QED
  BY <1>1, <1>2, <1>3, Invariance, PTL DEF SafeSpec

(* The pool is a task queue as far as safety goes: every step of its       *)
(* threads is a step of TaskQueue or leaves the task queue as it is.       *)
THEOREM QueueRefinement == SafeSpec => TQ!SafeSpec
<1>1. Init => TQ!Init
  BY DEF Init, TQ!Init
<1>2. IInv /\ [Next]_vars => [TQ!Next]_(TQ!qvars)
  <2> SUFFICES ASSUME IInv, [Next]_vars PROVE TQ!Next \/ UNCHANGED TQ!qvars
    OBVIOUS
  <2> USE DEF IInv, TypeOK, TQ!qvars
  <2>1. CASE UNCHANGED vars
    BY <2>1 DEF vars, workerVars, callVars
  <2>2. ASSUME NEW w \in Workers, Worker(w) PROVE TQ!Next \/ UNCHANGED TQ!qvars
    <3> USE <2>2 DEF WorkerGoes, callVars
    <3>1. CASE WAcquire(w) \/ WTest(w) \/ WSleep(w) \/ WSpurious(w) \/ WExit(w)
      BY <3>1 DEF WAcquire, WTest, WSleep, WSpurious, WExit
    <3>2. CASE WTake(w)
      <4>1. TQ!Start(w)
        BY <3>2 DEF WTake, WorkerInv, TQ!Start
      <4> QED
        BY <4>1 DEF TQ!Next
    <3>3. CASE WFinish(w)
      <4>1. PICK answer \in Answers : fut' = [fut EXCEPT ![hand[w]] = answer]
        BY <3>3 DEF WFinish
      <4>2. TQ!Finish(w, answer) /\ answer \in TQ!Answers
        BY <3>3, <4>1 DEF WFinish, WorkerInv, Answers, TQ!Finish, TQ!Answers
      <4> QED
        BY <4>2 DEF TQ!Next
    <3> QED
      BY <2>2, <3>1, <3>2, <3>3 DEF Worker
  <2>3. ASSUME NEW c \in Calls, Caller(c) PROVE TQ!Next \/ UNCHANGED TQ!qvars
    <3> USE <2>3 DEF CallerGoes, workerVars
    <3>1. CASE CAcquire(c) \/ CNotify(c) \/ CGet(c)
      BY <3>1 DEF CAcquire, CNotify, CGet
    <3>2. CASE CThrow(c)
      <4>1. TQ!Refuse(c)
        BY <3>2 DEF CThrow, CallerInv, TQ!Refuse
      <4> QED
        BY <4>1 DEF TQ!Next
    <3>3. CASE CPush(c)
      <4>1. TQ!Accept(c)
        BY <3>3 DEF CPush, CallerInv, TQ!Accept
      <4> QED
        BY <4>1 DEF TQ!Next
    <3> QED
      BY <2>3, <3>1, <3>2, <3>3 DEF Caller
  <2>4. CASE SCall \/ ShutdownStep
    <3> USE DEF OwnerGoes, workerVars, callVars
    <3>1. CASE SStop /\ ~stop
      <4>1. TQ!Close
        BY <3>1 DEF SStop, TQ!Close
      <4> QED
        BY <4>1 DEF TQ!Next
    <3>2. CASE SStop /\ stop
      BY <3>2 DEF SStop
    <3>3. CASE SCall \/ SAcquire \/ SNotify \/ (\E w \in Workers : SJoin(w)) \/ SReturn
      BY <3>3 DEF SCall, SAcquire, SNotify, SJoin, SReturn
    <3> QED
      BY <2>4, <3>1, <3>2, <3>3 DEF ShutdownStep
  <2> QED
    BY <2>1, <2>2, <2>3, <2>4 DEF Next, Finished
<1> QED
  BY <1>1, <1>2, Invariance, PTL DEF SafeSpec, TQ!SafeSpec

=============================================================================
