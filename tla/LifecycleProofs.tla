--------------------------- MODULE LifecycleProofs ---------------------------
(***************************************************************************)
(* Proofs about Lifecycle, for any sets of handler threads and workers,    *)
(* with a pool and without, and any number of signals.                     *)
(*                                                                         *)
(* Where main() is decides which objects are alive and what the gRPC       *)
(* server may be doing (MainInv); the calls and the tasks of the pool      *)
(* belong together and are over once the gRPC server has stopped           *)
(* (CallInv); and as long as no signal was taken off the main thread or    *)
(* after Run(), only the main thread is in a signal handler, in a place    *)
(* where the objects are alive (SignalInv).                                *)
(***************************************************************************)
EXTENDS Lifecycle, TLAPS

MainPoints == Starting \cup {"waiting"} \cup Ending
HandlerPoints == {"none", "entered", "inside", "reporting"}

TypeOK ==
  /\ proc \in {"running", "failed", "crashed", "exited"}
  /\ main \in MainPoints
  /\ alive \in SUBSET {"server", "service"}
  /\ grpc \in {"none", "serving", "draining", "stopped"}
  /\ rpc \in [Handlers -> {"idle", "queued", "forwarded", "running"}]
  /\ Pool \subseteq Workers /\ task \in [Pool -> Handlers \cup {None}]
  /\ handler \in [Threads -> HandlerPoints]
  /\ taken \in Seq(Threads \X MainPoints)

\* What is alive, and what the gRPC server does, at each place of main().
MainInv ==
  /\ main \in {"constructing", "exiting"} => alive = {}
  /\ main \in {"building", "assigning", "joining"} => alive = {"service"}
  /\ main \in {"waiting", "returned"} => alive = {"server", "service"}
  /\ main \in {"constructing", "building"} => grpc = "none"
  /\ main \in Ending => grpc = "stopped"

\* A worker has the frame of a handler that waits for it, and of no other
\* worker's; a gRPC server that is not there or has stopped has no calls.
CallInv ==
  /\ \A w \in Pool : task[w] # None => rpc[task[w]] = "forwarded"
  /\ \A v, w \in Pool : task[v] = task[w] /\ task[v] # None => v = w
  /\ grpc \in {"none", "stopped"} => \A h \in Handlers : rpc[h] = "idle"

\* A signal was taken off the main thread, or after Run() had returned.
Race == \E n \in 1..Len(taken) : taken[n][1] # "main" \/ taken[n][2] \in Ending

SignalInv ==
  /\ \A t \in Threads : handler[t] # "none" => Race \/ (t = "main" /\ main \notin Ending)
  /\ \A t \in Threads : handler[t] \in {"inside", "reporting"} => main \notin Starting
  /\ proc = "crashed" => Race

IInv == TypeOK /\ MainInv /\ CallInv /\ SignalInv

-----------------------------------------------------------------------------
(* Initially main() begins, with no call and no signal.                    *)
LEMMA InitIInv == Init => IInv
<1> SUFFICES ASSUME Init PROVE IInv
  OBVIOUS
<1>1. PICK pool \in {{}, Workers} : task = [w \in pool |-> None]
  BY DEF Init
<1>2. Pool = pool
  BY <1>1 DEF Pool
<1>3. TypeOK
  BY <1>1, <1>2 DEF Init, TypeOK, MainPoints, HandlerPoints, Starting
<1>4. MainInv /\ CallInv /\ SignalInv
  BY <1>1, <1>2 DEF Init, MainInv, CallInv, SignalInv, Ending
<1> QED
  BY <1>3, <1>4 DEF IInv

\* A step of main().
MainStep == StartFails \/ BuildFails \/ Killed \/ Main

\* A step of a call, of its handler thread or of a worker.
CallMoves ==
  \/ \E h \in Handlers : CallBegins(h) \/ CallEnds(h)
  \/ \E w \in Workers : Take(w) \/ Finish(w)

(* Every action keeps the variables in their types.                        *)
LEMMA TypeStep == TypeOK /\ [Next]_vars => TypeOK'
<1> SUFFICES ASSUME TypeOK, [Next]_vars PROVE TypeOK'
  OBVIOUS
<1> USE DEF TypeOK, Pool, Free, Running
<1>1. CASE MainStep
  BY <1>1 DEF MainStep, StartFails, BuildFails, Killed, Main, Construct, BuildAndStart, AssignServer,
              WaitReturns, DestroyServer, DestroyService, Exit, MainGoes, Reads, MainPoints, Starting, Ending
<1>2. CASE Drained
  BY <1>2 DEF Drained
<1>3. ASSUME NEW h \in Handlers, CallBegins(h) \/ CallEnds(h) PROVE TypeOK'
  BY <1>3 DEF CallBegins, CallEnds
<1>4. ASSUME NEW w \in Workers, Take(w) \/ Finish(w) PROVE TypeOK'
  <2>1. /\ DOMAIN task' = DOMAIN task /\ task' \in [DOMAIN task -> Handlers \cup {None}]
        /\ rpc' \in [Handlers -> {"idle", "queued", "forwarded", "running"}]
    BY <1>4 DEF Take, Finish
  <2> QED
    BY <1>4, <2>1 DEF Take, Finish
<1>5. ASSUME NEW t \in Threads, Interrupt(t) PROVE TypeOK'
  <2>1. <<t, main>> \in Threads \X MainPoints
    OBVIOUS
  <2>2. taken' \in Seq(Threads \X MainPoints)
    BY <1>5, <2>1 DEF Interrupt
  <2> QED
    BY <1>5, <2>2 DEF Interrupt, HandlerPoints
<1>6. ASSUME NEW t \in Threads, OnSignal(t) PROVE TypeOK'
  BY <1>6 DEF OnSignal, ShutdownTooEarly, Shutdown, ShutdownTooLate, ShutdownReturns, Report, HandlerGoes, Reads,
              HandlerPoints
<1>7. CASE UNCHANGED vars
  BY <1>7 DEF vars
<1> QED
  BY <1>1, <1>2, <1>3, <1>4, <1>5, <1>6, <1>7 DEF Next, MainStep

(* The objects and the gRPC server follow main().                          *)
LEMMA MainInvStep == TypeOK /\ MainInv /\ [Next]_vars => MainInv'
<1> SUFFICES ASSUME TypeOK, MainInv, [Next]_vars PROVE MainInv'
  OBVIOUS
<1> USE DEF MainInv, Starting, Ending
<1>1. CASE MainStep
  BY <1>1 DEF MainStep, StartFails, BuildFails, Killed, Main, Construct, BuildAndStart, AssignServer,
              WaitReturns, DestroyServer, DestroyService, Exit, MainGoes
<1>2. CASE Drained
  BY <1>2 DEF Drained
<1>3. ASSUME NEW t \in Threads, OnSignal(t) PROVE MainInv'
  BY <1>3 DEF OnSignal, ShutdownTooEarly, Shutdown, ShutdownTooLate, ShutdownReturns, Report
<1>4. CASE UNCHANGED <<main, alive, grpc>>
  BY <1>4
<1> QED
  BY <1>1, <1>2, <1>3, <1>4
     DEF Next, MainStep, CallBegins, CallEnds, Take, Finish, Interrupt, vars

(* Calls and tasks stay together.                                          *)
LEMMA CallInvStep == TypeOK /\ MainInv /\ CallInv /\ [Next]_vars => CallInv'
<1> SUFFICES ASSUME TypeOK, MainInv, CallInv, [Next]_vars PROVE CallInv'
  OBVIOUS
<1> USE DEF CallInv, Pool, Free
<1>1. ASSUME NEW h \in Handlers, CallBegins(h) \/ CallEnds(h) PROVE CallInv'
  <2>1. UNCHANGED <<grpc, task>> /\ rpc[h] # "forwarded"
    BY <1>1 DEF CallBegins, CallEnds
  <2>2. \A x \in Handlers : x # h => rpc'[x] = rpc[x]
    BY <1>1 DEF CallBegins, CallEnds, TypeOK
  <2>3. CallEnds(h) => rpc'[h] = "idle"
    BY DEF CallEnds, TypeOK
  <2>4. CallBegins(h) => grpc = "serving"
    BY DEF CallBegins
  <2> QED
    BY <1>1, <2>1, <2>2, <2>3, <2>4, LifecycleAssumption DEF TypeOK
<1>2. ASSUME NEW w \in Workers, Take(w) PROVE CallInv'
  <2>1. PICK h \in Handlers : /\ rpc[h] = "queued" /\ rpc' = [rpc EXCEPT ![h] = "forwarded"]
                              /\ task' = [task EXCEPT ![w] = h]
    BY <1>2 DEF Take
  <2>2. w \in Pool /\ UNCHANGED grpc
    BY <1>2 DEF Take
  <2>3. \A v \in Pool : v # w => task'[v] = task[v] /\ task[v] # h
    <3> SUFFICES ASSUME NEW v \in Pool, v # w PROVE task'[v] = task[v] /\ task[v] # h
      OBVIOUS
    <3>1. task'[v] = task[v]
      BY <2>1 DEF TypeOK
    <3>2. task[v] = h => rpc[h] = "forwarded"
      BY LifecycleAssumption
    <3> QED
      BY <3>1, <3>2, <2>1
  <2>4. task'[w] = h /\ rpc'[h] = "forwarded" /\ \A x \in Handlers : x # h => rpc'[x] = rpc[x]
    BY <2>1, <2>2 DEF TypeOK
  <2>5. DOMAIN task' = DOMAIN task
    BY <2>1
  <2>6. grpc \notin {"none", "stopped"}
    BY <2>1
  <2> QED
    BY <2>2, <2>3, <2>4, <2>5, <2>6 DEF TypeOK
<1>3. ASSUME NEW w \in Workers, Finish(w) PROVE CallInv'
  <2>1. PICK h \in Handlers : h = task[w]
    BY <1>3 DEF Finish, TypeOK
  <2>2. /\ w \in Pool /\ UNCHANGED grpc /\ rpc[h] = "forwarded"
        /\ rpc' = [rpc EXCEPT ![h] = "running"] /\ task' = [task EXCEPT ![w] = None]
    BY <1>3, <2>1 DEF Finish
  <2>3. \A v \in Pool : v # w => task'[v] = task[v] /\ task[v] # h
    BY <2>1, <2>2, LifecycleAssumption DEF TypeOK
  <2>4. task'[w] = None /\ \A x \in Handlers : x # h => rpc'[x] = rpc[x]
    BY <2>2 DEF TypeOK
  <2>5. DOMAIN task' = DOMAIN task
    BY <2>2
  <2>6. grpc \notin {"none", "stopped"}
    BY <2>2
  <2> QED
    BY <2>2, <2>3, <2>4, <2>5, <2>6 DEF TypeOK
<1>4. CASE Drained
  BY <1>4 DEF Drained
<1>5. CASE UNCHANGED <<rpc, task>> /\ (grpc' \in {"none", "stopped"} => grpc \in {"none", "stopped"})
  BY <1>5
<1>6. CASE MainStep
  BY <1>5, <1>6 DEF MainStep, StartFails, BuildFails, Killed, Main, Construct, BuildAndStart, AssignServer,
                    WaitReturns, DestroyServer, DestroyService, Exit
<1>7. ASSUME NEW t \in Threads, Interrupt(t) \/ OnSignal(t) PROVE CallInv'
  BY <1>5, <1>7 DEF Interrupt, OnSignal, ShutdownTooEarly, Shutdown, ShutdownTooLate, ShutdownReturns, Report
<1>8. CASE UNCHANGED vars
  BY <1>5, <1>8 DEF vars
<1> QED
  BY <1>1, <1>2, <1>3, <1>4, <1>6, <1>7, <1>8 DEF Next, MainStep

(* What was taken stays taken.                                             *)
LEMMA RaceStays == TypeOK /\ [Next]_vars /\ Race => Race'
<1> SUFFICES ASSUME TypeOK, [Next]_vars, Race PROVE Race'
  OBVIOUS
<1>1. CASE UNCHANGED taken
  BY <1>1 DEF Race
<1>2. ASSUME NEW t \in Threads, Interrupt(t) PROVE Race'
  <2>1. PICK n \in 1..Len(taken) : taken[n][1] # "main" \/ taken[n][2] \in Ending
    BY DEF Race
  <2>2. taken' = Append(taken, <<t, main>>) /\ taken \in Seq(Threads \X MainPoints)
    BY <1>2 DEF Interrupt, TypeOK
  <2>3. n \in 1..Len(taken') /\ taken'[n] = taken[n]
    BY <2>2
  <2> QED
    BY <2>1, <2>3 DEF Race
<1> QED
  BY <1>1, <1>2
     DEF Next, StartFails, BuildFails, Killed, Main, Construct, BuildAndStart, AssignServer, WaitReturns,
         DestroyServer, DestroyService, Exit, Drained, CallBegins, CallEnds, Take, Finish, OnSignal,
         ShutdownTooEarly, Shutdown, ShutdownTooLate, ShutdownReturns, Report, vars

(* Signal handlers on the main thread find their objects, until Run() has  *)
(* returned.                                                               *)
LEMMA SignalInvStep == TypeOK /\ MainInv /\ SignalInv /\ [Next]_vars => SignalInv'
<1> SUFFICES ASSUME TypeOK, MainInv, SignalInv, [Next]_vars PROVE SignalInv'
  OBVIOUS
<1>1. Race => Race'
  BY RaceStays
<1> USE <1>1 DEF SignalInv, Running, Free
<1>2. CASE MainStep
  <2>1. UNCHANGED handler /\ proc = "running" /\ (proc' = "crashed" => "server" \notin alive /\ main = "waiting")
    BY <1>2 DEF MainStep, StartFails, BuildFails, Killed, Main, Construct, BuildAndStart, AssignServer,
                WaitReturns, DestroyServer, DestroyService, Exit, MainGoes, Reads
  <2>2. \/ UNCHANGED main
        \/ /\ handler["main"] = "none"
           /\ main \notin Starting => main' \notin Starting
    BY <1>2 DEF MainStep, StartFails, BuildFails, Killed, Main, Construct, BuildAndStart, AssignServer,
                WaitReturns, DestroyServer, DestroyService, Exit, MainGoes, Starting
  <2>3. proc' # "crashed"
    BY <2>1 DEF MainInv
  <2> QED
    BY <2>1, <2>2, <2>3
<1>3. ASSUME NEW t \in Threads, Interrupt(t) PROVE SignalInv'
  <2>1. /\ taken' = Append(taken, <<t, main>>) /\ taken \in Seq(Threads \X MainPoints)
        /\ handler' = [handler EXCEPT ![t] = "entered"] /\ UNCHANGED <<main, proc>>
    BY <1>3 DEF Interrupt, TypeOK
  <2>2. PICK n \in 1..Len(taken') : taken'[n] = <<t, main>>
    BY <2>1
  <2>3. t # "main" \/ main \in Ending => Race'
    BY <2>2 DEF Race
  <2> QED
    BY <2>1, <2>3 DEF TypeOK
<1>4. ASSUME NEW t \in Threads, OnSignal(t) PROVE SignalInv'
  <2>1. UNCHANGED <<main, taken>> /\ proc = "running"
    BY <1>4 DEF OnSignal, ShutdownTooEarly, Shutdown, ShutdownTooLate, ShutdownReturns, Report, HandlerGoes
  <2>2. /\ handler[t] # "none"
        /\ \A x \in Threads : x # t => handler'[x] = handler[x]
        /\ handler'[t] \in {"inside", "reporting"} => main \notin Starting
    BY <1>4 DEF OnSignal, ShutdownTooEarly, Shutdown, ShutdownTooLate, ShutdownReturns, Report, HandlerGoes,
                TypeOK
  <2>3. proc' = "crashed" => Race
    <3>1. CASE ShutdownTooEarly(t) \/ Shutdown(t)
      BY <2>1, <3>1 DEF ShutdownTooEarly, Shutdown
    <3>2. CASE ShutdownTooLate(t) \/ ShutdownReturns(t) \/ Report(t)
      <4>1. main \notin Starting /\ (proc' = "crashed" => alive # {"server", "service"})
        BY <3>2 DEF ShutdownTooLate, ShutdownReturns, Report, HandlerGoes, Reads
      <4>2. proc' = "crashed" => main \in Ending
        BY <4>1 DEF MainInv, TypeOK, MainPoints
      <4> QED
        BY <2>2, <4>2
    <3> QED
      BY <1>4, <3>1, <3>2 DEF OnSignal
  <2> QED
    BY <2>1, <2>2, <2>3 DEF Race
<1>5. CASE UNCHANGED <<proc, main, handler, taken>>
  BY <1>5
<1> QED
  BY <1>2, <1>3, <1>4, <1>5 DEF Next, MainStep, Drained, CallBegins, CallEnds, Take, Finish, vars

-----------------------------------------------------------------------------
(* The inductive invariant holds in every reachable state.                 *)
THEOREM Invariance == Spec => []IInv
<1>1. IInv /\ [Next]_vars => IInv'
  BY TypeStep, MainInvStep, CallInvStep, SignalInvStep DEF IInv
<1> QED
  BY InitIInv, <1>1, PTL DEF Spec

(* While a call is in progress its service, with the pool, is there and    *)
(* Run() has not returned, through every order of signals and destruction. *)
THEOREM ServiceOutlivesCalls == Spec => []CallsEndFirst
<1>1. IInv => CallsEndFirst
  BY DEF IInv, TypeOK, MainPoints, MainInv, CallInv, CallsEndFirst, Starting, Ending
<1> QED
  BY <1>1, Invariance, PTL

(* The process reads a destroyed object only after a signal that was taken *)
(* off the main thread, or after Run() had returned.                       *)
THEOREM CrashNeedsRace == Spec => []CrashTakesRace
<1>1. IInv => CrashTakesRace
  BY DEF IInv, SignalInv, CrashTakesRace, Race
<1> QED
  BY <1>1, Invariance, PTL

=============================================================================
