------------------------------ MODULE Lifecycle ------------------------------
(***************************************************************************)
(* The process around a server: main() of module1_inference and of         *)
(* module2_middleware, with Run(), Shutdown() and the order of             *)
(* destruction. The two programs differ in the pool: the inference server  *)
(* has none, and its Shutdown() reports no total.                          *)
(*                                                                         *)
(* A signal is taken by any thread that is not in a handler already; the   *)
(* handler runs on top of what the thread was doing, which stands still    *)
(* until the handler returns. That the other of the two signals may        *)
(* interrupt a handler as well is left out. What a thread reads in an      *)
(* object that is destroyed is undefined: it goes on, or the process ends. *)
(***************************************************************************)
EXTENDS Naturals, Sequences

CONSTANTS
  Handlers,      \* threads of gRPC that run the handlers of calls
  Workers,       \* threads of pool_ in the middleware
  Others,        \* threads of libraries that neither calls nor Shutdown() need
  MaxSignals,    \* bound: signals sent to the process
  None           \* a worker without a task

ASSUME LifecycleAssumption ==
  /\ "main" \notin Handlers \cup Workers \cup Others /\ None \notin Handlers
  /\ MaxSignals \in Nat

VARIABLES
  proc,     \* the process
  main,     \* where main() is
  alive,    \* the objects main() owns: "server" is server_, "service" service_
  grpc,     \* what the gRPC server does
  rpc,      \* rpc[h]: the call that handler thread h is on
  task,     \* task[w]: the handler thread whose frame worker w forwards
  handler,  \* handler[t]: the signal handler on thread t
  taken     \* history: <<thread, where main was>> for each signal taken

vars == <<proc, main, alive, grpc, rpc, task, handler, taken>>

\* The workers there are: none in the inference server.
Pool == DOMAIN task

Threads == {"main"} \cup Handlers \cup Workers \cup Others
Starting == {"constructing", "building", "assigning"}
Ending == {"returned", "joining", "exiting"}
Running == proc = "running"

Init ==
  /\ proc = "running"
  /\ main = "constructing"
  /\ alive = {}
  /\ grpc = "none"
  /\ rpc = [h \in Handlers |-> "idle"]
  /\ \E pool \in {{}, Workers} : task = [w \in pool |-> None]
  /\ handler = [t \in Threads |-> "none"]
  /\ taken = <<>>

\* A step of main(), of a thread, of an object: they stand still under a handler.
MainGoes(from, to) ==
  /\ Running /\ handler["main"] = "none"
  /\ main = from /\ main' = to

Reads(object) == proc' \in IF object \in alive THEN {proc} ELSE {proc, "crashed"}

-----------------------------------------------------------------------------
(* main() and Run().                                                       *)

(* The model does not load, or an argument is no number.                   *)
StartFails ==
  /\ MainGoes("constructing", "constructing")
  /\ proc' = "failed"
  /\ UNCHANGED <<alive, grpc, rpc, task, handler, taken>>

(* The server and its service, g_server, and the two signal handlers.      *)
Construct ==
  /\ MainGoes("constructing", "building")
  /\ alive' = {"service"}
  /\ UNCHANGED <<proc, grpc, rpc, task, handler, taken>>

(* BuildAndStart() returns no server: Run() throws, and nobody catches.    *)
BuildFails ==
  /\ MainGoes("building", "building")
  /\ proc' = "failed"
  /\ UNCHANGED <<alive, grpc, rpc, task, handler, taken>>

(* BuildAndStart() serves calls already before server_ is assigned.        *)
BuildAndStart ==
  /\ MainGoes("building", "assigning")
  /\ grpc' = "serving"
  /\ UNCHANGED <<proc, alive, rpc, task, handler, taken>>

AssignServer ==
  /\ MainGoes("assigning", "waiting")
  /\ alive' = alive \cup {"server"}
  /\ UNCHANGED <<proc, grpc, rpc, task, handler, taken>>

\* Fault: Run() returns as soon as somebody has asked for it.
WaitReturnsAtOnce ==
  /\ MainGoes("waiting", "returned")
  /\ grpc \in {"draining", "stopped"}
  /\ Reads("server")
  /\ UNCHANGED <<alive, grpc, rpc, task, handler, taken>>

(* server_->Wait() returns, and Run() with it.                             *)
WaitReturns ==
  /\ MainGoes("waiting", "returned")
  /\ grpc = "stopped"
  /\ Reads("server")
  /\ UNCHANGED <<alive, grpc, rpc, task, handler, taken>>

(* The destructor of the server: server_ first, being declared last ...    *)
DestroyServer ==
  /\ MainGoes("returned", "joining")
  /\ alive' = alive \ {"server"}
  /\ UNCHANGED <<proc, grpc, rpc, task, handler, taken>>

(* ... then service_, whose pool_ joins its workers before it is gone.     *)
DestroyService ==
  /\ MainGoes("joining", "exiting")
  /\ \A w \in Pool : task[w] = None /\ handler[w] = "none"
  /\ alive' = {}
  /\ UNCHANGED <<proc, grpc, rpc, task, handler, taken>>

Exit ==
  /\ MainGoes("exiting", "exiting")
  /\ proc' = "exited"
  /\ UNCHANGED <<alive, grpc, rpc, task, handler, taken>>

Main ==
  \/ Construct \/ BuildAndStart \/ AssignServer \/ WaitReturns \/ DestroyServer \/ DestroyService \/ Exit

-----------------------------------------------------------------------------
(* Calls, on the threads that are not interrupted.                         *)

Free(t) == Running /\ handler[t] = "none"

CallBegins(h) ==
  /\ Free(h) /\ grpc = "serving" /\ rpc[h] = "idle"
  /\ rpc' = [rpc EXCEPT ![h] = IF Pool = {} THEN "running" ELSE "queued"]
  /\ UNCHANGED <<proc, main, alive, grpc, task, handler, taken>>

\* Fault: the pool stops with the server.
TakeWhileServing(w) ==
  /\ w \in Pool /\ Free(w) /\ grpc = "serving" /\ task[w] = None
  /\ \E h \in Handlers :
       /\ rpc[h] = "queued"
       /\ rpc' = [rpc EXCEPT ![h] = "forwarded"]
       /\ task' = [task EXCEPT ![w] = h]
  /\ UNCHANGED <<proc, main, alive, grpc, handler, taken>>

Take(w) ==
  /\ w \in Pool /\ Free(w) /\ task[w] = None
  /\ \E h \in Handlers :
       /\ rpc[h] = "queued"
       /\ rpc' = [rpc EXCEPT ![h] = "forwarded"]
       /\ task' = [task EXCEPT ![w] = h]
  /\ UNCHANGED <<proc, main, alive, grpc, handler, taken>>

Finish(w) ==
  /\ w \in Pool /\ Free(w) /\ task[w] # None
  /\ rpc' = [rpc EXCEPT ![task[w]] = "running"]
  /\ task' = [task EXCEPT ![w] = None]
  /\ UNCHANGED <<proc, main, alive, grpc, handler, taken>>

CallEnds(h) ==
  /\ Free(h) /\ rpc[h] = "running"
  /\ rpc' = [rpc EXCEPT ![h] = "idle"]
  /\ UNCHANGED <<proc, main, alive, grpc, task, handler, taken>>

(* Server::Shutdown() has what it waits for: every call is over, and the   *)
(* threads of gRPC, on a call or idle, have ended.                         *)
Drained ==
  /\ Running /\ grpc = "draining"
  /\ \A h \in Handlers : rpc[h] = "idle" /\ handler[h] = "none"
  /\ grpc' = "stopped"
  /\ UNCHANGED <<proc, main, alive, rpc, task, handler, taken>>

-----------------------------------------------------------------------------
(* Signals.                                                                *)

(* Before std::signal() a signal ends the process.                         *)
Killed ==
  /\ Running /\ main = "constructing"
  /\ proc' = "failed"
  /\ UNCHANGED <<main, alive, grpc, rpc, task, handler, taken>>

(* The threads there are: those of gRPC until its server has stopped,      *)
(* those of pool_ with service_.                                           *)
Exists(t) ==
  \/ t = "main"
  \/ t \in Handlers /\ grpc \in {"serving", "draining"}
  \/ t \in Pool /\ "service" \in alive
  \/ t \in Others

Interrupt(t) ==
  /\ Free(t) /\ Exists(t)
  /\ main # "constructing"
  /\ Len(taken) < MaxSignals
  /\ handler' = [handler EXCEPT ![t] = "entered"]
  /\ taken' = Append(taken, <<t, main>>)
  /\ UNCHANGED <<proc, main, alive, grpc, rpc, task>>

HandlerGoes(t, from, to) ==
  /\ Running
  /\ handler[t] = from
  /\ handler' = [handler EXCEPT ![t] = to]

(* on_signal() finds g_server, which is never reset, but no server_ in it. *)
ShutdownTooEarly(t) ==
  /\ main \in Starting
  /\ HandlerGoes(t, "entered", "none")
  /\ UNCHANGED <<proc, main, alive, grpc, rpc, task, taken>>

(* ... or finds server_ and calls server_->Shutdown().                     *)
Shutdown(t) ==
  /\ main \notin Starting
  /\ "server" \in alive
  /\ HandlerGoes(t, "entered", "inside")
  /\ grpc' = IF grpc = "serving" THEN "draining" ELSE grpc
  /\ UNCHANGED <<proc, main, alive, rpc, task, taken>>

(* ... or reads what is left of it.                                        *)
ShutdownTooLate(t) ==
  /\ main \notin Starting
  /\ "server" \notin alive
  /\ HandlerGoes(t, "entered", "none")
  /\ Reads("server")
  /\ UNCHANGED <<main, alive, grpc, rpc, task, taken>>

\* Fault: Shutdown() frees the server when it has stopped.
ShutdownFrees(t) ==
  /\ grpc = "stopped"
  /\ HandlerGoes(t, "inside", IF Pool # {} THEN "reporting" ELSE "none")
  /\ Reads("server")
  /\ alive' = alive \ {"server"}
  /\ UNCHANGED <<main, grpc, rpc, task, taken>>

(* server_->Shutdown() comes back, through the server's own lock.          *)
ShutdownReturns(t) ==
  /\ grpc = "stopped"
  /\ HandlerGoes(t, "inside", IF Pool # {} THEN "reporting" ELSE "none")
  /\ Reads("server")
  /\ UNCHANGED <<main, alive, grpc, rpc, task, taken>>

(* service_->total_forwarded(), in the middleware.                         *)
Report(t) ==
  /\ HandlerGoes(t, "reporting", "none")
  /\ Reads("service")
  /\ UNCHANGED <<main, alive, grpc, rpc, task, taken>>

OnSignal(t) ==
  \/ ShutdownTooEarly(t) \/ Shutdown(t) \/ ShutdownTooLate(t)
  \/ ShutdownReturns(t) \/ Report(t)

-----------------------------------------------------------------------------
Next ==
  \/ StartFails \/ BuildFails \/ Killed
  \/ Main \/ Drained
  \/ \E h \in Handlers : CallBegins(h) \/ CallEnds(h)
  \/ \E w \in Workers : Take(w) \/ Finish(w)
  \/ \E t \in Threads : Interrupt(t) \/ OnSignal(t)

(* Threads are scheduled; calls end when their threads run, which takes a  *)
(* robot that closes its stream or has a deadline. Signals, new calls and  *)
(* failures need not come.                                                 *)
Fairness ==
  /\ WF_vars(Main) /\ WF_vars(Drained)
  /\ \A h \in Handlers : WF_vars(CallEnds(h))
  /\ \A w \in Workers : WF_vars(Finish(w))
  /\ WF_vars(\E w \in Workers : Take(w))
  /\ \A t \in Threads : WF_vars(OnSignal(t))

Spec == Init /\ [][Next]_vars /\ Fairness

-----------------------------------------------------------------------------
(* Properties.                                                             *)

\* A thread that Shutdown() waits for is itself in Shutdown(): one of gRPC's
\* threads, idle or on a call; the worker of a call; every worker, with a call
\* in the queue of the pool.
WaitsForItself ==
  LET Inside(t) == handler[t] = "inside"
  IN  \/ \E h \in Handlers : Inside(h)
      \/ \E w \in Pool : task[w] # None /\ Inside(w)
      \/ \E h \in Handlers : rpc[h] = "queued" /\ \A w \in Pool : Inside(w)

(* A signal that finds server_ ends the process, however often signals     *)
(* come, with calls in progress and tasks queued, as long as it is taken   *)
(* by a thread that Shutdown() does not wait for: main, a worker that no   *)
(* call is left to, a library's own. Any other waits for itself.           *)
SignalEnds ==
  (\E t \in Threads : handler[t] = "inside") ~> ~Running \/ WaitsForItself

(* While a call is in progress its service, with the pool, is there and    *)
(* Run() has not returned, through every order of signals and destruction. *)
CallsEndFirst ==
  (\E h \in Handlers : rpc[h] # "idle") => "service" \in alive /\ main \notin Ending

(* The process never reads a destroyed object, unless a signal was taken   *)
(* off the main thread, beside which main() goes on to destroy the server, *)
(* or after Run() had returned. The signal that Linux gives to the waiting *)
(* main thread ends the process without undefined behaviour.               *)
CrashTakesRace ==
  proc = "crashed" =>
    \E n \in 1..Len(taken) : taken[n][1] # "main" \/ taken[n][2] \in Ending

(* inference_server.hpp:51, "safe to call from a signal handler": a call   *)
(* of Shutdown() from the signal handler comes to an end.                  *)
ShutdownComesBack ==
  \A t \in Threads : handler[t] = "inside" ~> handler[t] # "inside" \/ ~Running
=============================================================================
