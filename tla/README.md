# Verification of the Off-Board AI Perception Engine

TLA+ models, TLC runs and TLAPS proofs for the perception engine of this repository: robots send camera
frames through a C++ middleware to a C++ inference server and steer by the detections that come back. The
models are translated from the code under `src/`; `PROJECT.json` maps every definition to its lines.

## 1. Inventory

```
 robot_node (x3) --Detect/DetectStream--> middleware handlers --tasks--> thread pool --Detect--> inference server
      |  ROS topic robot_i/detections                                                        |  ModelRunner
      +--> obstacle_avoider --cmd_vel--> Gazebo                                              +  (ONNX, NMS, depth)
      +--> fleet_manager
```

| Component | Code | State | Operations | Hard behaviour |
|---|---|---|---|---|
| Thread pool | `module2_middleware/include/thread_pool.hpp`, `src/thread_pool.cpp` | `mtx_`, `cv_`, `tasks_`, `stop_`, `workers_`, the futures | constructor, worker loop, `enqueue`, `shutdown`, destructor | notification after unlock, shutdown against waiting workers and pushing callers, double shutdown, zero workers |
| Middleware service | `module2_middleware/src/middleware_server.cpp:15-79` | `pool_`, `stub_`, `total_forwarded_`, one handler per call | `Detect`, `DetectStream`, `forward` | request captured by pointer, order of replies, deadlines, clients that leave, frames that fail |
| Middleware server | `middleware_server.cpp:84-112`, `src/main.cpp` | `server_`, `service_`, `g_server` | `Run`, `Shutdown`, signal handler, teardown | handlers in flight at shutdown, order of destruction, idle streams, a signal before `BuildAndStart` |
| Inference server | `module1_inference/src/inference_server.cpp`, `src/main.cpp` | `runner_`, `total_inferences_`, `server_` | `Detect`, `DetectStream`, `process`, `Run`, `Shutdown` | concurrent handlers, exceptions in streams, work for callers that gave up |
| Model runner | `module1_inference/src/model_runner.cpp` | none that changes | `preprocess`, `postprocess`, `nms`, `backproject`, `run` | greedy suppression, boundaries of the resize and of the depth lookup, their agreement |
| Robot node | `module3_ros2/module3_ros2/robot_node.py`, `grpc_client.py` | latest rgb and depth, intrinsics, `_last_sent` | image callbacks, `_inference_tick`, `_publish_detections` | a tick that blocks the executor up to 5 s, unpaired frames, rate limit and failures |
| Obstacle avoider | `obstacle_avoider.py` | `_latest_dets`, `_stopped_since`, `_in_recovery` | `_detections_callback`, `_control_loop` | detections that never expire, recovery timer |
| Fleet manager | `fleet_manager.py` | latencies, detection and frame counts | `_callback`, `_print_summary` | none: one thread, append-only |
| Launch, start and stop scripts | `launch/simulation.launch.py`, `start.sh`, `stop.sh` | processes, ports | spawn at fixed times, wait for ports, kill | timing instead of readiness |
| Tests, generated stubs, build outputs, world files | `*/tests`, `*_pb2*.py`, `build/`, `install/`, `log/`, `worlds/` | - | - | generated, third-party or data |

How they interact: robots call the middleware through gRPC (one synchronous unary call at a time per robot;
the service also offers streams); a handler enqueues one task per frame and blocks on its future; a worker of
the pool makes one unary call to the inference server per task, with a 5 s deadline; the answer travels back
through the future. Inside a robot the nodes share ROS topics.

What makes each part correct:

* *Thread pool*: no task lost, doubled or run twice; no wake-up lost; shutdown drains the queue and returns; a
  caller whose task was accepted is always answered; first in, first out.
* *Middleware*: a task never outlives the request it points to; each robot gets the answers to its own frames in
  order; every successful forwarding reaches a robot that stayed; the pool outlives the handlers; one robot does
  not hold up another while there are enough workers; handlers end and shutdown gets through.
* *Inference server*: every call served in order and counted, every handler ends.
* *Model runner*: what NMS keeps does not overlap, and everything dropped overlaps something better that is kept;
  every index into an image is inside it.
* *Robot node and avoider*: commands follow the detections of the newest frame; a robot in front of an obstacle
  escapes; the rate limit holds also when calls fail.
* *Server processes*: calls end before what they use is destroyed; a signal ends the process, and never through
  memory that is gone, when it is taken by a thread that `Shutdown()` does not wait for.
* *Deadlines together*: no frame waits for a worker, what robots give up does not pile up in the middleware, a robot
  gives up only on a slow inference server.

## 2. Plan

1. `TaskQueue`, `ThreadPool`, `ThreadPoolProofs`: done.
2. `GrpcCalls`, `InferenceService`, `InferenceServer`, `Middleware`, with `InferenceServerProofs` and `MiddlewareProofs`: done.
3. `ModelRunner`, `ModelRunnerProofs`: done, with the resampling of `preprocess()`.
4. `RobotNode`, `ObstacleAvoider` and `Navigation`, their composition in discrete time, with `AvoiderProofs` and
   `NavigationProofs`: done.
5. `Lifecycle`: `main()`, signals, `Run`, `Shutdown` and the destructors of both servers at the grain of their
   pointers (`g_server`, `server_`, `service_`), with `LifecycleProofs`: done.
6. `Deadlines`, `DeadlinesProofs`: the robots' deadline, the pool and the upstream deadline in discrete time: done.
7. Proofs: every invariant and action property of the passing runs has its theorem. Next: results no run states yet, such
   as the freedom from deadlock as a state predicate over the guards (without ENABLED), for the pool and for `Shutdown()`.

## 3. Modules

| Module | Models | Uses |
|---|---|---|
| `TaskQueue` | what callers of `ThreadPool` rely on: a queue in front of one slot per worker, one result per task | |
| `ThreadPool` | the pool at the grain of its mutex and condition variable | `TaskQueue` (refinement) |
| `ThreadPoolProofs` | proofs about `ThreadPool` | `ThreadPool`, FiniteSetTheorems, TLAPS |
| `GrpcCalls` | the client side of a call and what gRPC shows of it to a synchronous server (external) | |
| `InferenceService` | what either server promises on one call of `proto/inference.proto` | |
| `InferenceServer` | `InferenceServiceImpl` and `InferenceServer` | `GrpcCalls`, `InferenceService` (refinement) |
| `Middleware` | `MiddlewareServiceImpl` and `MiddlewareServer` with pool and upstream | `GrpcCalls`, `TaskQueue`, `InferenceServer`, `InferenceService` (refinement) |
| `InferenceServerProofs`, `MiddlewareProofs` | proofs about the two | the module, FiniteSetTheorems, TLAPS |
| `ModelRunner` | one `run()`: resampling, and after the network has answered filter, scaling, NMS, depth lookup | |
| `ModelRunnerProofs` | proofs about `ModelRunner` | `ModelRunner`, FiniteSetTheorems, TLAPS |
| `RobotNode` | camera callbacks, inference tick and blocking call of one robot, in discrete time | |
| `ObstacleAvoider` | detections callback and control loop, in discrete time | |
| `Navigation` | both nodes of a robot in front of changing scenes | `RobotNode` (extended), `ObstacleAvoider` |
| `AvoiderProofs` | proofs about `ObstacleAvoider` | `ObstacleAvoider`, TLAPS |
| `NavigationProofs` | proofs about `RobotNode` and `Navigation` | `Navigation`, `AvoiderProofs` (its theorems), TLAPS |
| `Lifecycle` | the process of either server from start to exit, with signals | |
| `LifecycleProofs` | proofs about `Lifecycle` | `Lifecycle`, TLAPS |
| `Deadlines` | frames of many robots between two deadlines and a pool, in discrete time | |
| `DeadlinesProofs` | proofs about `Deadlines` | `Deadlines`, FiniteSetTheorems, TLAPS |
| `MC*` | constants and symmetry sets for TLC | |

### ThreadPool

A step is what one thread does between two points where another can run: taking `mtx_`, testing the predicate of
`cv_.wait`, releasing and blocking (atomically, as the condition variable does), pushing, notifying, joining.
`wpc`, `cpc` and `spc` are the program counters of workers, callers of `enqueue` (which then wait in
`future.get()`) and the owner that calls `shutdown()` and, from the destructor, calls it again. `WSpurious` is the
spurious wake-up the standard allows. `NotifyOne` wakes any one sleeper and is lost on nobody. A finished task
leaves a value or an exception in its future (`std::packaged_task`). `None` stands for no thread and no task.
Left out: `pending()`, which only reads; the type of the task and its result.

`TaskQueue` has the queue, the running tasks, the results and whether the pool is open. `ThreadPool!ImplementsTaskQueue`
is its specification, with fairness, under `queue <- tasks, slot <- hand, result <- fut, open <- ~stop`.

### InferenceServer and Middleware

Every call has its own handler thread (gRPC's synchronous server), so `rpc[r]` is a program counter per call. The
definitions `Detect`, `DetectStream`, `Read`, `ReadFails`, `Process`/`ProcessThrows`, `Reply` are the handlers of
the inference server; `Enqueue`, `Get`, `GetThrows` take the place of the processing in the middleware, where
`future.get()` and the `Write` after it are one step (the client can leave before it or after it). A response is
identified with the frame whose robot id and timestamp it echoes, so a swapped or stale response is visible. The
content of images and detections is left out, also when it makes `process()` throw: any run may fail.

In `Middleware` the pool is `TaskQueue` (justified by the refinement run and `QueueRefinement`), the upstream is
`InferenceServer` with the frames as its unary calls. `Captured` reads the request at the moment `forward()` does:
the copy that a stream's task carries, or what the handler's request object holds *now* for a unary call, `None`
once the handler is gone. `ForwardThrows` is always possible while a call is out: the upstream can fail, be
unreachable, or take longer than 5 s; the upstream call then goes on without a client. That an upstream is down
needs no state of its own for the same reason. The catch around `enqueue` for a stopped pool is not an action:
`NeverRefused` is checked instead.

`phase` follows `Shutdown()` (gRPC stops taking calls and waits for handlers), the return of `Run()`, and the
destructors in the order of the members: server, then service with its pool. Signals, the moments before `server_`
is set and failing to bind are in `Lifecycle`. Four comments claim more than the code does and are not properties here:
a unary handler thread does block while its task waits (`middleware_server.cpp:52`); `Run()` does not return for as
long as a robot keeps a stream open (`middleware_server.hpp:58`), which is why `ShutdownEnds` excepts that case; the
pool does not control the concurrency upstream (`middleware_server.hpp:16`), since after a deadline the inference
server still works on the abandoned call beside the next one; and a stream does not yield a response for each
request (`grpc_client.py:80`), since a frame that fails leaves no trace on it, as `InferenceService!Skip` says.

### Lifecycle

`main` is the place of `main()` (constructing, building, assigning `server_`, waiting, destroying), `alive` the objects
it owns, `grpc` the library's server, `rpc` and `task` the calls in progress on handler threads and workers. A signal
is taken by any thread that exists and is in no handler; the handler runs on top of the thread, which stands still
(every action of a thread has `handler[t] = "none"`). `Reads` says what happens when destroyed memory is read: the
program goes on, or ends as `crashed`. One module stands for both programs: `Pool`, chosen in `Init`, is empty in the
inference server, whose `Shutdown()` does not read `service_` afterwards. `BuildAndStart` and `AssignServer` are two
steps, since the library serves calls before the pointer is set: a signal in between, or before, finds no server and
does nothing (`ShutdownTooEarly`). The code promises nothing for that case; `SignalEnds` begins where a signal
finds `server_`. `grpc::Server::Shutdown()` is external: it waits for the calls and for the library's own handler
threads, so `Drained` asks that neither a call nor a signal handler is left on any of them. A signal taken on such a thread,
idle or not, therefore waits for itself for ever, and so does one on the worker of a call; `WaitsForItself` lists these
cases and `SignalEnds` says that there are no others. `Others` are threads of libraries that nobody waits for. `CrashTakesRace` names the two ways into a destroyed object, a signal on a thread beside which `main()`
goes on, and one after `Run()` has returned (`g_server` is never reset); it says that there is no other. Left out: that
the one signal interrupts the handler of the other on the same thread, a signal on a thread of a library that
calls do need (of ONNX Runtime, say), exceptions other than those of a failing start.

### Deadlines

A frame `<<r, k>>` is on its way, queued, with the inference server (`upstream`) or on its way back, for `since` units;
a robot waits for one frame at a time. After `Timeout` the robot gives up (`GivesUp`, `detect()` throws) and may send
the next one at once, while the middleware goes on with the old one: its handler and worker learn nothing. After
`Deadline` `forward()` gives up (`Overdue`). `Tick` lets time pass when nothing is due: a message arrives within
`Latency`, and a worker that is free takes a task at once. The inference server is external and answers, fails or
hangs. What it still does with a frame after `forward()` has given that up is not in the model: `process()` never looks
whether its caller is there (`inference_server.cpp:63`), so with slow runs abandoned frames pile up there without a
bound, and may slow the server down for everybody. `TwoUnderWay` is about robots and middleware only, and `BlameUpstream`
says no more than that the time was lost behind `forward()`. The properties rest on `DeadlinesAssumption`, whose conditions the repository's settings meet: `main.cpp:18`
makes eight workers for the three robots of the launch file, and both deadlines are 5 s. They are needed: with three
workers for two robots TLC refutes `NeverWaits`, because each robot can leave a frame behind and send another.

### ModelRunner

Behaviours begin with any answer of the network (`raw`) and any depth image. `Candidates` is the confidence filter of
`postprocess()`; `SortedOrders` all results `std::sort` may give; an iteration of the outer loop of `nms()` is `Skip`
or `Keep`, which holds the whole inner loop; then `Backproject` runs once per detection. The IOU comparison is
multiplied out, behind the question whether the boxes meet at all. `Preprocess` fills the input
tensor with the pixel that each cell is taken from; `Scaled` and `Centre` are the way back, from the network's
coordinates to a pixel of the image, and round where the code does: the scales are rounded quotients (`HalfCol`,
`HalfRow`), each corner is a rounded product and their sum is rounded again (`Float`). Numbers are counted in `Unit`
parts of a pixel; `FloatAssumption` says what is used of IEEE 754: a relative error of `1 / Precision`, monotony, exact
doubling. So the code can be a pixel off, and is: at height 576 (`scale_y` is 0.9f) a box with `cy` 10 and `bh` 16 is
looked up in row 8, while `preprocess()` took row 9 for cell 10. `DepthWhereSeen` says when: only if the centre of the
box lies exactly on the edge between two pixels, and then by one pixel down. Left out: the rounding of areas and of their
quotient, and the `1e-6f` beside them, which can turn a comparison that is as good as a tie; coordinates of the network
that are no integers; class (suppression does not look at it); world x and y (linear in z and the pixel); the network.

### RobotNode, ObstacleAvoider, Navigation

Times are ages that `Tick` counts up to a bound, so that behaviours are infinite and the state space finite. Callbacks
take no time, except that a call lasts 0 to `Timeout` units and keeps the node's executor, which has one thread, from
running anything else. `Waits` says when time may pass: a node first runs what is ready, in any order. A timer stays on
the grid on which it was created, and expiries missed behind a call count as one, as `rcl` does. The camera takes an
image per unit and topic; it arrives in that unit or is lost. An image that waits is replaced by the next (depth 1).

`TickReturns`/`TickSends` and `CallReturns`/`CallFails` are `_inference_tick` before and after `detect()`. A scene says
on which sides an object can be seen (colour image) and how far away things are on each side (depth image), so images
of different moments give detections of no moment at all. In the avoider, `Cruise`, `RecoverySpin` and `Steer` are
the branches of `_control_loop`, `Stuck` what the last two share. `basis`, `steering`, `idle`, `sinceCall` and
`failures` are histories: no guard reads them. `Navigation` joins the two through the topic and ticks them
together. The time the node writes into a request is that of the call, not that of the image's header
(`proto/inference.proto:42`), and the node sends its latest image however old that is: with a camera that stopped it sends
one image again and again, and no call fails. So `RequestAgeBounded` bounds how long ago the request behind a command was
sent, and nothing bounds the age of what the robot steers by; the two images of a request need not belong
together either (`src/README.md:13` calls them synchronized), since nothing compares their headers. Nor does the recovery spin need a robot that
stopped (`obstacle_avoider.py:16`): its clock runs from the first close obstacle. Left out: intrinsics, the odometry
callback (empty), images that cannot be converted, the motion of the robot.

## 4. Runs

| Run | Bounds | Shows |
|---|---|---|
| `pool` | 2 workers, 3 calls, 2 shutdowns | `EachTaskOnce`, `ShutdownDrains`, `NoLostWakeup`, `NoIdleWorkerBesideTask`, `NoSleeperAfterStop`, `AcceptedIsAnswered`, `ShutdownReturns`, `ImplementsTaskQueue` |
| `inference_server` | 1 unary call, 2 streams of up to 2 frames | `RepliesWereCounted`, `ImplementsService`, `HandlersEnd` |
| `middleware_safety` | 2 unary calls, 1 stream of up to 2 frames, 2 workers, symmetric | `RequestAlive`, `RepliesMatch`, `CountersAgree`, `NeverRefused`, `IdleWhenStopped` |
| `middleware_live` | 1 unary call, 1 stream of up to 2 frames, 2 workers | `ImplementsService`, `HandlersEnd`, `ShutdownEnds` |
| `lifecycle` | 2 handler threads, no worker or 2, 1 other thread, 3 signals | `CallsEndFirst`, `CrashTakesRace`, `SignalEnds` |
| `lifecycle_comesback` | 1 handler thread, 2 signals | finding: `Shutdown()` in a signal handler can wait for its own thread |
| `deadlines` | 2 robots, 4 workers, both deadlines 5, latency 1 | `NeverWaits`, `TwoUnderWay`, `BlameUpstream` |
| `model_runner` | 3 anchors, 5 boxes, 3 confidences, 3x1 image, 9x2 input, floats of 7 bits, symmetric | `KeptDisjoint`, `DroppedForBetter`, `LookupInside`, `DepthWhereSeen`, `DistanceIsRead` |
| `robot_ratecapped` | period 3, timeout 5 | finding: the rate limit is open while calls fail |
| `obstacle_avoider` | recovery after 3, control period 2, up to 2 objects | `SteeringEnds`, `CruiseThenAvoid` |
| `navigation_times` | period 3, timeout 4, failures counted to 3 | `NeverStarves`, `RequestAgeBounded` |
| `navigation_live` | all periods and timeouts 1, two scenes | `ClearMeansCruise`, `BlockedMeansSpin` |

Why the bounds are enough. The pool's hazards need a worker that tests while another sleeps, and one caller more
than workers, so that a task waits; more threads of a kind repeat the same roles, and the proofs cover every number. In the middleware
two workers and three calls give contention for workers, answers out of order, and a stream whose second frame
overlaps another call's first; two frames are needed for order, gaps and a request object that is reused. Three
detections give a chain in which the first suppresses the second and the third survives; the boxes include a pair at
exactly the threshold, where an asymmetric comparison shows, and one outside the image; the input is finer than the
image, so that a rounding instead of a truncation shows; with floats of seven significant bits (`FloatRound`) a third is
no float and the box at column 3 does slip by a pixel. The theorems cover every other size and precision. In `Lifecycle` two
threads of a kind let one serve a call while the other is interrupted, and three signals put one on each kind of
thread. In `Deadlines` a robot with a third frame is what `TwoUnderWay`
forbids, so `Copies` is 3, and a deadline of 5 beside two ways of 1 leaves answers that come early, late and never;
the theorems cover the rest. For the robot the timeout is
longer than the period and not a multiple of it, so that calls end on and off the timer's grid; `RequestAgeBounded` is
tight (with its bound one lower, TLC finds a counterexample). The liveness runs set every duration to one unit: they are
about what follows what, not about how long. Deadlock is checked in every run (`Finished` marks the states where
everybody is done) but the two of `Lifecycle`, where a process ends, and where threads that wait for themselves are
what `SignalEnds` excepts and `ShutdownComesBack` denies.

Every property is paired with a mutant of a definition (the operators commented `Fault:`), a plausible bug that TLC
must find through it.

Fairness. A runnable thread is scheduled (weak fairness per thread); nobody has to call anything. `mtx_` is not a
fair lock: only the thread that calls `shutdown()` is given strong fairness, because spurious wake-ups may
bring workers back to the lock for ever. A task ends because `forward()` sets a deadline; no fairness is asked of
robots or of the inference server. `Lifecycle` asks in addition that a call ends when its threads run, which takes a
robot that closes its stream. In `Navigation` time passes, the camera delivers and the executors run what is
ready; taking an image is strongly fair, since the executor goes through everything that was ready before it waits
again, while a call may keep disabling it. That calls keep succeeding is no fairness but the premise `Answered` of both
properties, and without it TLC refutes both.

## 5. Proofs

`ThreadPoolProofs` holds for every set of workers and callers and any number of shutdowns, from `ThreadsAssumption`
(the threads are distinct and `None` is none of them) and `BoundAssumption`. The properties are not inductive:
`EachTaskOnce` needs to know that a worker at its take holds nothing and that a caller at its push has no future
yet, and `NoSleeperAfterStop` that a worker between test and block still holds the mutex, so that `stop_` cannot
change under it. `IInv` adds `LockInv`, `WorkerInv`, `CallerInv`, `OwnerInv`; `WorkerStep`, `CallerStep` and
`OwnerStep` prove it step by step, one case per action. `NoIdleWorkerBesideTask` compares a length with cardinalities,
and each step moves one thread into or out of the sets counted; `IdleInv` adds that the callers about to notify are
finitely many, which need not be assumed of `Calls`.

| Theorem | States |
|---|---|
| `Typing` | `TypeOK` |
| `TaskOnce` | `EachTaskOnce` |
| `NobodyLeftAsleep` | `NoSleeperAfterStop` |
| `Drained` | `ShutdownDrains`, if the pool has a worker (`main.cpp:18` accepts 0 on its command line; then the pool takes tasks nobody runs, and it is false) |
| `WakeupKept` | `NoLostWakeup`, if the pool has a worker |
| `NoIdleWorker` | `NoIdleWorkerBesideTask`, if the workers are finitely many |
| `QueueRefinement` | the safety part of `TaskQueue`, by the refinement mapping of `ImplementsTaskQueue` |

`ModelRunnerProofs` holds for any finite set of anchors, any boxes with integer coordinates, any scores, threshold and
image size (`InputAssumption`), and any way of rounding that `FloatAssumption` admits. `KeptDisjoint` is not inductive: that a candidate newly kept suppresses none that was
kept before follows from what the earlier one did to it, which needs `Overlap` to be symmetric (`OverlapSymmetric`) and
the loop's progress to be stated (`DecidedInv`); that the better one wins needs the order of `idx` and that sorting
loses nobody (`SortedIsComplete`, by the pigeonhole theorem for finite sets). `LookupInside` rests on
the rounded sum of two floats lying between their doubles (`Middle`) and on what integer division does. `DepthWhereSeen`
adds up the errors of the scale, the two corners and their sum (`ErrorBound`): together less than a cell of the network for
boxes that are small beside the precision (`Precise`, with float anything inside the 640 cells and images of up to 3744
pixels), and so short of the next multiple of a cell, where a pixel's edge can be (`NearEdge`). `DistanceInv` follows the loop over the detections: those it
has looked up have their reading, and every other distance is still 0.

| Theorem | States |
|---|---|
| `KeptApart` | `KeptDisjoint` |
| `DroppedWithReason` | `DroppedForBetter` |
| `LookupIsInside` | `LookupInside` |
| `DepthIsWhereSeen` | `DepthWhereSeen` |
| `DistanceIsReading` | `DistanceIsRead` |
| `Typing` | `TypeOK` |

`DeadlinesProofs` holds for any finite set of robots, any durations and pools of at least two workers per robot
(`DeadlinesAssumption`). None of the three properties is inductive. `DInv` accounts for the time a robot has waited by the
place of its frame (`OnTime`: at most `Latency` on the way, none in the queue, then the time upstream), says how old a
frame that its robot has left must be (`LeftBehind`: with the inference server for longer than the robot
has waited for its next one, or on the way back), and that no robot has two of those (`OneOrphan`). So at most two frames of a robot
hold a worker (`ActiveBound`, by an injection into the robots), and a free worker is there for each task.

| Theorem | States |
|---|---|
| `NobodyWaits` | `NeverWaits` |
| `TwoAreUnderWay` | `TwoUnderWay` |
| `UpstreamToBlame` | `BlameUpstream` |

`InferenceServerProofs` and `MiddlewareProofs` hold for any sets of calls and workers and streams of any length
(`CallsAssumption`, `MiddlewareAssumption`: a call is unary or a stream, `None` is no frame). `RepliesWereCounted` is not
inductive, because a handler counts before it writes: `CountInv` counts responses from the moment they are made. In the
middleware no property stands alone. `RequestAlive` needs that what the pool holds is pending and is there once
(`PoolInv`), and that only a handler that waits has a pending future (`FutureInv`); `RepliesMatch` needs in addition that
a worker has its own task's frame on the wire (`ForwardInv`) and what has been answered at each place of a handler
(`RepliesInv`), where a robot may leave between the answer and the `Write`; `IdleWhenStopped` is that no handler is left
when `Run()` returns (`PhaseInv`), so nothing can be pending. `RepliesMatch` and `CountersAgree` are stated over the
set of responses and their order, and by cardinalities, since sums over sequences would need induction; `CountInv` keeps
the sets finite.

| Theorem | States |
|---|---|
| `InferenceServerProofs!Typing`, `Counted` | `TypeOK`, `RepliesWereCounted` |
| `InferenceServerProofs!ServiceRefinement` | `ImplementsService`, the promise of a service per call |
| `MiddlewareProofs!Typing` | `TypeOK` |
| `RequestStaysAlive` | `RequestAlive` |
| `InOrderReplies` | `RepliesMatch` |
| `TotalsAgree` | `CountersAgree` |
| `PoolOutlivesHandlers`, `NothingLeft` | `NeverRefused`, `IdleWhenStopped` |
| `MiddlewareProofs!ServiceRefinement` | `ImplementsService`: the robots get from the middleware what the inference server itself promises |
| `PoolRefinement`, `UpstreamRefinement` | the middleware uses its pool as `TaskQueue` says, and the inference server as that module's clients may |

`LifecycleProofs` holds for any handler threads and workers, with a pool and without, and any number of signals
(`LifecycleAssumption`). `MainInv` says what is alive at each place of `main()`, `CallInv` ties the tasks of the pool to
the calls and ends both before the gRPC server has stopped; `SignalInv` says that unless a signal was taken in one of the two dangerous
ways, only the main thread is in a signal handler, at a place where the objects are alive.

| Theorem | States |
|---|---|
| `ServiceOutlivesCalls` | `CallsEndFirst` |
| `CrashNeedsRace` | `CrashTakesRace` |

`AvoiderProofs` holds for any periods, timeouts and messages (`AvoiderAssumption`). That steering ends is seen only at
the control loop: between loops `SteeringInv` bounds it by the timeout and the time since the last one, and
`OnTheClock` says that the recovery's clock has shown at least as much, although steering may begin later than the clock.
`CruiseThenAvoid` needs that a robot that cruises has its clock off (`CruiseInv`).

`NavigationProofs` holds for any period, timeout and scenes (`RobotAssumption`, `NavigationAssumption`: the objects are on the three
sides, and the topic holds two messages; `robot_node.py` and `obstacle_avoider.py` ask for ten). `NeverStarves` needs
where on the timer's grid a call may end (`CallOnGrid`), and that the rate limit holds back no longer than since the last
call (`LimitInv`). `RequestAgeBounded` needs the same bound for the message that the avoider has yet to take (`Newest`), in
three forms: while a call is under way (`BusyAge`), when the timer has expired (`DueAge`) and when it has not
(`WaitAge`); and that the rate limit holds back calls after a success only (`LimitAge`). `QueueInv` shows that at most two
messages wait, so that the queue of ten loses none.

| Theorem | States |
|---|---|
| `SteeringIsBounded`, `CruiseComesBeforeAvoiding` | `SteeringEnds`, `CruiseThenAvoid` |
| `NodeTyping`, `NodeNeverStarves` | `TypeOK` and `NeverStarves` of `RobotNode` |
| `RequestAgeIsBounded` | `RequestAgeBounded` |
| `NodeRefinement`, `AvoiderRefinement` | in the composition each node behaves as it does alone |
| `RobotSteeringEnds`, `RobotCruiseThenAvoid` | what is proved of the avoider alone, for the robot behind its camera |

Only model-checked: what is about fairness or something that must happen, which is out of the prover's reach
(`AcceptedIsAnswered`, `ShutdownReturns`, the fairness of `ImplementsTaskQueue`, `HandlersEnd`, `ShutdownEnds`,
`SignalEnds`, `ClearMeansCruise`, `BlockedMeansSpin`). `RateCapped` and `ShutdownComesBack` are false, which is what their
runs show. Everything else that a run checks is also proved.

## 6. Not modelled

`start.sh` and `stop.sh` are sequential bash around docker, `ss` and `pkill`, and the launch file is a list of processes with
fixed start times: they keep no state, and what their timing can do to the nodes, calls that fail until somebody
listens, is in `RobotNode`. The fleet manager only adds up statistics. A NaN confidence, which would make the comparison of `std::sort` inconsistent, is not among the inputs of
`ModelRunner`. Out of scope: the neural network and ONNX Runtime, the contents of images, gRPC's internals beyond
`GrpcCalls`, Gazebo and ROS middleware internals, generated stubs and build outputs, logging.
