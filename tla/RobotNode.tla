----------------------------- MODULE RobotNode -----------------------------
(* RobotNode of module3_ros2 with the InferenceClient it calls: two camera
   topics in, one topic of detections out, one blocking call to the
   middleware at a time. rclpy.spin() runs the callbacks one after the other,
   so a call that blocks keeps every other callback of the node waiting.

   Time is discrete and relative: ages count up, once per Tick, to a bound
   beyond which they make no difference. A unit is long for a callback and
   short for a call. What a camera shows is a scene: the sides on which an
   object can be seen and the distance of what is on each side. *)
EXTENDS Integers, Sequences

CONSTANTS
    Sides,         \* parts of the field of view
    Scenes,        \* records [seen : SUBSET Sides, z : [Sides -> Nat]]
    MinDt,         \* _min_dt = 1 / max_fps
    Timeout,       \* timeout_s of the InferenceClient
    MaxFrameAge,   \* ages of images count to here
    None

Frame == [age : 0 .. MaxFrameAge, scene : Scenes]
Call == [rgb : Frame, depth : Frame \cup {None}, age : 0 .. Timeout]

ASSUME RobotAssumption ==
    /\ MinDt \in Nat \ {0} /\ Timeout \in Nat \ {0} /\ MaxFrameAge \in Nat
    /\ Scenes \subseteq [seen : SUBSET Sides, z : [Sides -> Nat]]
    /\ None \notin Frame \cup Call

VARIABLES
    scene,       \* what is in front of the robot
    shots,       \* topics on which the image of this instant may still arrive
    rgbIn,       \* image waiting on camera/image_raw (KEEP_LAST, depth 1)
    depthIn,     \* the same on camera/depth/image_raw
    rgb,         \* _latest_rgb
    depth,       \* _latest_depth
    phase,       \* time since the timer's grid was last met
    due,         \* the timer has expired and _inference_tick has not run
    sinceSent,   \* time since _last_sent, up to MinDt + 1
    call,        \* the call under way: its images and its age
    detections,  \* topic detections
    sinceCall,   \* (history) time since detect() was last called, up to MinDt
    idle         \* (history) time the node has had an image and made no call

cameraVars == <<scene, shots>>
inputVars == <<rgbIn, depthIn, rgb, depth>>
timerVars == <<phase, due>>
vars == <<cameraVars, inputVars, timerVars, sinceSent, call, detections, sinceCall, idle>>

Lesser(m, n) == IF m <= n THEN m ELSE n
Older(frame) == IF frame = None THEN None
                ELSE [frame EXCEPT !.age = Lesser(@ + 1, MaxFrameAge)]

----------------------------------------------------------------------------
(* The camera, from the side of the node. An image that has not arrived when
   the next one is taken is lost: the topics are best effort. *)

Image == [age |-> 0, scene |-> scene]

DeliverRgb ==
    /\ "rgb" \in shots
    /\ shots' = shots \ {"rgb"}
    /\ rgbIn' = Image
    /\ UNCHANGED <<scene, depthIn, rgb, depth, timerVars, sinceSent, call, detections, sinceCall, idle>>

DeliverDepth ==
    /\ "depth" \in shots
    /\ shots' = shots \ {"depth"}
    /\ depthIn' = Image
    /\ UNCHANGED <<scene, rgbIn, rgb, depth, timerVars, sinceSent, call, detections, sinceCall, idle>>

----------------------------------------------------------------------------
(* Callbacks. The executor takes one only when no other is running. *)

RgbCallback ==
    /\ call = None /\ rgbIn # None
    /\ rgb' = rgbIn
    /\ rgbIn' = None
    /\ UNCHANGED <<cameraVars, depthIn, depth, timerVars, sinceSent, call, detections, sinceCall, idle>>

DepthCallback ==
    /\ call = None /\ depthIn # None
    /\ depth' = depthIn
    /\ depthIn' = None
    /\ UNCHANGED <<cameraVars, rgbIn, rgb, timerVars, sinceSent, call, detections, sinceCall, idle>>

\* Fault: the rate limit compares with <=.
TooSoonInclusive == sinceSent <= MinDt

TooSoon == sinceSent < MinDt

\* _inference_tick() returns early: too soon after the last frame, or no image.
TickReturns ==
    /\ call = None /\ due
    /\ TooSoon \/ rgb = None
    /\ due' = FALSE
    /\ UNCHANGED <<cameraVars, inputVars, phase, sinceSent, call, detections, sinceCall, idle>>

TickSends ==
    /\ call = None /\ due
    /\ ~TooSoon /\ rgb # None
    /\ due' = FALSE
    /\ call' = [rgb |-> rgb, depth |-> depth, age |-> 0]
    /\ sinceCall' = 0 /\ idle' = 0
    /\ UNCHANGED <<cameraVars, inputVars, phase, sinceSent, detections>>

\* The middleware's answer: the objects are those of the colour image, their
\* distances are read from the depth image, 0 without one.
Detected(c) ==
    {[side |-> s, z |-> IF c.depth = None THEN 0 ELSE c.depth.scene.z[s]] : s \in c.rgb.scene.seen}

\* _last_sent = now: the time at which the tick began, not the time it ends.
CallReturns ==
    /\ call # None
    /\ sinceSent' = Lesser(call.age, MinDt + 1)
    /\ detections' = Append(detections, [dets |-> Detected(call), age |-> call.age])
    /\ call' = None
    /\ UNCHANGED <<cameraVars, inputVars, timerVars, sinceCall, idle>>

\* Fault: the time of a call that fails is put into the future.
CallFailsBackingOff ==
    /\ call # None
    /\ call' = None
    /\ sinceSent' = -MinDt
    /\ UNCHANGED <<cameraVars, inputVars, timerVars, detections, sinceCall, idle>>

\* An RpcError, at once or after the timeout: logged, nothing else.
CallFails ==
    /\ call # None
    /\ call' = None
    /\ UNCHANGED <<cameraVars, inputVars, timerVars, sinceSent, detections, sinceCall, idle>>

----------------------------------------------------------------------------
(* Time. rcl keeps a timer on its grid: expiries that are missed are one. *)

\* Nothing is ready to run, or a call blocks that need not have ended yet.
Waits ==
    IF call = None
    THEN ~due /\ rgbIn = None /\ depthIn = None
    ELSE call.age < Timeout

Pass ==
    /\ scene' \in Scenes
    /\ shots' = {"rgb", "depth"}
    /\ rgbIn' = Older(rgbIn) /\ depthIn' = Older(depthIn)
    /\ rgb' = Older(rgb) /\ depth' = Older(depth)
    /\ phase' = (phase + 1) % MinDt
    /\ due' = (due \/ phase' = 0)
    /\ sinceSent' = Lesser(sinceSent + 1, MinDt + 1)
    /\ call' = IF call = None THEN None ELSE [call EXCEPT !.age = @ + 1]
    /\ sinceCall' = Lesser(sinceCall + 1, MinDt)
    /\ idle' = IF call = None /\ rgb # None THEN Lesser(idle + 1, 2 * MinDt) ELSE 0
    /\ UNCHANGED detections

Tick == Waits /\ detections = <<>> /\ Pass

\* Whoever subscribes to the topic takes a message before time passes.
Taken ==
    /\ detections # <<>>
    /\ detections' = Tail(detections)
    /\ UNCHANGED <<cameraVars, inputVars, timerVars, sinceSent, call, sinceCall, idle>>

----------------------------------------------------------------------------
Init ==
    /\ scene \in Scenes /\ shots = {"rgb", "depth"}
    /\ rgbIn = None /\ depthIn = None
    /\ rgb = None /\ depth = None
    /\ phase = 0 /\ due = FALSE
    /\ sinceSent = MinDt + 1   \* _last_sent = 0.0, long ago
    /\ call = None
    /\ detections = <<>>
    /\ sinceCall = MinDt /\ idle = 0

NodeNext ==
    \/ DeliverRgb \/ DeliverDepth
    \/ RgbCallback \/ DepthCallback
    \/ TickReturns \/ TickSends
    \/ CallReturns \/ CallFails

Next == NodeNext \/ Taken \/ Tick

Spec == Init /\ [][Next]_vars

----------------------------------------------------------------------------
(* Properties *)

TypeOK ==
    /\ scene \in Scenes /\ shots \subseteq {"rgb", "depth"}
    /\ {rgbIn, depthIn, rgb, depth} \subseteq Frame \cup {None}
    /\ phase \in 0 .. MinDt - 1 /\ due \in BOOLEAN
    /\ sinceSent \in 0 .. MinDt + 1 /\ sinceCall \in 0 .. MinDt
    /\ call \in Call \cup {None}
    /\ detections \in Seq([dets : SUBSET [side : Sides, z : Nat], age : 0 .. Timeout])
    /\ idle \in 0 .. 2 * MinDt

\* The rate limit and the timer together never hold the robot back for two
\* periods: a tick that runs late (a call blocked the executor) moves
\* _last_sent off the timer's grid, and the next expiry may then be skipped,
\* but not the one after it.
NeverStarves == idle < 2 * MinDt

\* simulation.launch.py:13, "max inference frames per second per robot", and
\* robot_node.py:58, "cap frame rate sent": calls begin at least MinDt apart.
RateCapped == [][call = None /\ call' # None => sinceCall >= MinDt]_vars
=============================================================================
