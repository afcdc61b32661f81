-------------------------- MODULE ObstacleAvoider --------------------------
(* ObstacleAvoider of module3_ros2: detections in, velocity commands out, one
   callback at a time. Time is discrete and relative as in RobotNode. Of a
   velocity the model keeps which of the speeds of the code it is, of a
   bounding box the third of the image its centre is in. *)
EXTENDS Integers, Sequences

CONSTANTS
    Messages,         \* messages on the topic: [dets, age], see RobotNode
    DangerZone,       \* DANGER_ZONE_M
    RecoveryTimeout,  \* RECOVERY_TIMEOUT_S
    ControlPeriod,    \* 1 / CONTROL_HZ
    QueueDepth,       \* messages the topic may hold
    MaxBasis,         \* the age of what a command rests on counts to here
    None

ASSUME AvoiderAssumption ==
    /\ {DangerZone, RecoveryTimeout, MaxBasis} \subseteq Nat
    /\ {ControlPeriod, QueueDepth} \subseteq Nat \ {0}
    /\ Messages \subseteq [dets : SUBSET [side : {"left", "centre", "right"}, z : Nat], age : Nat]
    /\ None \notin Nat

VARIABLES
    detections,    \* topic detections
    latest_dets,   \* _latest_dets, as records [side, z]
    stoppedFor,    \* time since _stopped_since, None if that is None
    in_recovery,   \* _in_recovery
    cmd,           \* the Twist last published on cmd_vel
    phase,         \* time since the control timer's grid was last met
    due,           \* the timer has expired and _control_loop has not run
    basis,         \* (history) time since the images behind latest_dets were sent
    steering       \* (history) time since the robot began to steer past obstacles

inputVars == <<latest_dets, basis>>
stuckVars == <<stoppedFor, in_recovery>>
commandVars == <<cmd, steering>>
timerVars == <<phase, due>>
vars == <<detections, inputVars, stuckVars, commandVars, timerVars>>

Command(linear, angular) == [linear |-> linear, angular |-> angular]

Lesser(m, n) == IF m <= n THEN m ELSE n
Aged(age, max) == IF age = None THEN None ELSE Lesser(age + 1, max)
From(age) == IF age = None THEN 0 ELSE age

----------------------------------------------------------------------------
(* Callbacks *)

\* Fault: a message without detections is taken for no news.
DetectionsCallbackIfAny ==
    /\ detections # <<>>
    /\ detections' = Tail(detections)
    /\ IF Head(detections).dets = {}
       THEN UNCHANGED inputVars
       ELSE /\ latest_dets' = Head(detections).dets
            /\ basis' = Head(detections).age
    /\ UNCHANGED <<stuckVars, commandVars, timerVars>>

DetectionsCallback ==
    /\ detections # <<>>
    /\ detections' = Tail(detections)
    /\ latest_dets' = Head(detections).dets
    /\ basis' = Head(detections).age
    /\ UNCHANGED <<stuckVars, commandVars, timerVars>>

\* Publishes a command and keeps the history.
Publish(c) ==
    /\ cmd' = c
    /\ steering' = IF c.linear = "slow" THEN From(steering) ELSE None

Close == {d \in latest_dets : 0 < d.z /\ d.z < DangerZone}

\* min() takes the first of equals: detections at one distance may come in
\* any order.
Nearest == {d \in Close : \A e \in Close : d.z <= e.z}

ControlLoop ==
    /\ due
    /\ due' = FALSE
    /\ UNCHANGED <<detections, inputVars, phase>>

\* Fault: the clock of the recovery starts again with every change of side.
SteerAndForget ==
    /\ ControlLoop
    /\ Close # {}
    /\ From(stoppedFor) <= RecoveryTimeout
    /\ UNCHANGED in_recovery
    /\ \E d \in Nearest :
          /\ d.side # "centre"
          /\ Publish(Command("slow", IF d.side = "left" THEN "right" ELSE "left"))
          /\ stoppedFor' = IF cmd = cmd' THEN From(stoppedFor) ELSE 0

\* Fault: the clock of the recovery is not stopped.
CruiseStillStuck ==
    /\ ControlLoop
    /\ Close = {}
    /\ Publish(Command("cruise", "straight"))
    /\ in_recovery' = FALSE
    /\ UNCHANGED stoppedFor

Cruise ==
    /\ ControlLoop
    /\ Close = {}
    /\ Publish(Command("cruise", "straight"))
    /\ stoppedFor' = None
    /\ in_recovery' = FALSE

\* In all branches with an obstacle the clock runs on, or starts.
Stuck ==
    /\ ControlLoop
    /\ Close # {}
    /\ stoppedFor' = From(stoppedFor)

RecoverySpin ==
    /\ Stuck
    /\ stoppedFor' > RecoveryTimeout
    /\ in_recovery' = TRUE
    /\ Publish(Command("stop", "left"))

Steer ==
    /\ Stuck
    /\ stoppedFor' <= RecoveryTimeout
    /\ UNCHANGED in_recovery
    /\ \E d \in Nearest :
          Publish(CASE d.side = "centre" -> Command("stop", "left")
                    [] d.side = "left"   -> Command("slow", "right")
                    [] d.side = "right"  -> Command("slow", "left"))

----------------------------------------------------------------------------
(* Time *)

\* The executor takes what is ready before time passes.
Waits == detections = <<>> /\ ~due

Pass ==
    /\ basis' = Aged(basis, MaxBasis)
    /\ stoppedFor' = Aged(stoppedFor, RecoveryTimeout + 1)
    /\ steering' = Aged(steering, RecoveryTimeout + ControlPeriod + 1)
    /\ phase' = (phase + 1) % ControlPeriod
    /\ due' = (due \/ phase' = 0)
    /\ UNCHANGED <<latest_dets, in_recovery, cmd>>

Tick == Waits /\ Pass /\ UNCHANGED detections

\* RobotNode publishes.
Arrives ==
    /\ Len(detections) < QueueDepth
    /\ \E m \in Messages : detections' = Append(detections, m)
    /\ UNCHANGED <<inputVars, stuckVars, commandVars, timerVars>>

----------------------------------------------------------------------------
Init ==
    /\ detections = <<>>
    /\ latest_dets = {} /\ basis = None
    /\ stoppedFor = None /\ in_recovery = FALSE
    /\ cmd = None /\ steering = None
    /\ phase = 0 /\ due = FALSE

AvoiderNext == DetectionsCallback \/ Cruise \/ RecoverySpin \/ Steer

Next == AvoiderNext \/ Arrives \/ Tick

Spec == Init /\ [][Next]_vars

----------------------------------------------------------------------------
(* Properties *)

\* The trap of reactive steering, turning away from an obstacle on one side
\* towards one on the other and back, ends: because every close obstacle
\* keeps the clock of the recovery running, whatever its side, the robot
\* stops after at most RecoveryTimeout and one control period.
SteeringEnds == steering # None => steering <= RecoveryTimeout + ControlPeriod

\* A new obstacle gets the whole RecoveryTimeout: a robot goes from cruising to
\* avoiding, not into the spin. (The spin is what follows if nothing helps.)
CruiseThenAvoid ==
    [][cmd # None /\ cmd.linear = "cruise" => ~in_recovery']_vars
=============================================================================
