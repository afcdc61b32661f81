----------------------------- MODULE Navigation -----------------------------
(* One robot: RobotNode and ObstacleAvoider, two processes that share the topic
   of detections, in front of scenes that change. *)
EXTENDS RobotNode

CONSTANTS
    DangerZone, RecoveryTimeout, ControlPeriod,     \* see ObstacleAvoider
    QueueDepth, MaxBasis,
    MaxFailures    \* failed calls in a row are counted to here

\* The topic holds ten messages; two is what the proofs need.
ASSUME NavigationAssumption ==
    /\ Sides \subseteq {"left", "centre", "right"}
    /\ {DangerZone, RecoveryTimeout, MaxBasis, MaxFailures} \subseteq Nat
    /\ ControlPeriod \in Nat \ {0}
    /\ QueueDepth \in Nat /\ QueueDepth >= 2
    /\ None \notin Nat

VARIABLES
    latest_dets, stoppedFor, in_recovery, cmd,      \* see ObstacleAvoider
    controlPhase, controlDue, basis, steering,
    failures       \* (history) calls that failed since one returned

nodeVars == <<cameraVars, inputVars, timerVars, sinceSent, call, sinceCall, idle>>
avoiderVars == <<latest_dets, stoppedFor, in_recovery, cmd, controlPhase,
                 controlDue, basis, steering>>
navVars == <<nodeVars, detections, avoiderVars, failures>>

Messages == [dets : SUBSET [side : Sides, z : Nat], age : 0 .. Timeout]

Avoider == INSTANCE ObstacleAvoider WITH phase <- controlPhase, due <- controlDue

----------------------------------------------------------------------------
NodeStep ==
    /\ \/ DeliverRgb \/ DeliverDepth
       \/ RgbCallback \/ DepthCallback
       \/ TickReturns \/ TickSends
    /\ UNCHANGED <<avoiderVars, failures>>

NavCallReturns ==
    /\ CallReturns
    /\ failures' = 0
    /\ UNCHANGED avoiderVars

NavCallFails ==
    /\ CallFails
    /\ failures' = IF failures < MaxFailures THEN failures + 1 ELSE failures
    /\ UNCHANGED avoiderVars

AvoiderStep ==
    /\ Avoider!AvoiderNext
    /\ UNCHANGED <<nodeVars, failures>>

\* Neither process has anything ready: time passes for both.
NavTick ==
    /\ Waits /\ Avoider!Waits
    /\ Pass /\ Avoider!Pass
    /\ UNCHANGED failures

NavInit ==
    /\ Init
    /\ Avoider!Init
    /\ failures = 0

NavNext == NodeStep \/ NavCallReturns \/ NavCallFails \/ AvoiderStep \/ NavTick

SafeSpec == NavInit /\ [][NavNext]_navVars

\* Time passes, the camera delivers, a call ends one way or the other (it has a
\* deadline), and the executors run what is ready. The node's executor goes
\* through everything that was ready when it last waited before it waits again:
\* an image that keeps finding it busy with a call is still taken some time.
Fairness ==
    /\ WF_navVars(NavTick)
    /\ WF_navVars(DeliverRgb /\ NodeStep)
    /\ WF_navVars(DeliverDepth /\ NodeStep)
    /\ SF_navVars(RgbCallback /\ NodeStep)
    /\ SF_navVars(DepthCallback /\ NodeStep)
    /\ WF_navVars((TickReturns \/ TickSends) /\ NodeStep)
    /\ WF_navVars(NavCallReturns \/ NavCallFails)
    /\ WF_navVars(AvoiderStep)

NavSpec == SafeSpec /\ Fairness

----------------------------------------------------------------------------
(* Properties *)

Greater(m, n) == IF m >= n THEN m ELSE n

\* How long ago the request behind a command may have been sent, after so many
\* failed calls: the next call began at most one call or two periods later,
\* every failed call takes up to its timeout and the last one again as long.
RequestAge(failed) ==
    Greater(Timeout, 2 * MinDt - 1) + failed * Greater(Timeout, MinDt) + Timeout

\* Commands rest on an answer whose request was sent no longer ago than that.
\* Nothing in the avoider lets detections expire: only the robot node's calls
\* replace them. This does not bound the age of the scene itself: the node sends
\* its latest image however old it is, and a camera that stops makes it send
\* that one again and again, without a failed call.
RequestAgeBounded ==
    detections = <<>> /\ basis # None /\ failures < MaxFailures =>
        basis <= RequestAge(failures)

\* Calls keep succeeding. Nothing in the code can promise that.
Answered == []<><<NavCallReturns>>_navVars

\* A robot with nothing before it drives on in the end, whatever it was doing:
\* the empty answer reaches the avoider and ends steering and recovery.
ClearMeansCruise ==
    Answered /\ <>[](scene.seen = {}) =>
        <>[](cmd = [linear |-> "cruise", angular |-> "straight"])

\* A robot that keeps seeing close obstacles, on whichever side, ends in the
\* recovery spin and stays there.
BlockedMeansSpin ==
    Answered /\ <>[](scene.seen # {}) =>
        <>[](cmd = [linear |-> "stop", angular |-> "left"])
=============================================================================
