--------------------------- MODULE AvoiderProofs ---------------------------
(* Proofs about ObstacleAvoider: the clocks that steering and recovery go by,
   for every period, every timeout and every sequence of messages. *)
EXTENDS ObstacleAvoider, TLAPS

----------------------------------------------------------------------------
(* The inductive invariant *)

Objects == [side : {"left", "centre", "right"}, z : Nat]

InputInv == detections \in Seq(Messages) /\ latest_dets \in SUBSET Objects

FlagInv == due \in BOOLEAN /\ in_recovery \in BOOLEAN

ClockInv ==
    /\ phase \in 0 .. ControlPeriod - 1
    /\ stoppedFor \in (0 .. RecoveryTimeout + 1) \cup {None}
    /\ steering \in Nat \cup {None}

\* A control loop that is due runs in the instant of its expiry.
DueOnGrid == due => phase = 0

\* Whoever steers is on the clock of the recovery, and was when it began to: the
\* clock shows at least the time spent steering, or has run out.
OnTheClock ==
    steering # None =>
        /\ stoppedFor # None
        /\ steering <= stoppedFor \/ stoppedFor = RecoveryTimeout + 1

\* The last control loop found the clock not yet run out; since then less than
\* a period has passed, or the next loop is due.
SteeringInv ==
    steering # None =>
        steering <= RecoveryTimeout + (IF due THEN ControlPeriod ELSE phase)

\* A robot that cruises has its clock off and is not recovering.
CruiseInv == cmd # None /\ cmd.linear = "cruise" => stoppedFor = None /\ ~in_recovery

IInv == InputInv /\ FlagInv /\ ClockInv /\ DueOnGrid /\ OnTheClock /\ SteeringInv /\ CruiseInv

----------------------------------------------------------------------------
(* Lemmas *)

(* The timer's grid: the phase grows by one and starts again at its end. *)
LEMMA GridStep ==
    ASSUME NEW n \in Nat \ {0}, NEW p \in 0 .. n - 1
    PROVE  (p + 1) % n = IF p + 1 = n THEN 0 ELSE p + 1
<1>1. CASE p + 1 = n
  BY <1>1, Z3
<1>2. CASE p + 1 # n
  <2>1. p + 1 \in 0 .. n - 1
    BY <1>2
  <2> QED
    BY <1>2, <2>1
<1> QED
  BY <1>1, <1>2

(* What is assumed of the constants, one by one. *)
LEMMA Constants ==
    /\ ControlPeriod \in Nat /\ ControlPeriod > 0
    /\ RecoveryTimeout \in Nat /\ None \notin Nat
    /\ \A m \in Messages : m.dets \in SUBSET Objects
BY AvoiderAssumption DEF Objects

(* Nothing has happened: no clock runs. *)
LEMMA InitIInv == Init => IInv
<1> SUFFICES ASSUME Init PROVE IInv
  OBVIOUS
<1>1. ClockInv
  BY Constants DEF Init, ClockInv
<1>2. InputInv /\ FlagInv /\ DueOnGrid
  <2>1. InputInv
    BY DEF Init, InputInv
  <2>2. FlagInv /\ DueOnGrid
    BY DEF Init, FlagInv, DueOnGrid
  <2> QED
    BY <2>1, <2>2
<1>3. OnTheClock /\ SteeringInv /\ CruiseInv
  BY DEF Init, OnTheClock, SteeringInv, CruiseInv
<1> QED
  BY <1>1, <1>2, <1>3 DEF IInv

(* The cases of the control loop, one by one. *)
LEMMA CruiseStep == IInv /\ Cruise => IInv'
<1> SUFFICES ASSUME IInv, Cruise PROVE IInv'
  OBVIOUS
<1>1. /\ due' = FALSE /\ stoppedFor' = None /\ in_recovery' = FALSE /\ steering' = None
      /\ UNCHANGED <<detections, latest_dets, phase>>
  BY DEF Cruise, ControlLoop, Publish, Command, inputVars
<1>2. InputInv' /\ FlagInv' /\ ClockInv' /\ DueOnGrid'
  <2>1. InputInv'
    BY <1>1 DEF IInv, InputInv
  <2>2. FlagInv' /\ DueOnGrid'
    BY <1>1 DEF IInv, FlagInv, DueOnGrid
  <2> QED
    BY <1>1, <2>1, <2>2 DEF IInv, ClockInv
<1>3. OnTheClock' /\ SteeringInv' /\ CruiseInv'
  BY <1>1 DEF OnTheClock, SteeringInv, CruiseInv
<1> QED
  BY <1>2, <1>3 DEF IInv

(* The spin is a stop, not a slow curve: steering ends. *)
LEMMA SpinStep == IInv /\ RecoverySpin => IInv'
<1> SUFFICES ASSUME IInv, RecoverySpin PROVE IInv'
  OBVIOUS
<1>1. /\ due' = FALSE /\ stoppedFor' = From(stoppedFor) /\ in_recovery' = TRUE
      /\ steering' = None /\ cmd' = Command("stop", "left")
      /\ UNCHANGED <<detections, latest_dets, phase>>
  BY DEF RecoverySpin, Stuck, ControlLoop, Publish, Command, inputVars
<1>2. From(stoppedFor) \in 0 .. RecoveryTimeout + 1
  <2>1. CASE stoppedFor = None
    BY <2>1, Constants DEF From
  <2>2. CASE stoppedFor # None
    BY <2>2 DEF IInv, ClockInv, From
  <2> QED
    BY <2>1, <2>2
<1>3. cmd'.linear = "stop"
  BY <1>1 DEF Command
<1>4. InputInv' /\ FlagInv' /\ ClockInv' /\ DueOnGrid'
  <2>1. InputInv'
    BY <1>1 DEF IInv, InputInv
  <2>2. FlagInv' /\ DueOnGrid'
    BY <1>1 DEF IInv, FlagInv, DueOnGrid
  <2> QED
    BY <1>1, <1>2, <2>1, <2>2 DEF IInv, ClockInv
<1>5. OnTheClock' /\ SteeringInv' /\ CruiseInv'
  BY <1>1, <1>3 DEF OnTheClock, SteeringInv, CruiseInv
<1> QED
  BY <1>4, <1>5 DEF IInv

(* Steering goes on, or begins: the clock has not run out, so the time spent
   steering, which the clock bounds, is at most the timeout. *)
LEMMA SteerStep == IInv /\ Steer => IInv'
<1> SUFFICES ASSUME IInv, Steer PROVE IInv'
  OBVIOUS
<1>1. /\ due' = FALSE /\ stoppedFor' = From(stoppedFor) /\ stoppedFor' <= RecoveryTimeout
      /\ UNCHANGED <<detections, latest_dets, in_recovery, phase>>
  BY DEF Steer, Stuck, ControlLoop, inputVars
<1>2. cmd'.linear \in {"stop", "slow"} /\ steering' \in {None, From(steering)}
  <2>1. PICK d \in Nearest :
           Publish(CASE d.side = "centre" -> Command("stop", "left")
                     [] d.side = "left"   -> Command("slow", "right")
                     [] d.side = "right"  -> Command("slow", "left"))
    BY DEF Steer
  <2>2. d.side \in {"left", "centre", "right"}
    BY DEF Nearest, Close, IInv, InputInv, Objects
  <2>3. steering' \in {None, From(steering)}
    BY <2>1 DEF Publish
  <2>4. cmd' \in {Command("stop", "left"), Command("slow", "right"), Command("slow", "left")}
    BY <2>1, <2>2 DEF Publish
  <2> QED
    BY <2>3, <2>4 DEF Command
<1>3. From(stoppedFor) \in 0 .. RecoveryTimeout
  BY <1>1, Constants DEF IInv, ClockInv, From
<1>4. From(steering) \in Nat /\ From(steering) <= From(stoppedFor)
  <2>1. CASE steering = None
    BY <2>1, <1>3 DEF From
  <2>2. CASE steering # None
    <3>1. From(stoppedFor) = stoppedFor /\ From(steering) = steering
      BY <2>2 DEF IInv, OnTheClock, From
    <3> QED
      BY <2>2, <3>1, <1>3, Constants DEF IInv, ClockInv, OnTheClock
  <2> QED
    BY <2>1, <2>2
<1>5. InputInv' /\ FlagInv' /\ ClockInv' /\ DueOnGrid'
  <2>1. InputInv'
    BY <1>1 DEF IInv, InputInv
  <2>2. FlagInv' /\ DueOnGrid'
    BY <1>1 DEF IInv, FlagInv, DueOnGrid
  <2> QED
    BY <1>1, <1>2, <1>3, <1>4, <2>1, <2>2, Constants DEF IInv, ClockInv
<1>6. steering' # None => steering' <= stoppedFor' /\ steering' <= RecoveryTimeout
  BY <1>1, <1>2, <1>3, <1>4, Constants
<1>7. OnTheClock'
  BY <1>1, <1>3, <1>6, Constants DEF OnTheClock
<1>8. SteeringInv'
  BY <1>1, <1>2, <1>4, <1>6, Constants DEF SteeringInv, IInv, ClockInv
<1>9. CruiseInv'
  BY <1>2 DEF CruiseInv
<1> QED
  BY <1>5, <1>7, <1>8, <1>9 DEF IInv

(* Time passes for the clocks together, and only when no control loop is due. *)
LEMMA TimeStep == IInv /\ Waits /\ Pass /\ UNCHANGED detections => IInv'
<1> SUFFICES ASSUME IInv, Waits, Pass, UNCHANGED detections PROVE IInv'
  OBVIOUS
<1>1. phase' = IF phase + 1 = ControlPeriod THEN 0 ELSE phase + 1
  BY Constants, GridStep DEF IInv, ClockInv, Pass
<1>2. ~due /\ due' = (phase' = 0)
  BY DEF Waits, Pass
<1>3. \/ stoppedFor = None /\ stoppedFor' = None
      \/ stoppedFor # None /\ stoppedFor' = Lesser(stoppedFor + 1, RecoveryTimeout + 1)
  BY DEF Pass, Aged
<1>4. \/ steering = None /\ steering' = None
      \/ steering # None /\ steering' = Lesser(steering + 1, RecoveryTimeout + ControlPeriod + 1)
  BY DEF Pass, Aged
<1>5. UNCHANGED <<latest_dets, in_recovery, cmd>>
  BY DEF Pass
<1>6. stoppedFor # None => /\ stoppedFor' \in 0 .. RecoveryTimeout + 1
                           /\ stoppedFor' = stoppedFor + 1 \/ stoppedFor' = RecoveryTimeout + 1
  BY <1>3, Constants DEF IInv, ClockInv, Lesser
<1>7. steering # None => steering' \in Nat /\ steering' <= steering + 1 /\ steering \in Nat
  BY <1>4, Constants DEF IInv, ClockInv, Lesser
<1>8. InputInv' /\ FlagInv' /\ ClockInv' /\ DueOnGrid'
  <2>1. InputInv'
    BY <1>5 DEF IInv, InputInv
  <2>2. FlagInv' /\ DueOnGrid'
    BY <1>2, <1>5 DEF IInv, FlagInv, DueOnGrid
  <2>3. phase' \in 0 .. ControlPeriod - 1
    BY <1>1, Constants DEF IInv, ClockInv
  <2> QED
    BY <1>3, <1>4, <1>6, <1>7, <2>1, <2>2, <2>3 DEF ClockInv
<1>9. OnTheClock'
  <2> SUFFICES ASSUME steering' # None
               PROVE  stoppedFor' # None /\ (steering' <= stoppedFor' \/ stoppedFor' = RecoveryTimeout + 1)
    BY DEF OnTheClock
  <2>1. steering # None /\ stoppedFor # None
    BY <1>4 DEF IInv, OnTheClock
  <2>2. stoppedFor \in 0 .. RecoveryTimeout + 1 /\ stoppedFor' # None
    BY <2>1, <1>6, Constants DEF IInv, ClockInv
  <2> QED
    BY <2>1, <2>2, <1>6, <1>7, Constants DEF IInv, OnTheClock
<1>10. SteeringInv'
  <2> SUFFICES ASSUME steering' # None
               PROVE  steering' <= RecoveryTimeout + (IF due' THEN ControlPeriod ELSE phase')
    BY DEF SteeringInv
  <2>1. steering # None /\ steering <= RecoveryTimeout + phase
    BY <1>4, <1>2 DEF IInv, SteeringInv
  <2>2. steering \in Nat /\ steering' \in Nat /\ steering' <= steering + 1
    BY <2>1, <1>7
  <2>3. CASE due'
    <3>1. phase + 1 <= ControlPeriod
      BY Constants DEF IInv, ClockInv
    <3> QED
      BY <2>1, <2>2, <2>3, <3>1, Constants DEF IInv, ClockInv
  <2>4. CASE ~due'
    <3>1. phase' = phase + 1
      BY <2>4, <1>1, <1>2
    <3> QED
      BY <2>1, <2>2, <2>4, <3>1, Constants DEF IInv, ClockInv
  <2> QED
    BY <2>3, <2>4
<1>11. CruiseInv'
  BY <1>3, <1>5 DEF IInv, CruiseInv
<1> QED
  BY <1>8, <1>9, <1>10, <1>11 DEF IInv

(* Messages that come and are taken touch no clock. *)
LEMMA NextIInv == IInv /\ [Next]_vars => IInv'
<1> SUFFICES ASSUME IInv, [Next]_vars PROVE IInv'
  OBVIOUS
<1>1. CASE DetectionsCallback \/ Arrives \/ UNCHANGED vars
  <2>1. UNCHANGED <<stoppedFor, in_recovery, cmd, steering, phase, due>>
    BY <1>1 DEF DetectionsCallback, Arrives, vars, stuckVars, commandVars, timerVars
  <2>2. detections' \in Seq(Messages) /\ latest_dets' \in SUBSET Objects
    <3>1. CASE DetectionsCallback
      BY <3>1, Constants DEF DetectionsCallback, IInv, InputInv
    <3>2. CASE Arrives \/ UNCHANGED vars
      BY <3>2 DEF Arrives, vars, inputVars, IInv, InputInv
    <3> QED
      BY <1>1, <3>1, <3>2
  <2> QED
    BY <2>1, <2>2 DEF IInv, InputInv, FlagInv, ClockInv, DueOnGrid, OnTheClock, SteeringInv, CruiseInv
<1>2. CASE Cruise
  BY <1>2, CruiseStep
<1>3. CASE RecoverySpin
  BY <1>3, SpinStep
<1>4. CASE Steer
  BY <1>4, SteerStep
<1>5. CASE Tick
  BY <1>5, TimeStep DEF Tick
<1> QED
  BY <1>1, <1>2, <1>3, <1>4, <1>5 DEF Next, AvoiderNext

----------------------------------------------------------------------------
(* Theorems *)

(* _control_loop() and its clocks keep the invariant. *)
THEOREM Invariance == Spec => []IInv
<1>1. Init => IInv
  BY InitIInv
<1>2. IInv /\ [Next]_vars => IInv'
  BY NextIInv
<1> QED
  BY <1>1, <1>2, PTL DEF Spec

(* The robot never steers past obstacles for longer than RECOVERY_TIMEOUT_S and
   one control period, whatever it sees and on whichever side. *)
THEOREM SteeringIsBounded == Spec => []SteeringEnds
<1>1. IInv => SteeringEnds
  <2> SUFFICES ASSUME IInv, steering # None
               PROVE  steering <= RecoveryTimeout + ControlPeriod
    BY DEF SteeringEnds
  <2> QED
    BY Constants DEF IInv, ClockInv, SteeringInv
<1> QED
  BY <1>1, Invariance, PTL

(* No step takes the robot from cruising into the recovery spin: an obstacle in
   a free path finds the clock off and is given the whole timeout. *)
THEOREM CruiseComesBeforeAvoiding == Spec => CruiseThenAvoid
<1>1. IInv /\ [Next]_vars => [cmd # None /\ cmd.linear = "cruise" => ~in_recovery']_vars
  <2> SUFFICES ASSUME IInv, Next, cmd # None, cmd.linear = "cruise" PROVE ~in_recovery'
    OBVIOUS
  <2>1. stoppedFor = None /\ in_recovery = FALSE
    BY DEF IInv, FlagInv, CruiseInv
  <2>2. ~RecoverySpin
    BY <2>1, Constants DEF RecoverySpin, Stuck, From
  <2>3. CASE Cruise
    BY <2>3 DEF Cruise
  <2>4. CASE DetectionsCallback \/ Steer \/ Arrives \/ Tick
    BY <2>1, <2>4 DEF DetectionsCallback, Steer, Arrives, Tick, Pass, stuckVars
  <2> QED
    BY <2>2, <2>3, <2>4 DEF Next, AvoiderNext
<1> QED
  BY <1>1, Invariance, PTL DEF Spec, CruiseThenAvoid
=============================================================================
