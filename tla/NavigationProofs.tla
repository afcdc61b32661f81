-------------------------- MODULE NavigationProofs --------------------------
(* Proofs about RobotNode and Navigation: the times of one robot's frames,
   calls and commands, for every frame rate, every timeout, every sequence of
   scenes and every way its calls end. *)
EXTENDS Navigation, TLAPS

----------------------------------------------------------------------------
(* The inductive invariant of the node *)

ImageInv ==
    /\ scene \in Scenes /\ shots \subseteq {"rgb", "depth"}
    /\ rgbIn \in Frame \cup {None} /\ depthIn \in Frame \cup {None}
    /\ rgb \in Frame \cup {None} /\ depth \in Frame \cup {None}

ClockInv ==
    /\ phase \in 0 .. MinDt - 1
    /\ sinceSent \in 0 .. MinDt + 1 /\ sinceCall \in 0 .. MinDt
    /\ idle \in 0 .. 2 * MinDt

CallInv == call \in Call \cup {None}

TopicInv == detections \in Seq(Messages)

FlagInv == due \in BOOLEAN

\* A call is made when the rate limit allows it and ends the time without one.
BusyInv == call # None => idle = 0 /\ sinceSent >= MinDt

\* A timer that has not expired since a call began has run on for as long.
CallOnGrid == call # None /\ ~due => call.age <= phase

\* Without an image the node is not late.
BlindInv == rgb = None => idle = 0

\* The limit keeps the node from a call no longer than since its last one.
LimitInv == sinceSent < MinDt => idle <= sinceSent

\* At most one expiry of the timer has found the node without a call.
IdleInv == IF due THEN idle < 2 * MinDt ELSE idle < MinDt + phase

NodeInv ==
    /\ ImageInv /\ ClockInv /\ CallInv /\ TopicInv /\ FlagInv
    /\ BusyInv /\ CallOnGrid /\ BlindInv /\ LimitInv /\ IdleInv

----------------------------------------------------------------------------
(* Lemmas about the data *)

(* What is assumed of the constants of the node, one by one. *)
LEMMA NodeConstants ==
    /\ MinDt \in Nat /\ MinDt > 0 /\ Timeout \in Nat /\ Timeout > 0
    /\ MaxFrameAge \in Nat /\ None \notin Frame /\ None \notin Call
    /\ 2 * MinDt = MinDt + MinDt /\ 0 < 2 * MinDt
BY RobotAssumption

(* The timer's grid: the phase grows by one and starts again at its end. *)
LEMMA GridStep ==
    ASSUME NEW n \in Nat \ {0}, NEW p \in 0 .. n - 1
    PROVE  (p + 1) % n = IF p + 1 = n THEN 0 ELSE p + 1
<1>1. CASE p + 1 = n
  BY <1>1, Z3
<1>2. CASE p + 1 # n
  <2>1. p + 1 \in 0 .. n - 1
    BY <1>2
  <2> QED
    BY <1>2, <2>1
<1> QED
  BY <1>1, <1>2

(* An image grows older and stays an image. *)
LEMMA OlderFrame ==
    ASSUME NEW f \in Frame \cup {None}
    PROVE  /\ Older(f) \in Frame \cup {None}
           /\ Older(f) = None <=> f = None
<1>1. CASE f = None
  BY <1>1 DEF Older
<1>2. CASE f # None
  <2>1. f \in Frame /\ f.age \in 0 .. MaxFrameAge
    BY <1>2 DEF Frame
  <2>2. Lesser(f.age + 1, MaxFrameAge) \in 0 .. MaxFrameAge
    BY <2>1, NodeConstants DEF Lesser
  <2>3. Older(f) = [f EXCEPT !.age = Lesser(f.age + 1, MaxFrameAge)]
    BY <1>2, <2>1 DEF Older
  <2>4. Older(f) \in Frame
    BY <2>1, <2>2, <2>3 DEF Frame
  <2> QED
    BY <1>2, <2>4, NodeConstants
<1> QED
  BY <1>1, <1>2

(* A call that goes on keeps its images. *)
LEMMA OlderCall ==
    ASSUME NEW c \in Call, c.age < Timeout
    PROVE  /\ [c EXCEPT !.age = @ + 1] \in Call
           /\ [c EXCEPT !.age = @ + 1].age = c.age + 1
<1>1. c.age \in 0 .. Timeout /\ c.age + 1 \in 0 .. Timeout
  BY NodeConstants DEF Call
<1>2. [c EXCEPT !.age = @ + 1] = [c EXCEPT !.age = c.age + 1]
  BY DEF Call
<1> QED
  BY <1>1, <1>2 DEF Call

(* The answer to a call is a message for the topic. *)
LEMMA AnswerIsMessage ==
    ASSUME NEW c \in Call
    PROVE  [dets |-> Detected(c), age |-> c.age] \in Messages
<1>1. c.rgb \in Frame /\ c.depth \in Frame \cup {None} /\ c.age \in 0 .. Timeout
  BY DEF Call
<1>2. c.rgb.scene.seen \subseteq Sides
  BY <1>1, RobotAssumption DEF Frame
<1>3. ASSUME NEW s \in Sides
      PROVE  (IF c.depth = None THEN 0 ELSE c.depth.scene.z[s]) \in Nat
  <2>1. CASE c.depth = None
    BY <2>1
  <2>2. CASE c.depth # None
    <3>1. c.depth.scene \in [seen : SUBSET Sides, z : [Sides -> Nat]]
      BY <1>1, <2>2, RobotAssumption DEF Frame
    <3> QED
      BY <2>2, <3>1
  <2> QED
    BY <2>1, <2>2
<1>4. Detected(c) \subseteq [side : Sides, z : Nat]
  BY <1>2, <1>3 DEF Detected
<1> QED
  BY <1>1, <1>4 DEF Messages

----------------------------------------------------------------------------
(* The steps of the node *)

(* The first state: no image, no call, the last frame long ago. *)
LEMMA InitNodeInv == Init => NodeInv
<1> SUFFICES ASSUME Init PROVE NodeInv
  OBVIOUS
<1>1. ImageInv /\ CallInv /\ TopicInv
  BY DEF Init, ImageInv, CallInv, TopicInv
<1>2. ClockInv
  BY NodeConstants DEF Init, ClockInv
<1>3. FlagInv /\ due = FALSE
  BY DEF Init, FlagInv
<1>4. BusyInv /\ CallOnGrid /\ BlindInv
  BY DEF Init, BusyInv, CallOnGrid, BlindInv
<1>5. LimitInv /\ IdleInv
  BY <1>3, NodeConstants DEF Init, LimitInv, IdleInv
<1> QED
  BY <1>1, <1>2, <1>3, <1>4, <1>5 DEF NodeInv

(* What the passing of time does to the clocks of the node. *)
LEMMA PassFacts ==
    ASSUME NodeInv, Waits, Pass
    PROVE  /\ phase' = IF phase + 1 = MinDt THEN 0 ELSE phase + 1
           /\ due' = (due \/ phase' = 0)
           /\ call = None => ~due /\ call' = None
           /\ call # None => /\ call' # None /\ call' \in Call
                             /\ call.age \in Nat /\ call'.age = call.age + 1
           /\ rgb' = None <=> rgb = None
           /\ sinceSent' = Lesser(sinceSent + 1, MinDt + 1)
           /\ sinceCall' = Lesser(sinceCall + 1, MinDt)
           /\ idle' = IF call = None /\ rgb # None THEN Lesser(idle + 1, 2 * MinDt) ELSE 0
<1>1. phase' = IF phase + 1 = MinDt THEN 0 ELSE phase + 1
  BY NodeConstants, GridStep DEF Pass, NodeInv, ClockInv
<1>2. /\ due' = (due \/ phase' = 0)
      /\ call = None => ~due /\ call' = None
  BY DEF Pass, Waits
<1>3. ASSUME call # None
      PROVE  call' # None /\ call' \in Call /\ call.age \in Nat /\ call'.age = call.age + 1
  <2>1. call \in Call /\ call.age < Timeout
    BY <1>3 DEF NodeInv, CallInv, Waits
  <2>2. call' = [call EXCEPT !.age = @ + 1]
    BY <1>3 DEF Pass
  <2>3. call.age \in Nat
    BY <2>1, NodeConstants DEF Call
  <2> QED
    BY <2>1, <2>2, <2>3, OlderCall, NodeConstants
<1>4. rgb' = None <=> rgb = None
  BY OlderFrame DEF Pass, NodeInv, ImageInv
<1> QED
  BY <1>1, <1>2, <1>3, <1>4 DEF Pass

(* Images stay images. *)
LEMMA ImageStep == NodeInv /\ [Next]_vars => ImageInv'
<1> SUFFICES ASSUME NodeInv, [Next]_vars PROVE ImageInv'
  OBVIOUS
<1> USE DEF NodeInv, ImageInv, cameraVars, inputVars
<1>1. CASE DeliverRgb \/ DeliverDepth
  <2>1. Image \in Frame
    BY NodeConstants DEF Image, Frame
  <2> QED
    BY <1>1, <2>1 DEF DeliverRgb, DeliverDepth
<1>2. CASE RgbCallback \/ DepthCallback
  BY <1>2 DEF RgbCallback, DepthCallback
<1>3. CASE Tick
  BY <1>3, OlderFrame DEF Tick, Pass
<1>4. CASE TickReturns \/ TickSends \/ CallReturns \/ CallFails \/ Taken \/ UNCHANGED vars
  BY <1>4 DEF TickReturns, TickSends, CallReturns, CallFails, Taken, vars
<1> QED
  BY <1>1, <1>2, <1>3, <1>4 DEF Next, NodeNext

(* A call is made with an image, and its answer is a message. *)
LEMMA CallStep == NodeInv /\ [Next]_vars => CallInv' /\ TopicInv' /\ FlagInv'
<1> SUFFICES ASSUME NodeInv, [Next]_vars PROVE CallInv' /\ TopicInv' /\ FlagInv'
  OBVIOUS
<1>1. CASE TickSends
  <2>1. rgb \in Frame /\ depth \in Frame \cup {None}
    BY <1>1 DEF TickSends, NodeInv, ImageInv
  <2>2. [rgb |-> rgb, depth |-> depth, age |-> 0] \in Call
    BY <2>1, NodeConstants DEF Call
  <2> QED
    BY <1>1, <2>2 DEF TickSends, NodeInv, CallInv, TopicInv, FlagInv
<1>2. CASE CallReturns
  <2>1. call \in Call
    BY <1>2 DEF CallReturns, NodeInv, CallInv
  <2>2. detections' \in Seq(Messages)
    BY <1>2, <2>1, AnswerIsMessage DEF CallReturns, NodeInv, TopicInv
  <2> QED
    BY <1>2, <2>2 DEF CallReturns, NodeInv, CallInv, TopicInv, FlagInv, timerVars
<1>3. CASE Tick
  <2>1. call' \in Call \cup {None}
    BY <1>3, PassFacts DEF Tick
  <2>2. detections' = detections /\ due' \in BOOLEAN
    BY <1>3 DEF Tick, Pass
  <2> QED
    BY <2>1, <2>2 DEF NodeInv, CallInv, TopicInv, FlagInv
<1>4. CASE Taken
  BY <1>4 DEF Taken, NodeInv, CallInv, TopicInv, FlagInv, timerVars
<1>5. CASE CallFails
  BY <1>5 DEF CallFails, NodeInv, CallInv, TopicInv, FlagInv, timerVars
<1>6. CASE TickReturns
  BY <1>6 DEF TickReturns, NodeInv, CallInv, TopicInv, FlagInv
<1>7. CASE DeliverRgb \/ DeliverDepth \/ RgbCallback \/ DepthCallback \/ UNCHANGED vars
  <2>1. UNCHANGED <<call, detections, due>>
    BY <1>7 DEF DeliverRgb, DeliverDepth, RgbCallback, DepthCallback, vars, timerVars
  <2> QED
    BY <2>1 DEF NodeInv, CallInv, TopicInv, FlagInv
<1> QED
  BY <1>1, <1>2, <1>3, <1>4, <1>5, <1>6, <1>7 DEF Next, NodeNext

(* The clocks, action by action: a call starts two of them, its answer sets the
   third, and time moves all. *)
LEMMA ClockStep ==
    NodeInv /\ [Next]_vars =>
        ClockInv' /\ BusyInv' /\ CallOnGrid' /\ BlindInv' /\ LimitInv' /\ IdleInv'
<1> SUFFICES ASSUME NodeInv, [Next]_vars
             PROVE  ClockInv' /\ BusyInv' /\ CallOnGrid' /\ BlindInv' /\ LimitInv' /\ IdleInv'
  OBVIOUS
<1> USE DEF NodeInv
<1>1. CASE DeliverRgb \/ DeliverDepth \/ DepthCallback \/ Taken \/ UNCHANGED vars
  <2>1. UNCHANGED <<rgb, phase, due, sinceSent, call, sinceCall, idle>>
    BY <1>1 DEF DeliverRgb, DeliverDepth, DepthCallback, Taken, vars, timerVars, inputVars
  <2> QED
    BY <2>1 DEF ClockInv, BusyInv, CallOnGrid, BlindInv, LimitInv, IdleInv
<1>2. CASE RgbCallback
  <2>1. UNCHANGED <<phase, due, sinceSent, call, sinceCall, idle>> /\ rgb' # None
    BY <1>2 DEF RgbCallback, timerVars
  <2> QED
    BY <2>1 DEF ClockInv, BusyInv, CallOnGrid, BlindInv, LimitInv, IdleInv
<1>3. CASE TickReturns
  <2>1. /\ UNCHANGED <<rgb, phase, sinceSent, call, sinceCall, idle>>
        /\ due' = FALSE /\ call = None
    BY <1>3 DEF TickReturns, inputVars
  <2>2. idle < MinDt
    <3>1. CASE rgb = None
      BY <3>1, NodeConstants DEF BlindInv
    <3>2. CASE sinceSent < MinDt
      BY <3>2, NodeConstants DEF LimitInv, ClockInv
    <3> QED
      BY <1>3, <3>1, <3>2 DEF TickReturns, TooSoon
  <2>3. idle' < MinDt + phase'
    BY <2>1, <2>2, NodeConstants DEF ClockInv
  <2>4. IdleInv'
    BY <2>1, <2>3 DEF IdleInv
  <2> QED
    BY <2>1, <2>4 DEF ClockInv, BusyInv, CallOnGrid, BlindInv, LimitInv
<1>4. CASE TickSends
  <2>1. /\ UNCHANGED <<rgb, phase, sinceSent>> /\ due' = FALSE /\ rgb # None
        /\ sinceCall' = 0 /\ idle' = 0 /\ call'.age = 0 /\ ~(sinceSent < MinDt)
    BY <1>4 DEF TickSends, inputVars, TooSoon
  <2>2. ClockInv'
    BY <2>1, NodeConstants DEF ClockInv
  <2>3. BusyInv' /\ LimitInv'
    BY <2>1, NodeConstants DEF BusyInv, LimitInv, ClockInv
  <2>4. 0 <= phase' /\ 0 < MinDt + phase'
    BY <2>1, NodeConstants DEF ClockInv
  <2>5. CallOnGrid' /\ IdleInv' /\ BlindInv'
    BY <2>1, <2>4 DEF CallOnGrid, IdleInv, BlindInv
  <2> QED
    BY <2>2, <2>3, <2>5
<1>5. CASE CallReturns
  <2>1. /\ UNCHANGED <<rgb, phase, due, sinceCall, idle>> /\ call' = None
        /\ sinceSent' = Lesser(call.age, MinDt + 1) /\ call # None
    BY <1>5 DEF CallReturns, timerVars, inputVars
  <2>2. call.age \in Nat /\ idle = 0
    BY <2>1, NodeConstants DEF CallInv, Call, BusyInv
  <2>3. sinceSent' \in 0 .. MinDt + 1
    BY <2>1, <2>2, NodeConstants DEF Lesser
  <2>4. ClockInv' /\ LimitInv'
    BY <2>1, <2>2, <2>3 DEF ClockInv, LimitInv
  <2>5. BusyInv' /\ CallOnGrid' /\ BlindInv' /\ IdleInv'
    BY <2>1 DEF BusyInv, CallOnGrid, BlindInv, IdleInv
  <2> QED
    BY <2>4, <2>5
<1>6. CASE CallFails
  <2>1. UNCHANGED <<rgb, phase, due, sinceSent, sinceCall, idle>> /\ call' = None
    BY <1>6 DEF CallFails, timerVars, inputVars
  <2> QED
    BY <2>1 DEF ClockInv, BusyInv, CallOnGrid, BlindInv, LimitInv, IdleInv
<1>7. CASE Tick
  <2> USE NodeConstants
  <2>1. Waits /\ Pass
    BY <1>7 DEF Tick
  <2>2. /\ sinceSent' \in 0 .. MinDt + 1 /\ sinceCall' \in 0 .. MinDt
        /\ sinceSent' = sinceSent + 1 \/ sinceSent' = MinDt + 1
    BY <2>1, PassFacts DEF ClockInv, Lesser
  <2>3. idle' \in 0 .. 2 * MinDt /\ idle' <= idle + 1
    BY <2>1, PassFacts DEF ClockInv, Lesser
  <2>4. phase' \in 0 .. MinDt - 1
    BY <2>1, PassFacts DEF ClockInv
  <2>5. ClockInv'
    BY <2>2, <2>3, <2>4 DEF ClockInv
  <2>6. BusyInv'
    BY <2>1, <2>2, PassFacts DEF BusyInv, ClockInv
  <2>7. CallOnGrid'
    <3> SUFFICES ASSUME call' # None, ~due' PROVE call'.age <= phase'
      BY DEF CallOnGrid
    <3>1. ~due /\ phase' # 0 /\ call # None
      BY <2>1, PassFacts
    <3>2. phase' = phase + 1 /\ call.age <= phase /\ call'.age = call.age + 1 /\ call.age \in Nat
      BY <2>1, <3>1, PassFacts DEF CallOnGrid
    <3> QED
      BY <3>2 DEF ClockInv
  <2>8. BlindInv'
    BY <2>1, PassFacts DEF BlindInv
  <2>9. LimitInv'
    BY <2>2, <2>3 DEF LimitInv, ClockInv
  <2>10. IdleInv'
    <3>1. CASE idle' = 0
      <4>1. 0 < 2 * MinDt /\ 0 < MinDt + phase'
        <5>1. phase' \in Nat
          BY <2>4
        <5>2. \A p \in Nat : 0 < MinDt + p
          OBVIOUS
        <5> QED
          BY <5>1, <5>2
      <4>2. CASE due'
        BY <3>1, <4>1, <4>2 DEF IdleInv
      <4>3. CASE ~due'
        BY <3>1, <4>1, <4>3 DEF IdleInv
      <4> QED
        BY <4>2, <4>3
    <3>2. CASE idle' # 0
      <4>1. call = None /\ ~due
        BY <3>2, <2>1, PassFacts
      <4>2. idle < MinDt + phase /\ due' = (phase' = 0)
        BY <4>1, <2>1, PassFacts DEF IdleInv
      <4>3. phase' = 0 => idle' < 2 * MinDt
        BY <4>2, <2>3 DEF ClockInv
      <4>4. phase' # 0 => idle' < MinDt + phase'
        BY <4>2, <2>1, <2>3, PassFacts DEF ClockInv
      <4> QED
        BY <4>2, <4>3, <4>4 DEF IdleInv
    <3> QED
      BY <3>1, <3>2
  <2> QED
    BY <2>5, <2>6, <2>7, <2>8, <2>9, <2>10
<1> QED
  BY <1>1, <1>2, <1>3, <1>4, <1>5, <1>6, <1>7 DEF Next, NodeNext

(* Every step of the node keeps the invariant. *)
LEMMA NextNodeInv == NodeInv /\ [Next]_vars => NodeInv'
BY ImageStep, CallStep, ClockStep DEF NodeInv

(* The invariant is the type invariant and more, and bounds the wait. *)
LEMMA NodeInvImplies == NodeInv => TypeOK /\ NeverStarves
<1> SUFFICES ASSUME NodeInv PROVE TypeOK /\ NeverStarves
  OBVIOUS
<1>1. TypeOK
  <2>1. {rgbIn, depthIn, rgb, depth} \subseteq Frame \cup {None}
    BY DEF NodeInv, ImageInv
  <2> QED
    BY <2>1, Zenon DEF NodeInv, ImageInv, ClockInv, CallInv, TopicInv, FlagInv, Messages, TypeOK
<1>2. NeverStarves
  <2>1. CASE due
    BY <2>1 DEF NodeInv, IdleInv, NeverStarves
  <2>2. CASE ~due
    <3>1. idle < MinDt + phase
      BY <2>2 DEF NodeInv, IdleInv
    <3> QED
      BY <3>1, NodeConstants DEF NodeInv, ClockInv, NeverStarves
  <2> QED
    BY <2>1, <2>2
<1> QED
  BY <1>1, <1>2

----------------------------------------------------------------------------
(* Theorems about the node alone *)

(* The callbacks of RobotNode keep the invariant. *)
THEOREM NodeInvariance == Spec => []NodeInv
<1>1. Init => NodeInv
  BY InitNodeInv
<1>2. NodeInv /\ [Next]_vars => NodeInv'
  BY NextNodeInv
<1> QED
  BY <1>1, <1>2, PTL DEF Spec

(* Images, calls, messages and clocks stay in their types: no call outlives its
   timeout and no clock passes its bound. *)
THEOREM NodeTyping == Spec => []TypeOK
<1>1. NodeInv => TypeOK
  BY NodeInvImplies
<1> QED
  BY <1>1, NodeInvariance, PTL

(* Whatever the frame rate and the timeout, a node with an image never goes two
   periods of its timer without a call. *)
THEOREM NodeNeverStarves == Spec => []NeverStarves
<1>1. NodeInv => NeverStarves
  BY NodeInvImplies
<1> QED
  BY <1>1, NodeInvariance, PTL

----------------------------------------------------------------------------
(* The composition with the avoider *)

(* What is assumed of the constants of the composition, one by one. *)
LEMMA NavConstants ==
    /\ MaxBasis \in Nat /\ MaxFailures \in Nat /\ None \notin Nat
    /\ QueueDepth \in Nat /\ QueueDepth >= 2
BY NavigationAssumption

(* What a step of the avoider does to the topic and to what it has in use. *)
LEMMA AvoiderStepFacts ==
    ASSUME AvoiderStep
    PROVE  /\ UNCHANGED <<nodeVars, failures>>
           /\ \/ /\ detections # <<>> /\ detections' = Tail(detections)
                 /\ basis' = Head(detections).age
              \/ UNCHANGED <<detections, basis>>
<1>1. UNCHANGED <<nodeVars, failures>> /\ Avoider!AvoiderNext
  BY DEF AvoiderStep
<1>2. CASE Avoider!DetectionsCallback
  BY <1>1, <1>2 DEF Avoider!DetectionsCallback
<1>3. CASE Avoider!Cruise \/ Avoider!RecoverySpin \/ Avoider!Steer
  BY <1>1, <1>3 DEF Avoider!Cruise, Avoider!RecoverySpin, Avoider!Steer, Avoider!Stuck,
                    Avoider!ControlLoop, Avoider!inputVars
<1> QED
  BY <1>1, <1>2, <1>3 DEF Avoider!AvoiderNext

(* To the node, the avoider is whoever takes the messages of its topic. *)
LEMMA NavImplementsNode == [NavNext]_navVars => [Next]_vars
<1> SUFFICES ASSUME [NavNext]_navVars PROVE [Next]_vars
  OBVIOUS
<1>1. CASE NodeStep
  BY <1>1 DEF NodeStep, Next, NodeNext
<1>2. CASE NavCallReturns \/ NavCallFails
  BY <1>2 DEF NavCallReturns, NavCallFails, Next, NodeNext
<1>3. CASE AvoiderStep
  BY <1>3, AvoiderStepFacts DEF Next, Taken, vars, nodeVars
<1>4. CASE NavTick
  BY <1>4 DEF NavTick, Avoider!Waits, Next, Tick
<1>5. CASE UNCHANGED navVars
  BY <1>5 DEF navVars, nodeVars, vars
<1> QED
  BY <1>1, <1>2, <1>3, <1>4, <1>5 DEF NavNext

(* The robot node in the composition behaves as it does alone. *)
THEOREM NodeRefinement == SafeSpec => Spec
<1>1. NavInit => Init
  BY DEF NavInit
<1>2. [NavNext]_navVars => [Next]_vars
  BY NavImplementsNode
<1> QED
  BY <1>1, <1>2, PTL DEF SafeSpec, Spec

(* The composition keeps the invariant of the node. *)
LEMMA NavNodeInv == SafeSpec => []NodeInv
BY NodeRefinement, NodeInvariance, PTL

----------------------------------------------------------------------------
(* The inductive invariant of the composition *)

\* How long ago the request was sent whose answer the avoider will have in use
\* once it has taken everything.
Newest == IF detections = <<>> THEN basis ELSE detections[Len(detections)].age

\* A late answer, and that of the call which the timer had waiting: more does not
\* happen in an instant.
QueueInv ==
    /\ Len(detections) <= 2
    /\ call # None /\ detections # <<>> => Len(detections) = 1 /\ ~due
    /\ Len(detections) = 2 => ~due

UseInv ==
    /\ basis \in Nat \cup {None} /\ failures \in 0 .. MaxFailures
    /\ call # None \/ Newest # None => rgb # None

\* How old what is in use may be when a call begins, after so many failures.
Reach(failed) == Greater(Timeout, 2 * MinDt - 1) + failed * Greater(Timeout, MinDt)

\* A call that is under way began when what is in use was that old at most.
BusyAge ==
    Newest # None /\ failures < MaxFailures /\ call # None => Newest <= Reach(failures) + call.age

\* The timer has expired: the call begins now, unless the limit forbids it.
DueAge ==
    Newest # None /\ failures < MaxFailures /\ call = None /\ due => Newest <= Reach(failures)

\* The timer will expire before what is in use is older than that.
WaitAge ==
    Newest # None /\ failures < MaxFailures /\ call = None /\ ~due =>
        Newest + (MinDt - phase) <= Reach(failures)

\* The limit holds back calls after an answer, and then the answer is in use.
LimitAge ==
    Newest # None /\ call = None /\ sinceSent < MinDt => failures = 0 /\ Newest <= sinceSent

NavInv == NodeInv /\ QueueInv /\ UseInv /\ BusyAge /\ DueAge /\ WaitAge /\ LimitAge

----------------------------------------------------------------------------
(* Lemmas about the bounds *)

(* The bound starts above a call and above two periods. *)
LEMMA ReachStart ==
    /\ Reach(0) \in Nat /\ Reach(0) >= Timeout /\ Reach(0) >= MinDt + MinDt - 1
<1>1. Greater(Timeout, 2 * MinDt - 1) \in Nat /\ Greater(Timeout, MinDt) \in Nat
  BY NodeConstants DEF Greater
<1>2. 0 * Greater(Timeout, MinDt) = 0
  BY <1>1
<1>3. Reach(0) = Greater(Timeout, 2 * MinDt - 1)
  BY <1>1, <1>2 DEF Reach
<1> QED
  BY <1>3, NodeConstants DEF Greater

(* Every failure adds the longer of a timeout and a period. *)
LEMMA ReachGrows ==
    ASSUME NEW f \in Nat
    PROVE  /\ Reach(f) \in Nat /\ Reach(f) >= Timeout
           /\ Reach(f + 1) \in Nat
           /\ Reach(f + 1) >= Reach(f) + Timeout
           /\ Reach(f + 1) >= Reach(f) + MinDt
<1> DEFINE g == Greater(Timeout, MinDt)
           b == Greater(Timeout, 2 * MinDt - 1)
<1>1. g \in Nat /\ g >= Timeout /\ g >= MinDt
  BY NodeConstants DEF Greater
<1>2. b \in Nat /\ b >= Timeout
  BY NodeConstants DEF Greater
<1>3. Reach(f) = b + f * g /\ Reach(f + 1) = b + (f + 1) * g
  BY DEF Reach
<1> HIDE DEF g, b
<1>4. f * g \in Nat /\ (f + 1) * g = f * g + g
  BY <1>1
<1> QED
  BY <1>1, <1>2, <1>3, <1>4, NodeConstants

(* The bound of RequestAgeBounded leaves a call its time. *)
LEMMA RequestAgeIsReach ==
    ASSUME NEW f \in Nat
    PROVE  RequestAge(f) = Reach(f) + Timeout
BY DEF RequestAge, Reach

(* The topic: what is taken leaves the last message, and what is in use after it
   is that message. *)
LEMMA NewestTaken ==
    ASSUME TopicInv, detections # <<>>, detections' = Tail(detections),
           basis' = Head(detections).age
    PROVE  Newest' = Newest
<1>1. detections \in Seq(Messages) /\ Len(detections) \in Nat /\ Len(detections) # 0
  BY DEF TopicInv
<1>2. CASE Len(detections) = 1
  <2>1. detections' = <<>> /\ Head(detections) = detections[Len(detections)]
    BY <1>1, <1>2
  <2> QED
    BY <2>1 DEF Newest
<1>3. CASE Len(detections) # 1
  <2>1. /\ Len(detections') = Len(detections) - 1 /\ detections' # <<>>
        /\ detections'[Len(detections) - 1] = detections[Len(detections)]
    <3>1. PICK n \in Nat : n = Len(detections)
      BY <1>1
    <3>2. n > 1 /\ n - 1 \in 1 .. n - 1 /\ (n - 1) + 1 = n
      BY <3>1, <1>1, <1>3
    <3>3. Tail(detections) \in Seq(Messages) /\ Len(Tail(detections)) = n - 1
      BY <1>1, <3>1
    <3>4. \A k \in 1 .. n - 1 : Tail(detections)[k] = detections[k + 1]
      BY <1>1, <3>1
    <3>5. Tail(detections)[n - 1] = detections[n]
      BY <3>2, <3>4
    <3>6. Tail(detections) # <<>>
      <4>1. Len(Tail(detections)) # 0
        BY <3>2, <3>3
      <4> QED
        BY <4>1
    <3> QED
      BY <3>1, <3>3, <3>5, <3>6
  <2> QED
    BY <2>1 DEF Newest
<1> QED
  BY <1>2, <1>3

(* An answer is the newest message. *)
LEMMA NewestAnswer ==
    ASSUME NodeInv, CallReturns
    PROVE  /\ Newest' = call.age /\ Len(detections') = Len(detections) + 1
           /\ call.age \in 0 .. Timeout /\ call # None
<1>1. call \in Call /\ call # None
  BY DEF CallReturns, NodeInv, CallInv
<1>2. [dets |-> Detected(call), age |-> call.age] \in Messages
  BY <1>1, AnswerIsMessage
<1>3. PICK m \in Messages : m = [dets |-> Detected(call), age |-> call.age]
  BY <1>2
<1>4. detections' = Append(detections, m) /\ detections \in Seq(Messages)
  BY <1>3 DEF CallReturns, NodeInv, TopicInv
<1>5. /\ Len(detections') = Len(detections) + 1 /\ detections' # <<>>
      /\ detections'[Len(detections')] = m
  BY <1>4
<1> QED
  BY <1>1, <1>3, <1>5 DEF Newest, Call

----------------------------------------------------------------------------
(* The steps of the composition *)

\* What the ages depend on, but for the flag of the timer.
ageVars == <<detections, basis, call, phase, sinceSent, failures>>

(* Nothing is in use. *)
LEMMA InitNavInv == NavInit => NavInv
<1> SUFFICES ASSUME NavInit PROVE NavInv
  OBVIOUS
<1>1. Init /\ detections = <<>> /\ basis = None /\ failures = 0 /\ call = None
  BY DEF NavInit, Init, Avoider!Init
<1>2. Newest = None
  BY <1>1 DEF Newest
<1>3. NodeInv
  BY <1>1, InitNodeInv
<1>4. Len(detections) = 0
  BY <1>1
<1>5. QueueInv
  BY <1>1, <1>4 DEF QueueInv
<1>6. UseInv
  BY <1>1, <1>2, NavConstants DEF UseInv
<1> QED
  BY <1>2, <1>3, <1>5, <1>6 DEF NavInv, BusyAge, DueAge, WaitAge, LimitAge

(* What is newest has an age, or nothing is in use. *)
LEMMA NewestAge == NavInv => Newest \in Nat \cup {None}
<1> SUFFICES ASSUME NavInv PROVE Newest \in Nat \cup {None}
  OBVIOUS
<1>1. CASE detections = <<>>
  BY <1>1 DEF Newest, NavInv, UseInv
<1>2. CASE detections # <<>>
  <2>1. detections \in Seq(Messages) /\ Len(detections) \in 1 .. Len(detections)
    BY <1>2 DEF NavInv, NodeInv, TopicInv
  <2>2. detections[Len(detections)] \in Messages
    BY <2>1
  <2>3. detections[Len(detections)].age \in 0 .. Timeout
    BY <2>2 DEF Messages
  <2> QED
    BY <1>2, <2>3, NodeConstants DEF Newest
<1> QED
  BY <1>1, <1>2

(* Images that arrive or are taken change no age. *)
LEMMA ImagesNav ==
    ASSUME NavInv, UNCHANGED <<ageVars, due>>, rgb' # None \/ rgb' = rgb
    PROVE  QueueInv' /\ UseInv' /\ BusyAge' /\ DueAge' /\ WaitAge' /\ LimitAge'
<1>1. Newest' = Newest
  BY DEF Newest, ageVars
<1> QED
  BY <1>1 DEF ageVars, NavInv, QueueInv, UseInv, BusyAge, DueAge, WaitAge, LimitAge

(* A tick that returns early has an image and is too soon after an answer: what
   is in use is younger than a period. *)
LEMMA TickReturnsNav ==
    ASSUME NavInv, TickReturns, UNCHANGED <<basis, failures>>
    PROVE  QueueInv' /\ UseInv' /\ BusyAge' /\ DueAge' /\ WaitAge' /\ LimitAge'
<1>1. /\ UNCHANGED <<detections, basis, call, phase, sinceSent, failures, rgb>>
      /\ due' = FALSE /\ call = None
  BY DEF TickReturns, inputVars
<1>2. Newest' = Newest
  BY <1>1 DEF Newest
<1>3. QueueInv' /\ UseInv' /\ BusyAge' /\ DueAge' /\ LimitAge'
  BY <1>1, <1>2 DEF NavInv, QueueInv, UseInv, BusyAge, DueAge, LimitAge
<1>4. ASSUME Newest # None PROVE Newest + (MinDt - phase) <= Reach(0) /\ failures = 0
  <2>1. rgb # None /\ sinceSent < MinDt
    BY <1>4 DEF NavInv, UseInv, TickReturns, TooSoon
  <2>2. failures = 0 /\ Newest <= sinceSent
    BY <1>1, <1>4, <2>1 DEF NavInv, LimitAge
  <2>3. Newest \in Nat
    BY <1>4, NewestAge
  <2> QED
    BY <2>1, <2>2, <2>3, ReachStart, NodeConstants DEF NavInv, NodeInv, ClockInv
<1>5. WaitAge'
  BY <1>1, <1>2, <1>4 DEF WaitAge
<1> QED
  BY <1>3, <1>5

(* A call begins when what is in use is within reach, and in an instant with at
   most one answer before it. *)
LEMMA TickSendsNav ==
    ASSUME NavInv, TickSends, UNCHANGED <<basis, failures>>
    PROVE  QueueInv' /\ UseInv' /\ BusyAge' /\ DueAge' /\ WaitAge' /\ LimitAge'
<1>1. /\ UNCHANGED <<detections, basis, phase, sinceSent, failures, rgb>>
      /\ due' = FALSE /\ due /\ call = None /\ call'.age = 0
  BY DEF TickSends, inputVars
<1>2. call' # None
  <2>1. call' \in Call
    <3>1. rgb \in Frame /\ depth \in Frame \cup {None}
      BY DEF TickSends, NavInv, NodeInv, ImageInv
    <3>2. [rgb |-> rgb, depth |-> depth, age |-> 0] \in Call
      BY <3>1, NodeConstants DEF Call
    <3> QED
      BY <3>2 DEF TickSends
  <2> QED
    BY <2>1, NodeConstants
<1>3. Newest' = Newest
  BY <1>1 DEF Newest
<1>4. QueueInv'
  <2>1. PICK n \in Nat : n = Len(detections) /\ (n = 0 => detections = <<>>)
    BY DEF NavInv, NodeInv, TopicInv
  <2>2. n <= 2 /\ n # 2
    BY <1>1, <2>1 DEF NavInv, QueueInv
  <2>3. n # 0 => n = 1
    BY <2>2
  <2> QED
    BY <1>1, <2>1, <2>2, <2>3 DEF QueueInv
<1>5. UseInv'
  BY <1>1, <1>3 DEF NavInv, UseInv, TickSends
<1>6. BusyAge'
  <2> SUFFICES ASSUME Newest # None, failures < MaxFailures
               PROVE  Newest <= Reach(failures) + 0
    BY <1>1, <1>3 DEF BusyAge
  <2>1. Newest <= Reach(failures) /\ failures \in Nat
    BY <1>1 DEF NavInv, DueAge, UseInv
  <2> QED
    BY <2>1, ReachGrows
<1>7. DueAge' /\ WaitAge' /\ LimitAge'
  BY <1>2 DEF DueAge, WaitAge, LimitAge
<1> QED
  BY <1>4, <1>5, <1>6, <1>7

(* An answer is in use as old as its call; if the timer has not expired in the
   meantime, the call has been shorter than the time since its last expiry. *)
LEMMA CallReturnsNav ==
    ASSUME NavInv, NavCallReturns
    PROVE  QueueInv' /\ UseInv' /\ BusyAge' /\ DueAge' /\ WaitAge' /\ LimitAge'
<1>1. /\ UNCHANGED <<basis, phase, due, rgb>> /\ failures' = 0 /\ call' = None
      /\ sinceSent' = Lesser(call.age, MinDt + 1)
  BY DEF NavCallReturns, CallReturns, timerVars, inputVars, avoiderVars
<1>2. /\ Newest' = call.age /\ Len(detections') = Len(detections) + 1
      /\ call.age \in 0 .. Timeout /\ call # None
  BY NewestAnswer DEF NavInv, NavCallReturns
<1>3. PICK n \in Nat : n = Len(detections) /\ (n = 0 => detections = <<>>)
  BY DEF NavInv, NodeInv, TopicInv
<1>4. QueueInv'
  <2>1. n = 0 \/ (n = 1 /\ ~due)
    BY <1>2, <1>3 DEF NavInv, QueueInv
  <2>2. Len(detections') <= 2 /\ (Len(detections') = 2 => ~due)
    <3>1. CASE n = 0
      BY <1>2, <1>3, <3>1
    <3>2. CASE n = 1 /\ ~due
      BY <1>2, <1>3, <3>2
    <3> QED
      BY <2>1, <3>1, <3>2
  <2> QED
    BY <1>1, <2>2 DEF QueueInv
<1>5. UseInv'
  <2>1. rgb # None
    BY <1>2 DEF NavInv, UseInv
  <2> QED
    BY <1>1, <2>1, NavConstants DEF NavInv, UseInv
<1>6. BusyAge'
  BY <1>1 DEF BusyAge
<1>7. DueAge'
  <2>1. call.age <= Reach(0)
    BY <1>2, ReachStart, NodeConstants
  <2> QED
    BY <1>1, <1>2, <2>1 DEF DueAge
<1>8. WaitAge'
  <2> SUFFICES ASSUME ~due PROVE call.age + (MinDt - phase) <= Reach(0)
    BY <1>1, <1>2 DEF WaitAge
  <2>1. call.age <= phase
    BY <1>2 DEF NavInv, NodeInv, CallOnGrid
  <2> QED
    BY <1>2, <2>1, ReachStart, NodeConstants DEF NavInv, NodeInv, ClockInv
<1>9. LimitAge'
  <2> SUFFICES ASSUME Lesser(call.age, MinDt + 1) < MinDt
               PROVE  call.age <= Lesser(call.age, MinDt + 1)
    BY <1>1, <1>2 DEF LimitAge
  <2> QED
    BY <1>2, NodeConstants DEF Lesser
<1> QED
  BY <1>4, <1>5, <1>6, <1>7, <1>8, <1>9

(* A failure leaves what is in use as it is, and the next call begins at once or
   before a period has passed since this one began. *)
LEMMA CallFailsNav ==
    ASSUME NavInv, NavCallFails
    PROVE  QueueInv' /\ UseInv' /\ BusyAge' /\ DueAge' /\ WaitAge' /\ LimitAge'
<1>1. /\ UNCHANGED <<detections, basis, phase, due, rgb, sinceSent>>
      /\ failures' = (IF failures < MaxFailures THEN failures + 1 ELSE failures)
      /\ call # None /\ call' = None
  BY DEF NavCallFails, CallFails, timerVars, inputVars, avoiderVars
<1>2. Newest' = Newest
  BY <1>1 DEF Newest
<1>3. QueueInv'
  BY <1>1 DEF NavInv, QueueInv
<1>4. failures \in 0 .. MaxFailures /\ failures' \in 0 .. MaxFailures
  BY <1>1, NavConstants DEF NavInv, UseInv
<1>5. UseInv'
  BY <1>1, <1>2, <1>4 DEF NavInv, UseInv
<1>6. BusyAge'
  BY <1>1 DEF BusyAge
<1>7. ASSUME Newest # None, failures' < MaxFailures
      PROVE  /\ Newest \in Nat /\ failures' = failures + 1 /\ Newest <= Reach(failures) + call.age
             /\ call.age \in 0 .. Timeout
             /\ Reach(failures) \in Nat /\ Reach(failures') \in Nat
             /\ Reach(failures') >= Reach(failures) + Timeout
             /\ Reach(failures') >= Reach(failures) + MinDt
  <2>1. failures < MaxFailures /\ failures' = failures + 1 /\ failures \in Nat
    BY <1>1, <1>4, <1>7, NavConstants
  <2>2. Newest \in Nat
    BY <1>7, NewestAge
  <2>3. Newest <= Reach(failures) + call.age
    BY <1>1, <1>7, <2>1 DEF NavInv, BusyAge
  <2>4. call.age \in 0 .. Timeout
    BY <1>1 DEF NavInv, NodeInv, CallInv, Call
  <2> QED
    BY <2>1, <2>2, <2>3, <2>4, ReachGrows
<1>8. DueAge'
  <2> SUFFICES ASSUME Newest # None, failures' < MaxFailures PROVE Newest <= Reach(failures')
    BY <1>2 DEF DueAge, Reach
  <2> QED
    BY <1>7, NodeConstants
<1>9. WaitAge'
  <2> SUFFICES ASSUME Newest # None, failures' < MaxFailures, ~due
               PROVE  Newest + (MinDt - phase) <= Reach(failures')
    BY <1>1, <1>2 DEF WaitAge, Reach
  <2>1. call.age <= phase
    BY <1>1 DEF NavInv, NodeInv, CallOnGrid
  <2>2. phase \in 0 .. MinDt - 1
    BY DEF NavInv, NodeInv, ClockInv
  <2> QED
    BY <1>7, <2>1, <2>2, NodeConstants
<1>10. LimitAge'
  <2>1. ~(sinceSent < MinDt)
    BY <1>1, NodeConstants DEF NavInv, NodeInv, BusyInv, ClockInv
  <2> QED
    BY <1>1, <2>1 DEF LimitAge
<1> QED
  BY <1>3, <1>5, <1>6, <1>8, <1>9, <1>10

(* The avoider takes messages in their order: the newest stays the newest. *)
LEMMA AvoiderNav ==
    ASSUME NavInv, AvoiderStep
    PROVE  QueueInv' /\ UseInv' /\ BusyAge' /\ DueAge' /\ WaitAge' /\ LimitAge'
<1>1. UNCHANGED <<phase, due, rgb, call, sinceSent, failures>>
  BY AvoiderStepFacts DEF nodeVars, timerVars, inputVars
<1>2. CASE UNCHANGED <<detections, basis>>
  <2>1. UNCHANGED <<ageVars, due>> /\ rgb' = rgb
    BY <1>1, <1>2 DEF ageVars
  <2> QED
    BY <2>1, ImagesNav
<1>3. CASE /\ detections # <<>> /\ detections' = Tail(detections)
           /\ basis' = Head(detections).age
  <2>1. Newest' = Newest
    BY <1>3, NewestTaken DEF NavInv, NodeInv
  <2>2. detections \in Seq(Messages) /\ Len(detections) \in Nat /\ Len(detections) > 0
    BY <1>3 DEF NavInv, NodeInv, TopicInv
  <2>3. Len(detections') = Len(detections) - 1 /\ (Len(detections') = 0 => detections' = <<>>)
    BY <1>3, <2>2
  <2>4. QueueInv'
    <3>1. PICK n \in Nat : n = Len(detections) /\ n <= 2
      BY <2>2 DEF NavInv, QueueInv
    <3>2. n - 1 <= 2 /\ n - 1 # 2
      BY <3>1
    <3>3. Len(detections') <= 2 /\ Len(detections') # 2
      BY <2>3, <3>1, <3>2
    <3>4. call # None => detections' = <<>>
      BY <1>3, <2>2, <2>3 DEF NavInv, QueueInv
    <3> QED
      BY <1>1, <3>3, <3>4 DEF QueueInv
  <2>5. Head(detections) \in Messages
    BY <1>3, <2>2
  <2>6. basis' \in Nat
    BY <1>3, <2>5, NodeConstants DEF Messages
  <2>7. UseInv'
    BY <1>1, <2>1, <2>6 DEF NavInv, UseInv
  <2>8. BusyAge' /\ DueAge' /\ WaitAge' /\ LimitAge'
    BY <1>1, <2>1 DEF NavInv, BusyAge, DueAge, WaitAge, LimitAge
  <2> QED
    BY <2>4, <2>7, <2>8
<1> QED
  BY <1>2, <1>3, AvoiderStepFacts

(* Time makes what is in use older, and the call under way as much; without a
   call it brings the next expiry of the timer as much nearer. *)
LEMMA TimeNav ==
    ASSUME NavInv, NavTick
    PROVE  QueueInv' /\ UseInv' /\ BusyAge' /\ DueAge' /\ WaitAge' /\ LimitAge'
<1> USE NodeConstants
<1>1. /\ NodeInv /\ Waits /\ Pass /\ failures' = failures
      /\ detections = <<>> /\ detections' = <<>>
      /\ basis' = IF basis = None THEN None ELSE Lesser(basis + 1, MaxBasis)
  BY DEF NavTick, NavInv, Pass, Avoider!Waits, Avoider!Pass, Avoider!Aged, Avoider!Lesser, Lesser
<1>2. Newest = basis /\ Newest' = basis'
  BY <1>1 DEF Newest
<1>3. /\ Newest' # None <=> Newest # None
      /\ Newest' # None => Newest \in Nat /\ Newest' \in Nat /\ Newest' <= Newest + 1
  <2>1. CASE basis = None
    BY <1>1, <1>2, <2>1
  <2>2. CASE basis # None
    <3>1. basis \in Nat
      BY <2>2 DEF NavInv, UseInv
    <3>2. basis' = Lesser(basis + 1, MaxBasis)
      BY <1>1, <2>2
    <3>3. basis' \in Nat /\ basis' <= basis + 1
      BY <3>1, <3>2, NavConstants DEF Lesser
    <3> QED
      BY <1>2, <2>2, <3>1, <3>3, NavConstants
  <2> QED
    BY <2>1, <2>2
<1>4. Len(detections') = 0
  BY <1>1
<1>5. QueueInv'
  BY <1>1, <1>4 DEF QueueInv
<1>6. UseInv'
  <2>1. basis' \in Nat \cup {None}
    BY <1>2, <1>3
  <2>2. call' # None <=> call # None
    BY <1>1, PassFacts
  <2>3. rgb' = None <=> rgb = None
    BY <1>1, PassFacts
  <2> QED
    BY <1>1, <1>3, <2>1, <2>2, <2>3 DEF NavInv, UseInv
<1>7. failures \in Nat /\ Reach(failures) \in Nat
  BY ReachGrows, NavConstants DEF NavInv, UseInv
<1>8. BusyAge'
  <2> SUFFICES ASSUME Newest' # None, failures < MaxFailures, call' # None
               PROVE  Newest' <= Reach(failures) + call'.age
    BY <1>1 DEF BusyAge, Reach
  <2>1. call # None /\ call.age \in Nat /\ call'.age = call.age + 1
    BY <1>1, PassFacts
  <2>2. Newest <= Reach(failures) + call.age
    BY <1>3, <2>1 DEF NavInv, BusyAge
  <2> QED
    BY <1>3, <1>7, <2>1, <2>2
<1>9. ASSUME Newest' # None, failures < MaxFailures, call' = None
      PROVE  /\ Newest + (MinDt - phase) <= Reach(failures) /\ due' = (phase' = 0)
             /\ phase \in 0 .. MinDt - 1
             /\ phase' = IF phase + 1 = MinDt THEN 0 ELSE phase + 1
  <2>1. call = None /\ ~due /\ due' = (phase' = 0)
    BY <1>1, <1>9, PassFacts
  <2>2. phase' = IF phase + 1 = MinDt THEN 0 ELSE phase + 1
    BY <1>1, PassFacts
  <2>3. Newest + (MinDt - phase) <= Reach(failures)
    BY <1>3, <1>9, <2>1 DEF NavInv, WaitAge
  <2> QED
    BY <2>1, <2>2, <2>3 DEF NavInv, NodeInv, ClockInv
<1>10. DueAge'
  <2> SUFFICES ASSUME Newest' # None, failures < MaxFailures, call' = None, due'
               PROVE  Newest' <= Reach(failures)
    BY <1>1 DEF DueAge, Reach
  <2>1. phase + 1 = MinDt
    <3>1. phase' = 0
      BY <1>9
    <3>2. phase + 1 # 0
      BY <1>9
    <3> QED
      BY <1>9, <3>1, <3>2
  <2> QED
    BY <1>3, <1>7, <1>9, <2>1
<1>11. WaitAge'
  <2> SUFFICES ASSUME Newest' # None, failures < MaxFailures, call' = None, ~due'
               PROVE  Newest' + (MinDt - phase') <= Reach(failures)
    BY <1>1 DEF WaitAge, Reach
  <2>1. phase' = phase + 1
    BY <1>9
  <2> QED
    BY <1>3, <1>7, <1>9, <2>1
<1>12. LimitAge'
  <2> SUFFICES ASSUME Newest' # None, call' = None, sinceSent' < MinDt
               PROVE  failures = 0 /\ Newest' <= sinceSent'
    BY <1>1 DEF LimitAge
  <2>1. call = None /\ sinceSent' = Lesser(sinceSent + 1, MinDt + 1)
    BY <1>1, PassFacts
  <2>2. sinceSent \in Nat /\ sinceSent' = sinceSent + 1
    BY <2>1 DEF Lesser, NavInv, NodeInv, ClockInv
  <2>3. failures = 0 /\ Newest <= sinceSent
    BY <1>3, <2>1, <2>2 DEF NavInv, LimitAge
  <2> QED
    BY <1>3, <2>2, <2>3
<1> QED
  BY <1>5, <1>6, <1>8, <1>10, <1>11, <1>12

(* Every step of the composition keeps the invariant. *)
LEMMA NextNavInv == NavInv /\ [NavNext]_navVars => NavInv'
<1> SUFFICES ASSUME NavInv, [NavNext]_navVars PROVE NavInv'
  OBVIOUS
<1>1. NodeInv'
  BY NavImplementsNode, NextNodeInv DEF NavInv
<1>2. CASE NodeStep
  <2>1. UNCHANGED <<basis, failures>>
    BY <1>2 DEF NodeStep, avoiderVars
  <2>2. CASE TickReturns
    BY <1>1, <2>1, <2>2, TickReturnsNav DEF NavInv
  <2>3. CASE TickSends
    BY <1>1, <2>1, <2>3, TickSendsNav DEF NavInv
  <2>4. CASE DeliverRgb \/ DeliverDepth \/ RgbCallback \/ DepthCallback
    <3>1. UNCHANGED <<ageVars, due>> /\ (rgb' # None \/ rgb' = rgb)
      BY <2>1, <2>4
         DEF DeliverRgb, DeliverDepth, RgbCallback, DepthCallback, ageVars, timerVars
    <3> QED
      BY <1>1, <3>1, ImagesNav DEF NavInv
  <2> QED
    BY <1>2, <2>2, <2>3, <2>4 DEF NodeStep
<1>3. CASE NavCallReturns
  BY <1>1, <1>3, CallReturnsNav DEF NavInv
<1>4. CASE NavCallFails
  BY <1>1, <1>4, CallFailsNav DEF NavInv
<1>5. CASE AvoiderStep
  BY <1>1, <1>5, AvoiderNav DEF NavInv
<1>6. CASE NavTick
  BY <1>1, <1>6, TimeNav DEF NavInv
<1>7. CASE UNCHANGED navVars
  <2>1. UNCHANGED <<ageVars, due>> /\ rgb' = rgb
    BY <1>7 DEF navVars, nodeVars, avoiderVars, ageVars, timerVars, inputVars
  <2> QED
    BY <1>1, <2>1, ImagesNav DEF NavInv
<1> QED
  BY <1>2, <1>3, <1>4, <1>5, <1>6, <1>7 DEF NavNext

----------------------------------------------------------------------------
(* Theorems about the composition *)

(* Node, avoider and the topic between them keep the invariant. *)
THEOREM NavInvariance == SafeSpec => []NavInv
<1>1. NavInit => NavInv
  BY InitNavInv
<1>2. NavInv /\ [NavNext]_navVars => NavInv'
  BY NextNavInv
<1> QED
  BY <1>1, <1>2, PTL DEF SafeSpec

(* Whatever the frame rate, the timeout and the scenes: the request whose answer
   a command rests on was sent no longer ago than the failed calls since explain.
   How old the images in it were is another matter. *)
THEOREM RequestAgeIsBounded == SafeSpec => []RequestAgeBounded
<1>1. NavInv => RequestAgeBounded
  <2> SUFFICES ASSUME NavInv, detections = <<>>, basis # None, failures < MaxFailures
               PROVE  basis <= RequestAge(failures)
    BY DEF RequestAgeBounded
  <2>1. Newest = basis /\ basis \in Nat /\ failures \in Nat
    BY NavConstants DEF Newest, NavInv, UseInv
  <2>2. /\ RequestAge(failures) = Reach(failures) + Timeout
        /\ Reach(failures) \in Nat
    BY <2>1, ReachGrows, RequestAgeIsReach
  <2>3. CASE call # None
    <3>1. call.age \in 0 .. Timeout
      BY <2>3 DEF NavInv, NodeInv, CallInv, Call
    <3>2. basis <= Reach(failures) + call.age
      BY <2>1, <2>3 DEF NavInv, BusyAge
    <3> QED
      BY <2>1, <2>2, <3>1, <3>2, NodeConstants
  <2>4. CASE call = None /\ due
    <3>1. basis <= Reach(failures)
      BY <2>1, <2>4 DEF NavInv, DueAge
    <3> QED
      BY <2>1, <2>2, <3>1, NodeConstants
  <2>5. CASE call = None /\ ~due
    <3>1. basis + (MinDt - phase) <= Reach(failures) /\ phase \in 0 .. MinDt - 1
      BY <2>1, <2>5 DEF NavInv, WaitAge, NodeInv, ClockInv
    <3> QED
      BY <2>1, <2>2, <3>1, NodeConstants
  <2> QED
    BY <2>3, <2>4, <2>5
<1> QED
  BY <1>1, NavInvariance, PTL

----------------------------------------------------------------------------
(* The avoider in the composition *)

AvoiderAlone == INSTANCE AvoiderProofs WITH phase <- controlPhase, due <- controlDue

(* What the composition assumes of its constants is what the avoider needs. *)
LEMMA AvoiderConstants == Avoider!AvoiderAssumption
<1>1. ControlPeriod \in Nat \ {0} /\ QueueDepth \in Nat \ {0}
  BY NavigationAssumption
<1>2. Messages \subseteq [dets : SUBSET [side : {"left", "centre", "right"}, z : Nat], age : Nat]
  <2> SUFFICES ASSUME NEW m \in Messages
               PROVE  m \in [dets : SUBSET [side : {"left", "centre", "right"}, z : Nat], age : Nat]
    OBVIOUS
  <2>1. Sides \subseteq {"left", "centre", "right"}
    BY NavigationAssumption
  <2>2. [side : Sides, z : Nat] \subseteq [side : {"left", "centre", "right"}, z : Nat]
    BY <2>1
  <2>3. 0 .. Timeout \subseteq Nat
    BY NodeConstants
  <2>4. m \in [dets : SUBSET [side : Sides, z : Nat], age : 0 .. Timeout]
    BY DEF Messages
  <2> HIDE DEF Messages
  <2> QED
    BY <2>2, <2>3, <2>4
<1> QED
  BY <1>1, <1>2, NavigationAssumption DEF Avoider!AvoiderAssumption

(* The robot node is one way for messages to arrive, and never overruns the
   queue of the topic. *)
THEOREM AvoiderRefinement == SafeSpec => Avoider!Spec
<1>1. NavInit => Avoider!Init
  BY DEF NavInit
<1>2. NavInv /\ [NavNext]_navVars => [Avoider!Next]_(Avoider!vars)
  <2> SUFFICES ASSUME NavInv, [NavNext]_navVars PROVE [Avoider!Next]_(Avoider!vars)
    OBVIOUS
  <2> USE DEF Avoider!vars, Avoider!inputVars, Avoider!stuckVars, Avoider!commandVars,
              Avoider!timerVars, avoiderVars
  <2>1. CASE NodeStep
    BY <2>1 DEF NodeStep, DeliverRgb, DeliverDepth, RgbCallback, DepthCallback, TickReturns, TickSends
  <2>2. CASE NavCallReturns
    <3>1. call \in Call
      BY <2>2 DEF NavCallReturns, CallReturns, NavInv, NodeInv, CallInv
    <3>2. \E m \in Messages : detections' = Append(detections, m)
      BY <2>2, <3>1, AnswerIsMessage DEF NavCallReturns, CallReturns
    <3>3. Len(detections) < QueueDepth
      <4>1. PICK n \in Nat : n = Len(detections) /\ (n = 0 => detections = <<>>)
        BY DEF NavInv, NodeInv, TopicInv
      <4>2. n = 0 \/ n = 1
        BY <2>2, <4>1 DEF NavCallReturns, CallReturns, NavInv, QueueInv
      <4> QED
        BY <4>1, <4>2, NavConstants
    <3> QED
      BY <2>2, <3>2, <3>3 DEF NavCallReturns, Avoider!Next, Avoider!Arrives
  <2>3. CASE NavCallFails
    BY <2>3 DEF NavCallFails, CallFails
  <2>4. CASE AvoiderStep
    BY <2>4 DEF AvoiderStep, Avoider!Next
  <2>5. CASE NavTick
    <3>1. detections = <<>> /\ UNCHANGED detections
      BY <2>5 DEF NavTick, Avoider!Waits, Pass
    <3> QED
      BY <2>5, <3>1 DEF NavTick, Avoider!Next, Avoider!Tick
  <2>6. CASE UNCHANGED navVars
    BY <2>6 DEF navVars
  <2> QED
    BY <2>1, <2>2, <2>3, <2>4, <2>5, <2>6 DEF NavNext
<1> QED
  BY <1>1, <1>2, NavInvariance, PTL DEF SafeSpec, Avoider!Spec

(* The avoider of the composition is the one that the proofs are about. *)
LEMMA SameAvoider ==
    /\ Avoider!Init => AvoiderAlone!Init
    /\ [Avoider!Next]_(Avoider!vars) => [AvoiderAlone!Next]_(AvoiderAlone!vars)
BY DEF Avoider!Init, Avoider!Next, Avoider!vars, Avoider!AvoiderNext, Avoider!Arrives,
       Avoider!Tick, Avoider!Waits, Avoider!Pass, Avoider!Cruise, Avoider!RecoverySpin,
       Avoider!Steer, Avoider!Stuck, Avoider!ControlLoop, Avoider!DetectionsCallback,
       Avoider!inputVars, Avoider!stuckVars, Avoider!commandVars, Avoider!timerVars,
       Avoider!Command, Avoider!Lesser, Avoider!Aged, Avoider!From, Avoider!Publish,
       Avoider!Close, Avoider!Nearest, AvoiderAlone!Init, AvoiderAlone!Next,
       AvoiderAlone!vars, AvoiderAlone!AvoiderNext, AvoiderAlone!Arrives,
       AvoiderAlone!Tick, AvoiderAlone!Waits, AvoiderAlone!Pass, AvoiderAlone!Cruise,
       AvoiderAlone!RecoverySpin, AvoiderAlone!Steer, AvoiderAlone!Stuck,
       AvoiderAlone!ControlLoop, AvoiderAlone!DetectionsCallback,
       AvoiderAlone!inputVars, AvoiderAlone!stuckVars, AvoiderAlone!commandVars,
       AvoiderAlone!timerVars, AvoiderAlone!Command, AvoiderAlone!Lesser,
       AvoiderAlone!Aged, AvoiderAlone!From, AvoiderAlone!Publish, AvoiderAlone!Close,
       AvoiderAlone!Nearest

(* So the robot in front of its camera never steers for longer than the recovery
   timeout and one control period. *)
THEOREM RobotSteeringEnds == SafeSpec => []Avoider!SteeringEnds
<1>1. AvoiderAlone!Spec => []AvoiderAlone!SteeringEnds
  BY AvoiderConstants, AvoiderAlone!SteeringIsBounded DEF Avoider!AvoiderAssumption
<1>2. AvoiderAlone!SteeringEnds => Avoider!SteeringEnds
  BY DEF AvoiderAlone!SteeringEnds, Avoider!SteeringEnds
<1> QED
  BY <1>1, <1>2, SameAvoider, AvoiderRefinement, PTL DEF Avoider!Spec, AvoiderAlone!Spec

(* And it goes from cruising to avoiding, never into the spin. *)
THEOREM RobotCruiseThenAvoid == SafeSpec => Avoider!CruiseThenAvoid
<1>1. AvoiderAlone!Spec => AvoiderAlone!CruiseThenAvoid
  BY AvoiderConstants, AvoiderAlone!CruiseComesBeforeAvoiding DEF Avoider!AvoiderAssumption
<1>2. [cmd # None /\ cmd.linear = "cruise" => ~in_recovery']_(AvoiderAlone!vars)
        => [cmd # None /\ cmd.linear = "cruise" => ~in_recovery']_(Avoider!vars)
  BY DEF Avoider!vars, Avoider!inputVars, Avoider!stuckVars, Avoider!commandVars, Avoider!timerVars,
         AvoiderAlone!vars, AvoiderAlone!inputVars, AvoiderAlone!stuckVars, AvoiderAlone!commandVars, AvoiderAlone!timerVars
<1> QED
  BY <1>1, <1>2, SameAvoider, AvoiderRefinement, PTL
     DEF Avoider!Spec, AvoiderAlone!Spec, Avoider!CruiseThenAvoid, AvoiderAlone!CruiseThenAvoid
=============================================================================
