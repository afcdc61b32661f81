--------------------------- MODULE DeadlinesProofs ---------------------------
(* Proofs about Deadlines, for any number of robots and any times: two     *)
(* workers to a robot are enough, and a robot has two frames under way at  *)
(* most.                                                                   *)
EXTENDS Deadlines, FiniteSetTheorems, TLAPS

Types ==
  /\ call \in [Robots -> 0..Copies]
  /\ waited \in [Robots -> Nat]
  /\ place \in [Frames -> Places]
  /\ since \in [Frames -> Nat]
  /\ spent \in [Frames -> Nat]
  /\ queue \in Seq(Frames)

(* How long a robot has waited is accounted for by where its frame is.     *)
OnTime(f) ==
  /\ waited[f[1]] <= Timeout
  /\ \/ place[f] = "travelling" /\ waited[f[1]] <= since[f] /\ since[f] <= Latency
     \/ place[f] = "queued" /\ waited[f[1]] <= Latency /\ since[f] = 0
     \/ place[f] = "upstream" /\ waited[f[1]] <= Latency + since[f] /\ since[f] <= Deadline
     \/ /\ place[f] = "returning" /\ waited[f[1]] <= Latency + spent[f] + since[f]
        /\ since[f] <= Latency

(* A frame whose robot has given up is with the inference server, for the  *)
(* length of that call less one way and of the call after it, or on the    *)
(* way back.                                                               *)
LeftBehind(f) ==
  \/ /\ place[f] = "upstream" /\ since[f] <= Deadline
     /\ waited[f[1]] + Timeout <= since[f] + Latency
  \/ place[f] = "returning" /\ waited[f[1]] <= since[f] /\ since[f] <= Latency

Orphan(f) == place[f] # "none" /\ ~Awaited(f)

FrameInv ==
  /\ \A r \in Robots : call[r] = 0 => waited[r] = 0
  /\ \A f \in Frames : Awaited(f) => OnTime(f)
  /\ \A f \in Frames : Orphan(f) => LeftBehind(f)

OneOrphan == \A f, g \in Frames : Orphan(f) /\ Orphan(g) /\ f[1] = g[1] => f = g

QueueInv ==
  /\ \A i \in 1..Len(queue) : place[queue[i]] = "queued"
  /\ \A i, j \in 1..Len(queue) : queue[i] = queue[j] => i = j
  /\ \A f \in Frames : place[f] = "queued" => \E i \in 1..Len(queue) : queue[i] = f

DInv == Types /\ FrameInv /\ OneOrphan /\ QueueInv

-----------------------------------------------------------------------------
(* Counting.                                                               *)

Active == {f \in Frames : place[f] # "none"}

LEMMA FrameIsPair ==
  ASSUME NEW f \in Frames
  PROVE  f[1] \in Robots /\ f[2] \in 1..Copies /\ f = <<f[1], f[2]>>
BY DEF Frames

LEMMA FrameOf ==
  ASSUME NEW r \in Robots, NEW k \in 1..Copies
  PROVE  \E n \in Frames : n = <<r, k>> /\ n[1] = r /\ n[2] = k
<1>1. <<r, k>> \in Frames
  BY DEF Frames
<1> QED BY <1>1

\* A frame is named by its robot and its number.
LEMMA SameFrame ==
  ASSUME NEW f \in Frames, NEW g \in Frames, f[1] = g[1], f[2] = g[2]
  PROVE  f = g
BY DEF Frames

\* A set of frames with no two of a robot is as small as the set of robots.
LEMMA OnePerRobot ==
  ASSUME NEW S \in SUBSET Frames, \A f, g \in S : f[1] = g[1] => f = g
  PROVE  IsFiniteSet(S) /\ Cardinality(S) <= Cardinality(Robots)
<1> DEFINE robot == [f \in S |-> f[1]]
<1>1. robot \in Injection(S, Robots)
  BY FrameIsPair DEF Injection, IsInjective
<1> QED BY <1>1, DeadlinesAssumption, FS_Injection

LEMMA Singleton ==
  ASSUME NEW S, \A f, g \in S : f = g
  PROVE  IsFiniteSet(S) /\ Cardinality(S) <= 1
<1>1. CASE S = {}
  BY <1>1, FS_EmptySet
<1>2. CASE S # {}
  <2>1. PICK f : f \in S
    BY <1>2
  <2>2. S = {f}
    BY <2>1
  <2>3. IsFiniteSet(S) /\ Cardinality(S) = 1
    BY <2>2, FS_Singleton, Zenon
  <2> QED BY <2>3
<1> QED BY <1>1, <1>2

\* Awaited frames, one per robot, and left ones, one per robot.
LEMMA ActiveBound ==
  ASSUME DInv
  PROVE  IsFiniteSet(Active) /\ Cardinality(Active) <= 2 * Cardinality(Robots)
<1> DEFINE A == {f \in Active : Awaited(f)}
           O == {f \in Active : ~Awaited(f)}
<1>1. IsFiniteSet(A) /\ Cardinality(A) <= Cardinality(Robots)
  <2>1. \A f, g \in A : f[1] = g[1] => f = g
    BY FrameIsPair DEF Active, Awaited
  <2> QED BY <2>1, OnePerRobot DEF Active
<1>2. IsFiniteSet(O) /\ Cardinality(O) <= Cardinality(Robots)
  <2>1. \A f, g \in O : f[1] = g[1] => f = g
    BY DEF DInv, OneOrphan, Orphan, Active
  <2> QED BY <2>1, OnePerRobot DEF Active
<1>3. Active = A \cup O
  OBVIOUS
<1>4. /\ IsFiniteSet(A \cup O)
      /\ Cardinality(A \cup O) = Cardinality(A) + Cardinality(O) - Cardinality(A \cap O)
  BY <1>1, <1>2, FS_Union
<1>5. /\ Cardinality(A) \in Nat /\ Cardinality(O) \in Nat
      /\ Cardinality(A \cap O) \in Nat /\ Cardinality(Robots) \in Nat
  BY <1>1, <1>2, FS_Intersection, FS_CardinalityType, DeadlinesAssumption
<1> HIDE DEF A, O
<1> QED BY <1>1, <1>2, <1>3, <1>4, <1>5

\* Beside a waiting task there is a free worker.
LEMMA WorkerFree ==
  ASSUME DInv, queue # <<>>
  PROVE  Cardinality(In("upstream")) < Workers
<1> DEFINE U == In("upstream")
           h == queue[1]
<1>1. h \in Frames /\ place[h] = "queued"
  BY DEF DInv, Types, QueueInv
<1>2. h \in Active /\ h \notin U /\ U \cup {h} \subseteq Active
  BY <1>1 DEF In, Active
<1>3. IsFiniteSet(U) /\ IsFiniteSet(U \cup {h})
  BY <1>2, ActiveBound, FS_Subset
<1>4. Cardinality(U \cup {h}) = Cardinality(U) + 1
  BY <1>2, <1>3, FS_AddElement
<1>5. Cardinality(U \cup {h}) <= Cardinality(Active)
  BY <1>2, ActiveBound, FS_Subset
<1>6. Cardinality(U) \in Nat /\ Cardinality(Active) \in Nat /\ Cardinality(Robots) \in Nat
  BY <1>3, ActiveBound, FS_CardinalityType, DeadlinesAssumption
<1> HIDE DEF U, h
<1>7. Cardinality(U) < Workers
  BY <1>4, <1>5, <1>6, ActiveBound, DeadlinesAssumption
<1> QED BY <1>7 DEF U

-----------------------------------------------------------------------------
(* The invariant.                                                          *)

LEMMA InitDInv == Init => DInv
<1> SUFFICES ASSUME Init PROVE DInv
  OBVIOUS
<1> USE DEF Init
<1>1. Types
  BY DeadlinesAssumption DEF Types, Places
<1>2. \A f \in Frames : ~Awaited(f) /\ ~Orphan(f)
  BY FrameIsPair DEF Awaited, Orphan
<1>3. FrameInv /\ OneOrphan
  BY <1>2 DEF FrameInv, OneOrphan
<1>4. QueueInv
  BY DEF QueueInv
<1> QED BY <1>1, <1>3, <1>4 DEF DInv

LEMMA SendStep == ASSUME DInv, NEW r \in Robots, Send(r) PROVE DInv'
<1> USE DEF DInv, Moves, Awaited
<1>0. PICK k \in 1..Copies :
        /\ place[<<r, k>>] = "none"
        /\ place' = [place EXCEPT ![<<r, k>>] = "travelling"]
        /\ since' = [since EXCEPT ![<<r, k>>] = 0]
        /\ call' = [call EXCEPT ![r] = k]
  BY DEF Send
<1>a. PICK n \in Frames : n = <<r, k>> /\ n[1] = r /\ n[2] = k
  BY FrameOf
<1>1. /\ n[1] = r /\ n[2] = k /\ place[n] = "none"
      /\ place' = [place EXCEPT ![n] = "travelling"]
      /\ since' = [since EXCEPT ![n] = 0]
      /\ call' = [call EXCEPT ![r] = k]
  BY <1>0, <1>a, Zenon
<1>2. call[r] = 0 /\ waited' = waited /\ spent' = spent /\ queue' = queue
  BY DEF Send
<1>3. Types'
  BY <1>1, <1>2, DeadlinesAssumption DEF Types, Places
<1>4. \A f \in Frames :
        f # n => /\ place'[f] = place[f] /\ since'[f] = since[f]
                 /\ (call'[f[1]] = f[2]) <=> (call[f[1]] = f[2])
  <2> TAKE f \in Frames
  <2> HAVE f # n
  <2>1. f[1] # r \/ f[2] # k
    BY <1>1, SameFrame
  <2>2. f[1] \in Robots /\ f[2] # 0
    BY FrameIsPair
  <2> QED BY <1>1, <1>2, <2>1, <2>2 DEF Types
<1>5. place'[n] = "travelling" /\ since'[n] = 0 /\ call'[n[1]] = n[2]
  BY <1>1 DEF Types
<1>6. FrameInv'
  <2>1. \A q \in Robots : call'[q] = 0 => waited'[q] = 0
    BY <1>1, <1>2 DEF Types, FrameInv
  <2>2. waited[r] = 0
    BY <1>2 DEF FrameInv
  <2>3. OnTime(n)'
    BY <1>1, <1>2, <1>5, <2>2, DeadlinesAssumption DEF OnTime
  <2>4. ASSUME NEW f \in Frames, call'[f[1]] = f[2]
        PROVE  OnTime(f)'
    <3>1. CASE f # n
      <4>1. OnTime(f)
        BY <1>4, <2>4, <3>1 DEF FrameInv
      <4> QED BY <1>2, <1>4, <3>1, <4>1 DEF OnTime
    <3> QED BY <2>3, <3>1
  <2>5. ASSUME NEW f \in Frames, Orphan(f)'
        PROVE  LeftBehind(f)'
    <3>1. f # n
      BY <1>5, <2>5 DEF Orphan
    <3>2. LeftBehind(f)
      BY <1>4, <2>5, <3>1 DEF Orphan, FrameInv
    <3> QED BY <1>2, <1>4, <3>1, <3>2 DEF LeftBehind
  <2> QED BY <2>1, <2>4, <2>5 DEF FrameInv
<1>7. OneOrphan'
  <2>1. \A f \in Frames : Orphan(f)' => Orphan(f)
    BY <1>4, <1>5 DEF Orphan
  <2> QED BY <2>1 DEF OneOrphan
<1>8. QueueInv'
  BY <1>1, <1>2, <1>4, <1>5 DEF QueueInv, Types
<1> QED BY <1>3, <1>6, <1>7, <1>8

\* Had the robot left a frame behind before, it would be gone by now.
LEMMA GivesUpStep == ASSUME DInv, NEW r \in Robots, GivesUp(r) PROVE DInv'
<1> USE DEF DInv, Awaited
<1>1. /\ call[r] # 0 /\ waited[r] = Timeout
      /\ call' = [call EXCEPT ![r] = 0] /\ waited' = [waited EXCEPT ![r] = 0]
      /\ place' = place /\ since' = since /\ spent' = spent /\ queue' = queue
  BY DEF GivesUp
<1>2. PICK n \in Frames : n[1] = r /\ n[2] = call[r]
  <2>1. call[r] \in 1..Copies
    BY <1>1, DeadlinesAssumption DEF Types
  <2> QED BY <2>1, FrameOf
<1>3. Types'
  BY <1>1, DeadlinesAssumption DEF Types
<1>4. \A f \in Frames : f[1] # r => /\ waited'[f[1]] = waited[f[1]]
                                    /\ call'[f[1]] = call[f[1]]
  BY <1>1, FrameIsPair DEF Types
<1>5. \A f \in Frames : f[1] = r => waited'[f[1]] = 0 /\ call'[f[1]] # f[2]
  BY <1>1, FrameIsPair DEF Types
<1>6. \A f \in Frames : f[1] = r /\ f # n => place[f] = "none"
  <2> SUFFICES ASSUME NEW f \in Frames, f[1] = r, f # n, place[f] # "none"
               PROVE  FALSE
    OBVIOUS
  <2>1. call[f[1]] # f[2]
    BY <1>2, SameFrame
  <2>2. LeftBehind(f)
    BY <2>1 DEF Orphan, FrameInv
  <2>3. since[f] \in Nat
    BY DEF Types
  <2> QED BY <1>1, <2>2, <2>3, DeadlinesAssumption DEF LeftBehind
<1>7. LeftBehind(n)'
  <2>1. OnTime(n)
    BY <1>2 DEF FrameInv
  <2>2. since[n] \in Nat /\ spent[n] \in Nat
    BY <1>2 DEF Types
  <2>3. place[n] \in {"upstream", "returning"} /\ waited[n[1]] = Timeout
    BY <1>1, <1>2, <2>1, <2>2, DeadlinesAssumption DEF OnTime
  <2> QED BY <1>1, <1>2, <1>5, <2>1, <2>2, <2>3, DeadlinesAssumption DEF OnTime, LeftBehind
<1>8. FrameInv'
  <2>1. \A q \in Robots : call'[q] = 0 => waited'[q] = 0
    BY <1>1 DEF Types, FrameInv
  <2>2. \A f \in Frames : call'[f[1]] = f[2] => OnTime(f)'
    BY <1>1, <1>4, <1>5 DEF FrameInv, OnTime
  <2>3. ASSUME NEW f \in Frames, Orphan(f)' PROVE LeftBehind(f)'
    <3>1. CASE f[1] # r
      BY <1>1, <1>4, <2>3, <3>1 DEF FrameInv, Orphan, LeftBehind
    <3>2. CASE f = n
      BY <1>7, <3>2
    <3>3. CASE f[1] = r /\ f # n
      BY <1>1, <1>6, <2>3, <3>3 DEF Orphan
    <3> QED BY <3>1, <3>2, <3>3
  <2> QED BY <2>1, <2>2, <2>3 DEF FrameInv
<1>9. OneOrphan'
  BY <1>1, <1>2, <1>4, <1>6 DEF OneOrphan, Orphan
<1>10. QueueInv'
  BY <1>1 DEF QueueInv
<1> QED BY <1>3, <1>8, <1>9, <1>10

LEMMA EnqueueStep == ASSUME DInv, NEW n \in Frames, Enqueue(n) PROVE DInv'
<1> USE DEF DInv, Moves, Awaited
<1>1. /\ place[n] = "travelling"
      /\ place' = [place EXCEPT ![n] = "queued"] /\ since' = [since EXCEPT ![n] = 0]
      /\ queue' = Append(queue, n)
      /\ call' = call /\ waited' = waited /\ spent' = spent
  BY DEF Enqueue
<1>2. Types'
  BY <1>1 DEF Types, Places
<1>3. \A f \in Frames : f # n => place'[f] = place[f] /\ since'[f] = since[f]
  BY <1>1 DEF Types
<1>4. place'[n] = "queued" /\ since'[n] = 0
  BY <1>1 DEF Types
<1>5. call[n[1]] = n[2] /\ OnTime(n)'
  <2>1. call[n[1]] = n[2]
    BY <1>1 DEF FrameInv, Orphan, LeftBehind
  <2>2. OnTime(n) /\ waited[n[1]] \in Nat /\ since[n] \in Nat
    BY <2>1, FrameIsPair DEF FrameInv, Types
  <2> QED BY <1>1, <1>4, <2>1, <2>2, DeadlinesAssumption DEF OnTime
<1>6. FrameInv'
  <2>1. ASSUME NEW f \in Frames, f # n
        PROVE  /\ call[f[1]] = f[2] => OnTime(f)'
               /\ Orphan(f)' => LeftBehind(f)'
    <3>1. call[f[1]] = f[2] => OnTime(f)'
      BY <1>1, <1>3, <2>1 DEF FrameInv, OnTime
    <3>2. Orphan(f)' => LeftBehind(f)'
      BY <1>1, <1>3, <2>1 DEF FrameInv, Orphan, LeftBehind
    <3> QED BY <3>1, <3>2
  <2>2. ~Orphan(n)'
    BY <1>1, <1>5 DEF Orphan
  <2> QED BY <1>1, <1>5, <2>1, <2>2 DEF FrameInv
<1>7. OneOrphan'
  <2>1. \A f \in Frames : Orphan(f)' => Orphan(f)
    BY <1>1, <1>3, <1>5 DEF Orphan
  <2> QED BY <2>1 DEF OneOrphan
<1>8. QueueInv'
  <2>1. /\ Len(queue') = Len(queue) + 1 /\ queue'[Len(queue) + 1] = n
        /\ \A i \in 1..Len(queue) : queue'[i] = queue[i] /\ queue[i] \in Frames
        /\ Len(queue) \in Nat
    BY <1>1 DEF Types
  <2>2. \A i \in 1..Len(queue') : i \in 1..Len(queue) \/ i = Len(queue) + 1
    BY <2>1
  <2>3. \A i \in 1..Len(queue) : queue[i] # n /\ i \in 1..Len(queue')
    BY <1>1, <2>1 DEF QueueInv
  <2>4. Len(queue) + 1 \in 1..Len(queue')
    BY <2>1
  <2>5. \A i \in 1..Len(queue') : place'[queue'[i]] = "queued"
    BY <1>3, <1>4, <2>1, <2>2, <2>3 DEF QueueInv
  <2>6. \A i, j \in 1..Len(queue') : queue'[i] = queue'[j] => i = j
    BY <2>1, <2>2, <2>3 DEF QueueInv
  <2>7. \A f \in Frames : place'[f] = "queued" => \E i \in 1..Len(queue') : queue'[i] = f
    BY <1>3, <2>1, <2>3, <2>4 DEF QueueInv
  <2> QED BY <2>5, <2>6, <2>7 DEF QueueInv
<1> QED BY <1>2, <1>6, <1>7, <1>8

LEMMA TakeStep == DInv /\ Take => DInv'
<1> SUFFICES ASSUME DInv, Take PROVE DInv'
  OBVIOUS
<1> USE DEF DInv, Moves, Awaited
<1>0. /\ queue # <<>> /\ place[Head(queue)] = "queued"
      /\ place' = [place EXCEPT ![Head(queue)] = "upstream"]
      /\ since' = [since EXCEPT ![Head(queue)] = 0]
      /\ queue' = Tail(queue)
      /\ call' = call /\ waited' = waited /\ spent' = spent
  BY DEF Take
<1>a. PICK n \in Frames : n = Head(queue)
  BY <1>0 DEF Types
<1>1. /\ place[n] = "queued"
      /\ place' = [place EXCEPT ![n] = "upstream"] /\ since' = [since EXCEPT ![n] = 0]
  BY <1>0, <1>a
<1>2. Types'
  BY <1>0, <1>1 DEF Types, Places
<1>3. \A f \in Frames : f # n => place'[f] = place[f] /\ since'[f] = since[f]
  BY <1>1 DEF Types
<1>4. place'[n] = "upstream" /\ since'[n] = 0
  BY <1>1 DEF Types
<1>5. call[n[1]] = n[2] /\ OnTime(n)'
  <2>1. call[n[1]] = n[2]
    BY <1>1 DEF FrameInv, Orphan, LeftBehind
  <2>2. OnTime(n) /\ waited[n[1]] \in Nat /\ since[n] \in Nat
    BY <2>1, FrameIsPair DEF FrameInv, Types
  <2> QED BY <1>0, <1>1, <1>4, <2>1, <2>2, DeadlinesAssumption DEF OnTime
<1>6. FrameInv'
  <2>1. ASSUME NEW f \in Frames, f # n
        PROVE  /\ call[f[1]] = f[2] => OnTime(f)'
               /\ Orphan(f)' => LeftBehind(f)'
    <3>1. call[f[1]] = f[2] => OnTime(f)'
      BY <1>0, <1>3, <2>1 DEF FrameInv, OnTime
    <3>2. Orphan(f)' => LeftBehind(f)'
      BY <1>0, <1>3, <2>1 DEF FrameInv, Orphan, LeftBehind
    <3> QED BY <3>1, <3>2
  <2>2. ~Orphan(n)'
    BY <1>0, <1>5 DEF Orphan
  <2> QED BY <1>0, <1>5, <2>1, <2>2 DEF FrameInv
<1>7. OneOrphan'
  <2>1. \A f \in Frames : Orphan(f)' => Orphan(f)
    BY <1>0, <1>3, <1>5 DEF Orphan
  <2> QED BY <2>1 DEF OneOrphan
<1>8. QueueInv'
  <2>1. /\ Len(queue') = Len(queue) - 1 /\ Len(queue) \in Nat \ {0} /\ queue[1] = n
        /\ \A i \in 1..Len(queue') : queue'[i] = queue[i + 1]
        /\ \A i \in 1..Len(queue) : queue[i] \in Frames
    BY <1>0, <1>a DEF Types
  <2>2. \A i \in 1..Len(queue') : i + 1 \in 1..Len(queue) /\ queue[i + 1] # n
    BY <2>1 DEF QueueInv
  <2>3. \A i \in 1..Len(queue) : i # 1 => i - 1 \in 1..Len(queue') /\ queue'[i - 1] = queue[i]
    BY <2>1
  <2>4. \A i \in 1..Len(queue') : place'[queue'[i]] = "queued"
    BY <1>3, <2>1, <2>2 DEF QueueInv
  <2>5. \A i, j \in 1..Len(queue') : queue'[i] = queue'[j] => i = j
    BY <2>1, <2>2 DEF QueueInv
  <2>6. ASSUME NEW f \in Frames, place'[f] = "queued"
        PROVE  \E i \in 1..Len(queue') : queue'[i] = f
    <3>1. f # n /\ place[f] = "queued"
      BY <1>3, <1>4, <2>6
    <3>2. PICK i \in 1..Len(queue) : queue[i] = f
      BY <3>1 DEF QueueInv
    <3> QED BY <2>1, <2>3, <3>1, <3>2
  <2> QED BY <2>4, <2>5, <2>6 DEF QueueInv
<1> QED BY <1>2, <1>6, <1>7, <1>8

LEMMA ForwardEndsStep == ASSUME DInv, NEW n \in Frames, ForwardEnds(n) PROVE DInv'
<1> USE DEF DInv, Moves, Awaited
<1>1. /\ place[n] = "upstream"
      /\ place' = [place EXCEPT ![n] = IF call[n[1]] = n[2] THEN "returning" ELSE "none"]
      /\ since' = [since EXCEPT ![n] = 0]
      /\ spent' = [spent EXCEPT ![n] = IF call[n[1]] = n[2] THEN since[n] ELSE 0]
      /\ call' = call /\ waited' = waited /\ queue' = queue
  BY DEF ForwardEnds
<1>2. Types'
  BY <1>1 DEF Types, Places
<1>3. \A f \in Frames : f # n => /\ place'[f] = place[f] /\ since'[f] = since[f]
                                 /\ spent'[f] = spent[f]
  BY <1>1 DEF Types
<1>4. /\ place'[n] = IF call[n[1]] = n[2] THEN "returning" ELSE "none"
      /\ since'[n] = 0
      /\ call[n[1]] = n[2] => spent'[n] = since[n]
  BY <1>1 DEF Types
<1>5. call[n[1]] = n[2] => OnTime(n)'
  <2> SUFFICES ASSUME call[n[1]] = n[2] PROVE OnTime(n)'
    OBVIOUS
  <2>1. OnTime(n) /\ waited[n[1]] \in Nat /\ since[n] \in Nat
    BY FrameIsPair DEF FrameInv, Types
  <2> QED BY <1>1, <1>4, <2>1, DeadlinesAssumption DEF OnTime
<1>6. FrameInv'
  <2>1. ASSUME NEW f \in Frames, f # n
        PROVE  /\ call[f[1]] = f[2] => OnTime(f)'
               /\ Orphan(f)' => LeftBehind(f)'
    <3>1. call[f[1]] = f[2] => OnTime(f)'
      BY <1>1, <1>3, <2>1 DEF FrameInv, OnTime
    <3>2. Orphan(f)' => LeftBehind(f)'
      BY <1>1, <1>3, <2>1 DEF FrameInv, Orphan, LeftBehind
    <3> QED BY <3>1, <3>2
  <2>2. ~Orphan(n)'
    BY <1>1, <1>4 DEF Orphan
  <2> QED BY <1>1, <1>5, <2>1, <2>2 DEF FrameInv
<1>7. OneOrphan'
  <2>1. \A f \in Frames : Orphan(f)' => Orphan(f)
    BY <1>1, <1>3, <1>4 DEF Orphan
  <2> QED BY <2>1 DEF OneOrphan
<1>8. QueueInv'
  <2>1. \A f \in Frames : place'[f] = "queued" <=> place[f] = "queued"
    BY <1>1, <1>3, <1>4
  <2> QED BY <1>1, <2>1 DEF QueueInv, Types
<1> QED BY <1>2, <1>6, <1>7, <1>8

LEMMA ReturnStep == ASSUME DInv, NEW n \in Frames, Return(n) PROVE DInv'
<1> USE DEF DInv, Moves, Awaited
<1>1. /\ place[n] = "returning"
      /\ place' = [place EXCEPT ![n] = "none"] /\ since' = [since EXCEPT ![n] = 0]
      /\ spent' = [spent EXCEPT ![n] = 0] /\ queue' = queue
      /\ IF call[n[1]] = n[2]
         THEN call' = [call EXCEPT ![n[1]] = 0] /\ waited' = [waited EXCEPT ![n[1]] = 0]
         ELSE call' = call /\ waited' = waited
  BY FrameIsPair DEF Return, Types
<1>2. Types'
  <2>1. call' \in [Robots -> 0..Copies] /\ waited' \in [Robots -> Nat]
    <3>1. n[1] \in Robots /\ 0 \in 0..Copies
      BY DeadlinesAssumption, FrameIsPair
    <3>2. CASE call[n[1]] = n[2]
      <4>1. call' = [call EXCEPT ![n[1]] = 0] /\ waited' = [waited EXCEPT ![n[1]] = 0]
        BY <1>1, <3>2
      <4>2. call \in [Robots -> 0..Copies] /\ waited \in [Robots -> Nat]
        BY DEF Types
      <4> HIDE DEF DInv
      <4> QED BY <4>1, <4>2, <3>1
    <3>3. CASE call[n[1]] # n[2]
      BY <1>1, <3>3 DEF Types
    <3> QED BY <3>2, <3>3
  <2>2. place' \in [Frames -> Places]
    BY <1>1 DEF Types, Places
  <2>3. since' \in [Frames -> Nat] /\ spent' \in [Frames -> Nat]
    BY <1>1 DEF Types
  <2>4. queue' \in Seq(Frames)
    BY <1>1 DEF Types
  <2> QED BY <2>1, <2>2, <2>3, <2>4 DEF Types
<1>3. \A f \in Frames : f # n => /\ place'[f] = place[f] /\ since'[f] = since[f]
                                 /\ spent'[f] = spent[f]
  BY <1>1 DEF Types
<1>4. place'[n] = "none"
  BY <1>1 DEF Types
<1>5. \A f \in Frames : f # n =>
        /\ (call'[f[1]] = f[2]) <=> (call[f[1]] = f[2])
        /\ waited'[f[1]] <= waited[f[1]]
  <2> TAKE f \in Frames
  <2> HAVE f # n
  <2>1. f[1] \in Robots /\ f[2] # 0 /\ waited[f[1]] \in Nat /\ n[1] \in Robots
    BY FrameIsPair DEF Types
  <2>2. f[1] # n[1] \/ f[2] # n[2]
    BY SameFrame
  <2> QED BY <1>1, <2>1, <2>2 DEF Types
<1>6. call'[n[1]] # n[2]
  BY <1>1, FrameIsPair DEF Types
<1>7. FrameInv'
  <2>1. \A r \in Robots : call'[r] = 0 => waited'[r] = 0
    BY <1>1, FrameIsPair DEF Types, FrameInv
  <2>2. ASSUME NEW f \in Frames, call'[f[1]] = f[2]
        PROVE  OnTime(f)'
    <3>1. f # n /\ OnTime(f)
      BY <1>5, <1>6, <2>2 DEF FrameInv
    <3>2. /\ waited'[f[1]] \in Nat /\ waited[f[1]] \in Nat /\ since[f] \in Nat
          /\ spent[f] \in Nat
      BY <1>2, FrameIsPair DEF Types
    <3> QED BY <1>3, <1>5, <3>1, <3>2, DeadlinesAssumption DEF OnTime
  <2>3. ASSUME NEW f \in Frames, Orphan(f)'
        PROVE  LeftBehind(f)'
    <3>1. f # n /\ LeftBehind(f)
      BY <1>3, <1>4, <1>5, <2>3 DEF FrameInv, Orphan
    <3>2. waited'[f[1]] \in Nat /\ waited[f[1]] \in Nat /\ since[f] \in Nat
      BY <1>2, FrameIsPair DEF Types
    <3> QED BY <1>3, <1>5, <3>1, <3>2, DeadlinesAssumption DEF LeftBehind
  <2> QED BY <2>1, <2>2, <2>3 DEF FrameInv
<1>8. OneOrphan'
  <2>1. \A f \in Frames : Orphan(f)' => Orphan(f)
    BY <1>3, <1>4, <1>5 DEF Orphan
  <2> QED BY <2>1 DEF OneOrphan
<1>9. QueueInv'
  <2>1. \A f \in Frames : place'[f] = "queued" <=> place[f] = "queued"
    BY <1>1, <1>3, <1>4
  <2> QED BY <1>1, <2>1 DEF QueueInv, Types
<1> QED BY <1>2, <1>7, <1>8, <1>9

\* Time does not pass while a task waits, so none has waited.
LEMMA TickStep == DInv /\ Tick => DInv'
<1> SUFFICES ASSUME DInv, Tick PROVE DInv'
  OBVIOUS
<1> USE DEF DInv, Awaited
<1>1. /\ call' = call /\ place' = place /\ spent' = spent /\ queue' = queue
      /\ waited' = [r \in Robots |-> IF call[r] = 0 THEN 0 ELSE waited[r] + 1]
      /\ since' = [f \in Frames |-> IF place[f] = "none" THEN 0 ELSE since[f] + 1]
  BY DEF Tick
<1>2. /\ \A f \in Frames : place[f] \in {"travelling", "returning"} => since[f] # Latency
      /\ \A f \in Frames : place[f] = "upstream" => since[f] # Deadline
      /\ \A r \in Robots : call[r] # 0 => waited[r] # Timeout
  BY DEF Tick, Due, In, Overdue
<1>3. \A f \in Frames : place[f] # "queued"
  <2>1. queue = <<>>
    BY WorkerFree DEF Tick, Due
  <2> QED BY <2>1 DEF QueueInv
<1>4. Types'
  BY <1>1 DEF Types
<1>5. FrameInv'
  <2>1. \A r \in Robots : call'[r] = 0 => waited'[r] = 0
    BY <1>1
  <2>2. ASSUME NEW f \in Frames, call[f[1]] = f[2]
        PROVE  OnTime(f)'
    <3>1. /\ f[1] \in Robots /\ call[f[1]] # 0 /\ waited[f[1]] \in Nat
          /\ since[f] \in Nat /\ spent[f] \in Nat
      BY <2>2, FrameIsPair DEF Types
    <3>2. OnTime(f) /\ place[f] # "none"
      BY <2>2 DEF FrameInv, OnTime
    <3>3. waited'[f[1]] = waited[f[1]] + 1 /\ since'[f] = since[f] + 1
      BY <1>1, <3>1, <3>2
    <3>4. waited[f[1]] # Timeout
      BY <1>2, <3>1
    <3> QED BY <1>1, <1>2, <1>3, <3>1, <3>2, <3>3, <3>4, DeadlinesAssumption DEF OnTime
  <2>3. ASSUME NEW f \in Frames, Orphan(f)
        PROVE  LeftBehind(f)'
    <3>1. f[1] \in Robots /\ waited[f[1]] \in Nat /\ since[f] \in Nat
      BY FrameIsPair DEF Types
    <3>2. LeftBehind(f) /\ place[f] # "none"
      BY <2>3 DEF FrameInv, Orphan
    <3>3. waited'[f[1]] <= waited[f[1]] + 1 /\ since'[f] = since[f] + 1
      BY <1>1, <3>1, <3>2
    <3>4. waited'[f[1]] \in Nat
      BY <1>4, <3>1 DEF Types
    <3> QED BY <1>1, <1>2, <3>1, <3>2, <3>3, <3>4, DeadlinesAssumption DEF LeftBehind
  <2>4. \A f \in Frames : Orphan(f)' => Orphan(f)
    BY <1>1 DEF Orphan
  <2> QED BY <1>1, <2>1, <2>2, <2>3, <2>4 DEF FrameInv
<1>6. OneOrphan' /\ QueueInv'
  BY <1>1 DEF OneOrphan, Orphan, QueueInv
<1> QED BY <1>4, <1>5, <1>6

LEMMA NextDInv == DInv /\ [Next]_vars => DInv'
<1> SUFFICES ASSUME DInv, [Next]_vars PROVE DInv'
  OBVIOUS
<1>1. ASSUME NEW r \in Robots, Send(r) \/ GivesUp(r) PROVE DInv'
  BY <1>1, SendStep, GivesUpStep
<1>2. ASSUME NEW f \in Frames, Enqueue(f) \/ ForwardEnds(f) \/ Return(f) PROVE DInv'
  BY <1>2, EnqueueStep, ForwardEndsStep, ReturnStep
<1>3. CASE Take
  BY <1>3, TakeStep
<1>4. CASE Tick
  BY <1>4, TickStep
<1>5. CASE UNCHANGED vars
  BY <1>5 DEF vars, DInv, Types, FrameInv, OneOrphan, QueueInv, Orphan, Awaited, OnTime,
              LeftBehind
<1> QED BY <1>1, <1>2, <1>3, <1>4, <1>5 DEF Next

-----------------------------------------------------------------------------
(* The theorems.                                                           *)

\* Deadlines: where the frames of the robots can be, and for how long.
THEOREM Invariance == Spec => []DInv
BY InitDInv, NextDInv, PTL DEF Spec

\* With two workers to a robot, forward() starts as soon as the frame is in
\* the middleware, for any number of robots and a server as slow as can be.
THEOREM NobodyWaits == Spec => []NeverWaits
<1>1. DInv => NeverWaits
  <2> SUFFICES ASSUME DInv, NEW f \in Frames, place[f] = "queued" PROVE since[f] = 0
    BY DEF NeverWaits, In
  <2>1. OnTime(f)
    BY DEF DInv, FrameInv, Orphan, LeftBehind
  <2> QED BY <2>1 DEF OnTime
<1> QED BY <1>1, Invariance, PTL

\* A robot that gives up again and again never has more than two frames
\* between itself and the end of forward(): they do not pile up in the pool.
THEOREM TwoAreUnderWay == Spec => []TwoUnderWay
<1>1. DInv => TwoUnderWay
  <2> SUFFICES ASSUME DInv, NEW r \in Robots
               PROVE  Cardinality({f \in Frames : f[1] = r /\ place[f] # "none"}) <= 2
    BY DEF TwoUnderWay
  <2> DEFINE S == {f \in Frames : f[1] = r /\ place[f] # "none"}
             A == {f \in S : Awaited(f)}
             O == {f \in S : ~Awaited(f)}
  <2>1. \A f, g \in A : f = g
    BY SameFrame DEF Awaited
  <2>2. \A f, g \in O : f = g
    BY DEF DInv, OneOrphan, Orphan
  <2>3. S = A \cup O
    OBVIOUS
  <2> HIDE DEF S, A, O
  <2>4. IsFiniteSet(A) /\ Cardinality(A) <= 1
    BY <2>1, Singleton
  <2>5. IsFiniteSet(O) /\ Cardinality(O) <= 1
    BY <2>2, Singleton
  <2>6. Cardinality(A \cup O) = Cardinality(A) + Cardinality(O) - Cardinality(A \cap O)
    BY <2>4, <2>5, FS_Union
  <2>7. /\ Cardinality(A) \in Nat /\ Cardinality(O) \in Nat
        /\ Cardinality(A \cap O) \in Nat
    BY <2>4, <2>5, FS_Intersection, FS_CardinalityType
  <2>8. Cardinality(S) <= 2
    BY <2>3, <2>4, <2>5, <2>6, <2>7
  <2> QED BY <2>8 DEF S
<1> QED BY <1>1, Invariance, PTL

\* A call that runs into its timeout was with the inference server for all of
\* it but the two ways.
THEOREM UpstreamToBlame == Spec => []BlameUpstream
<1>1. DInv => BlameUpstream
  <2> SUFFICES ASSUME DInv, NEW r \in Robots, call[r] # 0, waited[r] = Timeout
               PROVE  LET f == <<r, call[r]>>
                      IN  (IF place[f] = "upstream" THEN since[f] ELSE spent[f])
                            >= Timeout - 2 * Latency
    BY Zenon DEF BlameUpstream
  <2>1. call[r] \in 0..Copies
    BY DEF DInv, Types
  <2>2. call[r] \in 1..Copies
    BY <2>1, DeadlinesAssumption
  <2>3. PICK f \in Frames : f = <<r, call[r]>> /\ f[1] = r /\ f[2] = call[r]
    BY <2>2, FrameOf
  <2>4. OnTime(f)
    BY <2>3 DEF DInv, FrameInv, Awaited
  <2>5. since[f] \in Nat /\ spent[f] \in Nat
    BY DEF DInv, Types
  <2>6. (IF place[f] = "upstream" THEN since[f] ELSE spent[f]) >= Timeout - 2 * Latency
    BY <2>3, <2>4, <2>5, DeadlinesAssumption DEF OnTime
  <2> QED BY <2>3, <2>6, Zenon
<1> QED BY <1>1, Invariance, PTL
=============================================================================
