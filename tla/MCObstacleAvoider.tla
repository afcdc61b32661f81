------------------------- MODULE MCObstacleAvoider -------------------------
(* Instances of ObstacleAvoider for TLC. *)
EXTENDS ObstacleAvoider, FiniteSets

\* At most two objects at a time, without depth, close, very close or far; the
\* age of the answer plays no part without RobotNode.
Objects == [side : {"left", "centre", "right"}, z : 0 .. 3]
AnyMessages == [dets : {ds \in SUBSET Objects : Cardinality(ds) <= 2}, age : {0}]
=============================================================================
