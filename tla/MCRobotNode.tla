---------------------------- MODULE MCRobotNode ----------------------------
(* Instances of RobotNode for TLC. *)
EXTENDS RobotNode

\* One scene: the properties of the node are about times.
OneScene == {[seen |-> {"ahead"}, z |-> [s \in {"ahead"} |-> 1]]}
=============================================================================
