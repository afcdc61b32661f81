---------------------------- MODULE MCDeadlines ----------------------------
(* Instances of Deadlines for TLC. *)
EXTENDS Deadlines, TLC

\* Sound for the invariants: the robots are interchangeable.
Symmetry == Permutations(Robots)
=============================================================================
