------------------------- MODULE MCInferenceServer -------------------------
(* Instances of InferenceServer for TLC. *)
EXTENDS InferenceServer, TLC

\* Sound for the invariants: calls of a kind are interchangeable.
Symmetry == Permutations(Unary) \cup Permutations(Streams)
=============================================================================
