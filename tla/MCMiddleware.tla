---------------------------- MODULE MCMiddleware ----------------------------
(* Instances of Middleware for TLC. *)
EXTENDS Middleware, TLC

\* Sound for the invariants: workers are interchangeable, calls of a kind too.
Symmetry == Permutations(Workers) \cup Permutations(Unary) \cup Permutations(Streams)
=============================================================================
