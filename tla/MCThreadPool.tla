---------------------------- MODULE MCThreadPool ----------------------------
(* Instances of ThreadPool for TLC. No symmetry: it is unsound for liveness. *)
EXTENDS ThreadPool
=============================================================================
