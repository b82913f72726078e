----------------------------- MODULE MCListener -----------------------------
(* Listener with interchangeable threads. *)
EXTENDS Listener, TLC

ThreadSymmetry == Permutations(Threads)
=============================================================================
