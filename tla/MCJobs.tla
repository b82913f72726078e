------------------------------- MODULE MCJobs -------------------------------
(* Instances of Jobs: threads are alike. *)
EXTENDS Jobs, TLC
Alike == Permutations(Threads)
=============================================================================
