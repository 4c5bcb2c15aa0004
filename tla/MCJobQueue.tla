----------------------------- MODULE MCJobQueue -----------------------------
(* Instances of JobQueue for TLC. *)
EXTENDS JobQueue, TLC

ThreadSymmetry == Permutations(Threads)
=============================================================================
