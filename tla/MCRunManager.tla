---------------------------- MODULE MCRunManager ----------------------------
(* RunManager on a small instance. *)
EXTENDS RunManager, TLC

(* The threads are interchangeable. *)
ThreadSymmetry == Permutations(Threads)

=============================================================================
