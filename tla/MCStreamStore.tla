---------------------------- MODULE MCStreamStore ----------------------------
(* StreamStore on small instances. *)
EXTENDS StreamStore, TLC

Symmetry == Permutations(Threads)

=============================================================================
