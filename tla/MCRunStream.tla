---------------------------- MODULE MCRunStream ----------------------------
(* RunStream on a small instance. *)
EXTENDS RunStream

(* Two clients of the same thread are interchangeable. *)
ObserverSymmetry == Permutations(Observers)

=============================================================================
