---------------------------- MODULE MCThreadLife ----------------------------
(* ThreadLife on small instances. *)
EXTENDS ThreadLife

=============================================================================
