------------------------------- MODULE MCShell -------------------------------
(* Two remote backends, three sidecars. *)
EXTENDS Shell

=============================================================================
