------------------------------ MODULE MCSidecar ------------------------------
(* Sidecar on small instances. *)
EXTENDS Sidecar

=============================================================================
