--------------------------- MODULE MCGraphManager ---------------------------
(* GraphManager on small instances. *)
EXTENDS GraphManager

=============================================================================
