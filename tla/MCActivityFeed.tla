--------------------------- MODULE MCActivityFeed ---------------------------
(* ActivityFeed on small instances. *)
EXTENDS ActivityFeed

=============================================================================
