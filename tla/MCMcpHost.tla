------------------------------ MODULE MCMcpHost ------------------------------
(* McpHost on small instances. *)
EXTENDS McpHost

=============================================================================
