------------------------------ MODULE MCPlugins ------------------------------
(* Instances of Plugins for TLC: see MCPlugins.cfg.                         *)
EXTENDS Plugins

=============================================================================
