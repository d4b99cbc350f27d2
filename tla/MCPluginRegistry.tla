--------------------------- MODULE MCPluginRegistry ---------------------------
(* PluginRegistry for TLC. *)
EXTENDS PluginRegistry

=============================================================================
