-------------------------- MODULE MCResourceMonitor --------------------------
(* ResourceMonitor for TLC. *)
EXTENDS ResourceMonitor

=============================================================================
