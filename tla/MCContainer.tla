----------------------------- MODULE MCContainer -----------------------------
(* Container for TLC: two processes, so that a container is started twice. *)
EXTENDS Container

=============================================================================
