-------------------------- MODULE MCProcessManager --------------------------
(* Instances of ProcessManager for TLC. *)
EXTENDS ProcessManager, TLC

ProcessSymmetry == Permutations(Pids) \cup Permutations(Clients)
=============================================================================
