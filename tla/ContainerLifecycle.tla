-------------------------- MODULE ContainerLifecycle --------------------------
(***************************************************************************)
(* What a container promises an observer who sees only getState() and the  *)
(* processes it has let loose: the phases follow one graph, at most one    *)
(* process is live (running and not sent SIGKILL), one is launched only    *)
(* when none is live, and none is live on entry to a phase at rest.        *)
(* Container implements this specification.                                *)
(***************************************************************************)
CONSTANT Processes

VARIABLES phase, live

vars == <<phase, live>>

(* getState() can take these steps.  The table of container.cpp also allows *)
(* edges that no operation takes, among them every edge into DEAD.          *)
Successors(from) ==
    CASE from = "CREATED"    -> {"STARTING", "ERROR", "REMOVING"}
      [] from = "STARTING"   -> {"RUNNING"}
      [] from = "RUNNING"    -> {"PAUSED", "STOPPING", "RESTARTING", "REMOVING"}
      [] from = "PAUSED"     -> {"RUNNING", "STOPPING", "REMOVING"}
      [] from = "STOPPING"   -> {"STOPPED"}
      [] from = "STOPPED"    -> {"STARTING", "RESTARTING", "REMOVING"}
      [] from = "RESTARTING" -> {"STARTING", "STOPPING", "ERROR", "REMOVING"}
      [] from = "ERROR"      -> {"REMOVING"}
      [] from = "REMOVING"   -> {"REMOVED"}
      [] OTHER               -> {}

Launchable == {"CREATED", "STOPPED", "RESTARTING"}
AtRest == {"STOPPED", "ERROR", "REMOVING", "REMOVED"}

(* The phases that end without a further call.  RESTARTING, which the code   *)
(* means to be one, is not: restart() returns in it, and the container stays *)
(* there until the next call.                                                *)
Transient == {"STARTING", "STOPPING", "REMOVING"}

Init == phase = "CREATED" /\ live = {}

Launch(p) ==
    /\ phase \in Launchable
    /\ live = {}
    /\ live' = {p}
    /\ UNCHANGED phase

(* The process exits or is sent SIGKILL. *)
End(p) ==
    /\ p \in live
    /\ live' = live \ {p}
    /\ UNCHANGED phase

Move(to) ==
    /\ to \in Successors(phase)
    /\ to \in AtRest => live = {}
    /\ phase' = to
    /\ UNCHANGED live

Next ==
    \/ \E p \in Processes : Launch(p) \/ End(p)
    \/ \E to \in Successors(phase) : Move(to)

Spec == Init /\ [][Next]_vars

Settle == phase \in Transient /\ \E to \in Successors(phase) : Move(to)

(* No transient phase lasts. *)
Settled == WF_vars(Settle)

=============================================================================
