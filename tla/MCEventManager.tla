---------------------------- MODULE MCEventManager ----------------------------
(* Instances of EventManager.  One client publishes, both subscribe and      *)
(* control; two events are of the type that may be batched, and one event    *)
(* overtakes the others by its priority.                                     *)
EXTENDS EventManager, TLC

CONSTANTS c1, c2, l1

MCEvents == 1..4
MCTypes == {"a", "b"}
MCTypeOf == <<"a", "b", "a", "b">>
MCPriorityOf == <<1, 1, 1, 2>>
MCClientOf == <<c1, c1, c1, c1>>
MCClients == {c1, c2}
MCListeners == {l1}
MCPattern == l1 :> {"a", "b"}

(* For liveness: two clients, one event each. *)
MCLiveEvents == 1..2
MCLiveTypeOf == <<"b", "b">>
MCLivePriorityOf == <<1, 1>>
MCLiveClientOf == <<c1, c2>>
=============================================================================
