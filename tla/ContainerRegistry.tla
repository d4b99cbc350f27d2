-------------------------- MODULE ContainerRegistry --------------------------
(***************************************************************************)
(* runtime::ContainerRegistry (src/src/runtime/container_registry.cpp):    *)
(* threads create, look up, operate on and clean up containers.            *)
(*                                                                         *)
(* A container is seen as in ContainerLifecycle, which Container           *)
(* implements: its phase, the mutex_ its operations hold, and the callback *)
(* that every transition calls with that mutex held.  createContainer      *)
(* installs the registry's callback; whoever holds the container may       *)
(* replace it with setEventCallback.                                       *)
(***************************************************************************)
EXTENDS Naturals, Sequences, FiniteSets, Functions

CONSTANTS
    Objs,       \* Container objects, each created at most once
    Ids, Names,
    Threads,
    NoThread, NoObj

ASSUME RegistryAssumption ==
    NoThread \notin Threads /\ NoObj \notin Objs /\ Names # {}

VARIABLES
    containers_,  \* id -> object
    name_to_id_,  \* name -> id
    mutex_,       \* owner of the registry's mutex_
    state_,       \* per object: its phase, or "none" before it is created
    nameOf,       \* per object: config_.name
    cmutex,       \* per object: owner of Container::mutex_
    callback,     \* per object: "registry" or "own"
    pc,           \* per thread
    task,         \* per thread: the call in progress
    verb, target, \* per thread: operation on a container, and the container
    path,         \* per thread: transitions the operation has still to make
    todo, marked  \* per thread: loops of cleanup and shutdown

mapVars == <<containers_, name_to_id_>>
objVars == <<state_, nameOf, cmutex, callback>>
callVars == <<task, verb, target, path>>
loopVars == <<todo, marked>>
vars == <<mapVars, mutex_, objVars, pc, callVars, loopVars>>

Registered == {containers_[i] : i \in DOMAIN containers_}
IdOf(o) == CHOOSE i \in DOMAIN containers_ : containers_[i] = o
Without(f, keys) == Restrict(f, DOMAIN f \ keys)
Put(f, key, value) == [k \in DOMAIN f \cup {key} |-> IF k = key THEN value ELSE f[k]]

Goto(t, step) == pc' = [pc EXCEPT ![t] = step]

StoppedStates == {"STOPPED", "DEAD", "ERROR"}

-----------------------------------------------------------------------------
(* The transitions an operation of a container in phase s makes; none when  *)
(* it throws, or when it is kill().                                         *)

Paths(v, s) ==
    CASE v = "start" /\ s \in {"CREATED", "RESTARTING"} -> {<<"STARTING", "RUNNING">>, <<"ERROR">>}
      [] v = "start" /\ s = "STOPPED" -> {<<"STARTING", "RUNNING">>, <<>>}
      [] v = "stop" /\ s \in {"RUNNING", "PAUSED", "RESTARTING"} -> {<<"STOPPING", "STOPPED">>}
      [] v = "pause" /\ s = "RUNNING" -> {<<"PAUSED">>}
      [] v = "resume" /\ s = "PAUSED" -> {<<"RUNNING">>}
      [] v = "restart" /\ s \in {"RUNNING", "STOPPED"} -> {<<"RESTARTING">>}
      [] v = "remove" /\ s \in {"CREATED", "PAUSED", "STOPPED", "RESTARTING", "ERROR"}
           -> {<<"REMOVING", "REMOVED">>}
      [] v = "force remove" /\ s \notin {"REMOVING", "REMOVED", "DEAD"}
           -> {<<"REMOVING", "REMOVED">>}
      [] OTHER -> {<<>>}

Verbs == {"start", "stop", "pause", "resume", "restart", "kill"}

-----------------------------------------------------------------------------
Init ==
    /\ containers_ = << >> /\ name_to_id_ = << >>
    /\ mutex_ = NoThread
    /\ state_ = [o \in Objs |-> "none"]
    /\ nameOf \in [Objs -> {CHOOSE n \in Names : TRUE}]
    /\ cmutex = [o \in Objs |-> NoThread]
    /\ callback = [o \in Objs |-> "registry"]
    /\ pc = [t \in Threads |-> "idle"]
    /\ task = [t \in Threads |-> "none"]
    /\ verb = [t \in Threads |-> "none"]
    /\ target = [t \in Threads |-> NoObj]
    /\ path = [t \in Threads |-> <<>>]
    /\ todo = [t \in Threads |-> {}] /\ marked = [t \in Threads |-> {}]

isNameUnique(n) == n \notin DOMAIN name_to_id_

(* Faulty variant: the name is taken as it is. *)
ChosenNameAsGiven(n, m) == m = n

(* The name asked for, or a generated one. *)
ChosenName(n, m) == IF isNameUnique(n) THEN m = n ELSE isNameUnique(m)

(* A known id throws; generateUniqueId() and a new explicit id look alike. *)
createContainer(t, o, i, n, m) ==
    /\ pc[t] = "idle" /\ mutex_ = NoThread
    /\ state_[o] = "none" /\ i \notin DOMAIN containers_
    /\ ChosenName(n, m)
    /\ state_' = [state_ EXCEPT ![o] = "CREATED"]
    /\ nameOf' = [nameOf EXCEPT ![o] = m]
    /\ containers_' = Put(containers_, i, o)
    /\ name_to_id_' = Put(name_to_id_, m, i)
    /\ UNCHANGED <<mutex_, cmutex, callback, pc, callVars, loopVars>>

(* By whoever holds the object; blocked while the callback runs. *)
setEventCallback(t, o) ==
    /\ pc[t] = "idle" /\ state_[o] # "none"
    /\ \A u \in Threads : pc[u] = "callback" => target[u] # o
    /\ callback' = [callback EXCEPT ![o] = "own"]
    /\ UNCHANGED <<mapVars, mutex_, state_, nameOf, cmutex, pc, callVars, loopVars>>

-----------------------------------------------------------------------------
(* Operations on one container *)

Operate(t, v, o) ==
    /\ verb' = [verb EXCEPT ![t] = v]
    /\ target' = [target EXCEPT ![t] = o]
    /\ Goto(t, "lock")

(* startContainer, ..., killContainer: getContainer() returns, releasing      *)
(* mutex_, before the operation begins.                                       *)
CallById(t, v, i) ==
    /\ pc[t] = "idle" /\ mutex_ = NoThread
    /\ i \in DOMAIN containers_
    /\ Operate(t, v, containers_[i])
    /\ task' = [task EXCEPT ![t] = "call"]
    /\ UNCHANGED <<mapVars, mutex_, objVars, path, loopVars>>

(* remove(force) by whoever holds the object. *)
CallRemove(t, v, o) ==
    /\ pc[t] = "idle" /\ state_[o] # "none"
    /\ Operate(t, v, o)
    /\ task' = [task EXCEPT ![t] = "call"]
    /\ UNCHANGED <<mapVars, mutex_, objVars, path, loopVars>>

(* Back to the caller, or to the loop that made the call. *)
Resume(t) ==
    /\ target' = [target EXCEPT ![t] = NoObj]
    /\ verb' = [verb EXCEPT ![t] = "none"]
    /\ IF task[t] = "call"
       THEN Goto(t, "idle") /\ task' = [task EXCEPT ![t] = "none"]
       ELSE Goto(t, "loop") /\ UNCHANGED task

unregisterContainer(o) ==
    IF o \in Registered
    THEN /\ containers_' = Without(containers_, {IdOf(o)})
         /\ name_to_id_' = Without(name_to_id_, {nameOf[o]})
    ELSE UNCHANGED mapVars

(* Faulty variant: the operation forgets to lock. *)
BeginUnlocked(t) ==
    /\ pc[t] = "lock"
    /\ \E p \in Paths(verb[t], state_[target[t]]) :
         IF p = <<>>
         THEN Resume(t) /\ UNCHANGED <<cmutex, path>>
         ELSE /\ path' = [path EXCEPT ![t] = p]
              /\ Goto(t, "work")
              /\ UNCHANGED <<cmutex, task, verb, target>>
    /\ UNCHANGED <<mapVars, mutex_, state_, nameOf, callback, loopVars>>

(* The operation takes Container::mutex_ and checks the state. *)
Begin(t) ==
    /\ pc[t] = "lock" /\ cmutex[target[t]] = NoThread
    /\ \E p \in Paths(verb[t], state_[target[t]]) :
         IF p = <<>>
         THEN Resume(t) /\ UNCHANGED <<cmutex, path>>
         ELSE /\ cmutex' = [cmutex EXCEPT ![target[t]] = t]
              /\ path' = [path EXCEPT ![t] = p]
              /\ Goto(t, "work")
              /\ UNCHANGED <<task, verb, target>>
    /\ UNCHANGED <<mapVars, mutex_, state_, nameOf, callback, loopVars>>

(* Faulty variant: the callback asks the registry, not the container. *)
TransitionAsksRegistry(t) ==
    /\ pc[t] = "work" /\ path[t] # <<>>
    /\ state_' = [state_ EXCEPT ![target[t]] = Head(path[t])]
    /\ path' = [path EXCEPT ![t] = Tail(@)]
    /\ Goto(t, IF callback[target[t]] = "registry" THEN "relock" ELSE "work")
    /\ UNCHANGED <<mapVars, mutex_, nameOf, cmutex, callback, task, verb, target, loopVars>>

(* transitionState: the registry's callback calls getInfo(), which locks the *)
(* Container::mutex_ that the operation holds, and waits in "callback".      *)
Transition(t) ==
    /\ pc[t] = "work" /\ path[t] # <<>>
    /\ state_' = [state_ EXCEPT ![target[t]] = Head(path[t])]
    /\ path' = [path EXCEPT ![t] = Tail(@)]
    /\ Goto(t, IF callback[target[t]] = "registry" THEN "callback" ELSE "work")
    /\ UNCHANGED <<mapVars, mutex_, nameOf, cmutex, callback, task, verb, target, loopVars>>

(* Faulty variant: an early return that skips the unlock. *)
FinishKeepsLock(t) ==
    /\ pc[t] = "work" /\ path[t] = <<>>
    /\ IF task[t] = "cleanup" THEN unregisterContainer(target[t]) ELSE UNCHANGED mapVars
    /\ Resume(t)
    /\ UNCHANGED <<mutex_, objVars, path, loopVars>>

(* The operation returns; cleanup then drops the container it removed. *)
Finish(t) ==
    /\ pc[t] = "work" /\ path[t] = <<>>
    /\ cmutex' = [cmutex EXCEPT ![target[t]] = NoThread]
    /\ IF task[t] = "cleanup" THEN unregisterContainer(target[t]) ELSE UNCHANGED mapVars
    /\ Resume(t)
    /\ UNCHANGED <<mutex_, state_, nameOf, callback, path, loopVars>>

-----------------------------------------------------------------------------
(* Calls that hold the registry's mutex_ *)

(* removeContainer(id) and, for a known name, getContainerByName(name) call   *)
(* getContainer(), which locks mutex_ again, and wait in "relock".            *)
removeContainer(t) ==
    /\ pc[t] = "idle" /\ mutex_ = NoThread
    /\ mutex_' = t
    /\ Goto(t, "relock")
    /\ UNCHANGED <<mapVars, objVars, callVars, loopVars>>

getContainerByName(t, n) ==
    /\ n \in DOMAIN name_to_id_
    /\ removeContainer(t)

StartLoop(t, name) ==
    /\ pc[t] = "idle" /\ mutex_ = NoThread
    /\ mutex_' = t
    /\ task' = [task EXCEPT ![t] = name]
    /\ todo' = [todo EXCEPT ![t] = Registered]
    /\ Goto(t, "loop")
    /\ UNCHANGED <<mapVars, objVars, verb, target, path, marked>>

EndLoop(t) ==
    /\ mutex_' = NoThread
    /\ task' = [task EXCEPT ![t] = "none"]
    /\ Goto(t, "idle")
    /\ UNCHANGED <<objVars, verb, target, path, loopVars>>

cleanupStoppedContainers(t) == StartLoop(t, "cleanup")

(* The first loop: getState(), then getInfo() for a stopped container. *)
ScanStopped(t, o) ==
    /\ pc[t] = "loop" /\ task[t] = "cleanup" /\ o \in todo[t]
    /\ todo' = [todo EXCEPT ![t] = @ \ {o}]
    /\ IF state_[o] \in StoppedStates
       THEN Goto(t, "info") /\ target' = [target EXCEPT ![t] = o]
       ELSE UNCHANGED <<pc, target>>
    /\ UNCHANGED <<mapVars, mutex_, objVars, task, verb, path, marked>>

(* It is marked if it stopped more than five minutes ago. *)
ScanInfo(t) ==
    /\ pc[t] = "info" /\ cmutex[target[t]] = NoThread
    /\ marked' \in {marked, [marked EXCEPT ![t] = @ \cup {target[t]}]}
    /\ target' = [target EXCEPT ![t] = NoObj]
    /\ Goto(t, "loop")
    /\ UNCHANGED <<mapVars, mutex_, objVars, task, verb, path, todo>>

(* The second loop: remove(true), whose exceptions are only logged. *)
RemoveMarked(t, o) ==
    /\ pc[t] = "loop" /\ task[t] = "cleanup" /\ todo[t] = {} /\ o \in marked[t]
    /\ marked' = [marked EXCEPT ![t] = @ \ {o}]
    /\ Operate(t, "force remove", o)
    /\ UNCHANGED <<mapVars, mutex_, objVars, task, path, todo>>

EndCleanup(t) ==
    /\ pc[t] = "loop" /\ task[t] = "cleanup" /\ todo[t] = {} /\ marked[t] = {}
    /\ EndLoop(t)
    /\ UNCHANGED mapVars

(* The names stay. *)
cleanupRemovedContainers(t) ==
    /\ pc[t] = "idle" /\ mutex_ = NoThread
    /\ containers_' = Without(containers_, {i \in DOMAIN containers_ :
                                              state_[containers_[i]] = "REMOVED"})
    /\ UNCHANGED <<name_to_id_, mutex_, objVars, pc, callVars, loopVars>>

shutdown(t) == StartLoop(t, "shutdown")

ScanRunning(t, o) ==
    /\ pc[t] = "loop" /\ task[t] = "shutdown" /\ o \in todo[t]
    /\ todo' = [todo EXCEPT ![t] = @ \ {o}]
    /\ IF state_[o] \in {"RUNNING", "PAUSED"}
       THEN Operate(t, "stop", o)
       ELSE UNCHANGED <<pc, verb, target>>
    /\ UNCHANGED <<mapVars, mutex_, objVars, task, path, marked>>

EndShutdown(t) ==
    /\ pc[t] = "loop" /\ task[t] = "shutdown" /\ todo[t] = {}
    /\ containers_' = << >> /\ name_to_id_' = << >>
    /\ EndLoop(t)

-----------------------------------------------------------------------------
LoopStep(t) ==
    \/ EndCleanup(t) \/ EndShutdown(t)
    \/ \E o \in Objs : ScanStopped(t, o) \/ RemoveMarked(t, o) \/ ScanRunning(t, o)

NewCall(t) ==
    \/ \E o \in Objs, i \in Ids, n, m \in Names : createContainer(t, o, i, n, m)
    \/ \E o \in Objs : setEventCallback(t, o)
    \/ \E i \in Ids, v \in Verbs : CallById(t, v, i)
    \/ \E o \in Objs, v \in {"remove", "force remove"} : CallRemove(t, v, o)
    \/ \E n \in Names : getContainerByName(t, n)
    \/ removeContainer(t)
    \/ cleanupStoppedContainers(t) \/ cleanupRemovedContainers(t) \/ shutdown(t)

Next == \E t \in Threads :
    NewCall(t) \/ Begin(t) \/ Transition(t) \/ Finish(t) \/ ScanInfo(t) \/ LoopStep(t)

Spec == Init /\ [][Next]_vars

(* A thread that is not blocked runs; one that waits for a mutex gets it if  *)
(* it is free again and again.                                               *)
FairSpec ==
    /\ Spec
    /\ \A t \in Threads :
         SF_vars(Begin(t) \/ Transition(t) \/ LoopStep(t) \/ ScanInfo(t) \/ Finish(t))

-----------------------------------------------------------------------------
Phases == {"none", "CREATED", "STARTING", "RUNNING", "PAUSED", "STOPPING", "STOPPED",
           "REMOVING", "REMOVED", "RESTARTING", "ERROR"}

(* Every variable has its type. *)
TypeOK ==
    /\ DOMAIN containers_ \subseteq Ids /\ Registered \subseteq Objs
    /\ DOMAIN name_to_id_ \subseteq Names
    /\ \A n \in DOMAIN name_to_id_ : name_to_id_[n] \in Ids
    /\ mutex_ \in Threads \cup {NoThread}
    /\ state_ \in [Objs -> Phases]
    /\ nameOf \in [Objs -> Names]
    /\ cmutex \in [Objs -> Threads \cup {NoThread}]
    /\ callback \in [Objs -> {"registry", "own"}]
    /\ pc \in [Threads -> {"idle", "lock", "work", "callback", "relock", "loop", "info"}]
    /\ task \in [Threads -> {"none", "call", "cleanup", "shutdown"}]
    /\ verb \in [Threads -> Verbs \cup {"none", "remove", "force remove"}]
    /\ target \in [Threads -> Objs \cup {NoObj}]
    /\ \A t \in Threads : pc[t] \in {"lock", "work", "callback", "info"} => target[t] # NoObj
    /\ \A t \in Threads : Len(path[t]) <= 2 /\ \A k \in 1..Len(path[t]) : path[t][k] \in Phases
    /\ todo \in [Threads -> SUBSET Objs] /\ marked \in [Threads -> SUBSET Objs]

(* Names are unique and lead to their container: every registered container  *)
(* is found under its name, whatever createContainer, the two cleanups and   *)
(* shutdown did to the two maps.                                             *)
NamesResolve ==
    \A i \in DOMAIN containers_ :
        LET n == nameOf[containers_[i]] IN
        n \in DOMAIN name_to_id_ /\ name_to_id_[n] = i

(* A container leaves the registry only once it is REMOVED, also when the    *)
(* remove() that cleanupStoppedContainers() makes throws, or else by         *)
(* shutdown(), which empties the registry.                                   *)
LeavesOnlyRemoved ==
    [][\A i \in DOMAIN containers_ :
         i \notin DOMAIN containers_' =>
             state_[containers_[i]] = "REMOVED" \/ DOMAIN containers_' = {}]_vars

(* The owner of the mutex that t is waiting for, if t owns or may own others. *)
OwnerWanted(t) ==
    CASE pc[t] = "relock" -> mutex_
      [] pc[t] \in {"lock", "info", "callback"} -> cmutex[target[t]]
      [] OTHER -> NoThread

(* The lock order (the registry's mutex_ before Container::mutex_) rules out  *)
(* deadlocks between threads: in no set of threads does each wait for a mutex *)
(* that another one of the set owns.                                         *)
NoCrossDeadlock ==
    \A S \in (SUBSET Threads) \ {{}} : \E t \in S : OwnerWanted(t) \notin S \ {t}

(* Each container, as the registry's threads drive it, follows the phases of *)
(* ContainerLifecycle.                                                       *)
Lifecycle(o) == INSTANCE ContainerLifecycle WITH
    Processes <- {}, live <- {},
    phase <- IF state_[o] = "none" THEN "CREATED" ELSE state_[o]

(* No two threads together drive a container along an edge that one alone    *)
(* could not take.                                                           *)
ContainersFollowLifecycle ==
    [][\A o \in Objs : Lifecycle(o)!Next \/ UNCHANGED Lifecycle(o)!vars]_vars

(* Every call returns, unless some thread is waiting for itself.             *)
CallsReturn ==
    \A t \in Threads :
        pc[t] # "idle" ~> pc[t] = "idle" \/ \E u \in Threads : OwnerWanted(u) = u

=============================================================================
