----------------------- MODULE ContainerRegistryProofs -----------------------
(***************************************************************************)
(* Proofs about ContainerRegistry for every number of threads, containers, *)
(* ids and names: the two maps agree, no two threads block each other, and *)
(* each container follows ContainerLifecycle although several threads      *)
(* drive it.                                                               *)
(***************************************************************************)
EXTENDS ContainerRegistry, TLAPS

Succ(s) == Lifecycle(NoObj)!Successors(s)

Transient == {"STARTING", "STOPPING", "REMOVING"}

(* A path of transitions that leads from phase s along the graph, and to a   *)
(* phase in which an operation may leave the container.                      *)
Follows(s, p) ==
    \/ p = <<>> /\ s \notin Transient
    \/ \E a \in Phases : p = <<a>> /\ a \in Succ(s) /\ a \notin Transient
    \/ \E a, b \in Phases : p = <<a, b>> /\ a \in Succ(s) /\ b \in Succ(a) /\ b \notin Transient

Created(o) == state_[o] # "none"
Operating(t) == pc[t] \in {"work", "callback"}

(* The thread that operates on a container owns its mutex, and only it does; *)
(* the threads in "relock", and in a cleanup or a shutdown, own the          *)
(* registry's.                                                               *)
Owners ==
    /\ \A t \in Threads : Operating(t) => cmutex[target[t]] = t
    /\ \A t \in Threads, o \in Objs : cmutex[o] = t => target[t] = o /\ Operating(t)
    /\ \A t \in Threads : pc[t] = "relock" \/ task[t] \in {"cleanup", "shutdown"} => mutex_ = t

(* Only containers that exist are registered, held or listed. *)
Exist ==
    /\ \A i \in DOMAIN containers_ : Created(containers_[i])
    /\ \A t \in Threads : target[t] # NoObj => Created(target[t])
    /\ \A t \in Threads : \A o \in todo[t] \cup marked[t] : Created(o)

OneId == \A i, j \in DOMAIN containers_ : containers_[i] = containers_[j] => i = j

(* An operation has a path of the graph in front of it ... *)
OnPath ==
    /\ \A t \in Threads : Operating(t) => Follows(state_[target[t]], path[t])
    /\ \A o \in Objs : cmutex[o] = NoThread => state_[o] \notin Transient

(* ... and the remove() of a cleanup leads to REMOVED. *)
EndsRemoved(s, p) ==
    \/ p = <<"REMOVING", "REMOVED">>
    \/ p = <<"REMOVED">>
    \/ p = <<>> /\ s = "REMOVED"

Removing ==
    \A t \in Threads :
        /\ task[t] = "cleanup" /\ pc[t] \in {"lock", "work", "callback"} => verb[t] = "force remove"
        /\ Operating(t) /\ verb[t] = "force remove" => EndsRemoved(state_[target[t]], path[t])

Types == TypeOK /\ path \in [Threads -> Seq(Phases)]

(* The two parts of TypeOK: the maps, and the rest. *)
MapTypes ==
    /\ \A i \in DOMAIN containers_ : i \in Ids /\ containers_[i] \in Objs
    /\ \A n \in DOMAIN name_to_id_ : n \in Names /\ name_to_id_[n] \in Ids

OtherTypes ==
    /\ mutex_ \in Threads \cup {NoThread}
    /\ state_ \in [Objs -> Phases]
    /\ nameOf \in [Objs -> Names]
    /\ cmutex \in [Objs -> Threads \cup {NoThread}]
    /\ callback \in [Objs -> {"registry", "own"}]
    /\ pc \in [Threads -> {"idle", "lock", "work", "callback", "relock", "loop", "info"}]
    /\ task \in [Threads -> {"none", "call", "cleanup", "shutdown"}]
    /\ verb \in [Threads -> Verbs \cup {"none", "remove", "force remove"}]
    /\ target \in [Threads -> Objs \cup {NoObj}]
    /\ \A t \in Threads : pc[t] \in {"lock", "work", "callback", "info"} => target[t] # NoObj
    /\ todo \in [Threads -> SUBSET Objs] /\ marked \in [Threads -> SUBSET Objs]

PathTypes == \A t \in Threads : Len(path[t]) <= 2 /\ path[t] \in Seq(Phases)

IInv == Types /\ Owners /\ Exist /\ OneId /\ NamesResolve /\ OnPath /\ Removing

-----------------------------------------------------------------------------
(* Whatever phase an operation finds, its transitions follow the graph. *)
LEMMA PathsFollow ==
    ASSUME NEW v, NEW s \in Phases \ {"none"}, s \notin Transient, NEW p \in Paths(v, s)
    PROVE  /\ Follows(s, p) /\ p \in Seq(Phases) /\ Len(p) <= 2
           /\ v = "force remove" => p = <<>> \/ p = <<"REMOVING", "REMOVED">>
<1>1. /\ \A r \in {"CREATED", "RESTARTING", "STOPPED"} : "STARTING" \in Succ(r)
      /\ \A r \in {"CREATED", "RESTARTING"} : "ERROR" \in Succ(r)
      /\ \A r \in {"RUNNING", "PAUSED", "RESTARTING"} : "STOPPING" \in Succ(r)
      /\ "PAUSED" \in Succ("RUNNING") /\ "RUNNING" \in Succ("PAUSED")
      /\ \A r \in {"RUNNING", "STOPPED"} : "RESTARTING" \in Succ(r)
      /\ "RUNNING" \in Succ("STARTING") /\ "STOPPED" \in Succ("STOPPING")
      /\ "REMOVED" \in Succ("REMOVING")
      /\ \A r \in {"CREATED", "PAUSED", "RUNNING", "STOPPED", "RESTARTING", "ERROR"} :
            "REMOVING" \in Succ(r)
  BY DEF Succ, Lifecycle!Successors
<1>2. \/ p = <<>>
      \/ p = <<"STARTING", "RUNNING">> /\ s \in {"CREATED", "RESTARTING", "STOPPED"}
      \/ p = <<"ERROR">> /\ s \in {"CREATED", "RESTARTING"}
      \/ p = <<"STOPPING", "STOPPED">> /\ s \in {"RUNNING", "PAUSED", "RESTARTING"}
      \/ p = <<"PAUSED">> /\ s = "RUNNING"
      \/ p = <<"RUNNING">> /\ s = "PAUSED"
      \/ p = <<"RESTARTING">> /\ s \in {"RUNNING", "STOPPED"}
      \/ /\ p = <<"REMOVING", "REMOVED">>
         /\ s \in {"CREATED", "PAUSED", "RUNNING", "STOPPED", "RESTARTING", "ERROR"}
  BY DEF Paths, Phases, Transient
<1>3. v = "force remove" => p = <<>> \/ p = <<"REMOVING", "REMOVED">>
  BY DEF Paths
<1>4. CASE p = <<>>
  BY <1>3, <1>4 DEF Follows
<1>5. ASSUME NEW a \in Phases \ Transient, p = <<a>>, a \in Succ(s)
      PROVE  Follows(s, p) /\ p \in Seq(Phases) /\ Len(p) <= 2
  BY <1>5 DEF Follows
<1>6. ASSUME NEW a \in Phases, NEW b \in Phases \ Transient, p = <<a, b>>, a \in Succ(s), b \in Succ(a)
      PROVE  Follows(s, p) /\ p \in Seq(Phases) /\ Len(p) <= 2
  BY <1>6 DEF Follows
<1>7. /\ {"ERROR", "PAUSED", "RUNNING", "RESTARTING", "STOPPED", "REMOVED"} \subseteq Phases \ Transient
      /\ {"STARTING", "STOPPING", "REMOVING"} \subseteq Phases
  BY DEF Phases, Transient
<1> QED BY <1>1, <1>2, <1>3, <1>4, <1>5, <1>6, <1>7, Zenon

LEMMA EndsRemovedTail ==
    ASSUME NEW p \in Seq(Phases), p # <<>>, NEW s, EndsRemoved(s, p)
    PROVE  EndsRemoved(Head(p), Tail(p))
<1>1. ASSUME NEW a \in Phases, NEW b \in Phases, a = "REMOVING", b = "REMOVED", p = <<a, b>>
      PROVE  EndsRemoved(Head(p), Tail(p))
  <2>1. Tail(p) = <<b>>
    BY <1>1
  <2> QED BY <1>1, <2>1 DEF EndsRemoved
<1>2. ASSUME NEW b \in Phases, b = "REMOVED", p = <<b>>
      PROVE  EndsRemoved(Head(p), Tail(p))
  <2>1. Head(p) = b /\ Tail(p) = <<>>
    BY <1>2
  <2> QED BY <1>2, <2>1 DEF EndsRemoved
<1>3. "REMOVING" \in Phases /\ "REMOVED" \in Phases
  BY DEF Phases
<1> QED BY <1>1, <1>2, <1>3, Zenon DEF EndsRemoved

(* One transition on. *)
LEMMA FollowsTail ==
    ASSUME NEW s \in Phases, NEW p \in Seq(Phases), p # <<>>, Follows(s, p)
    PROVE  /\ Head(p) \in Succ(s) /\ Head(p) \in Phases \ {"none"}
           /\ Follows(Head(p), Tail(p)) /\ Tail(p) \in Seq(Phases) /\ Len(Tail(p)) <= 1
<1>1. \A r : Succ(r) \subseteq Phases \ {"none"}
  BY DEF Succ, Phases, Lifecycle!Successors
<1>2. ASSUME NEW a \in Phases, p = <<a>>, a \in Succ(s), a \notin Transient
      PROVE  Head(p) = a /\ Tail(p) = <<>> /\ Follows(Head(p), Tail(p))
  BY <1>2 DEF Follows
<1>3. ASSUME NEW a \in Phases, NEW b \in Phases, p = <<a, b>>, a \in Succ(s), b \in Succ(a),
             b \notin Transient
      PROVE  Head(p) = a /\ Tail(p) = <<b>> /\ Follows(Head(p), Tail(p))
  BY <1>3 DEF Follows
<1> QED BY <1>1, <1>2, <1>3 DEF Follows

(* TypeOK in its parts. *)
LEMMA TypeParts ==
    Types <=> MapTypes /\ OtherTypes /\ PathTypes /\ path \in [Threads -> Seq(Phases)]
<1>1. DOMAIN containers_ \subseteq Ids /\ Registered \subseteq Objs
      /\ DOMAIN name_to_id_ \subseteq Names /\ (\A n \in DOMAIN name_to_id_ : name_to_id_[n] \in Ids)
      <=> MapTypes
  BY DEF MapTypes, Registered
<1>2. ASSUME path \in [Threads -> Seq(Phases)]
      PROVE  (\A t \in Threads : Len(path[t]) <= 2 /\ \A k \in 1..Len(path[t]) : path[t][k] \in Phases)
             <=> PathTypes
  BY <1>2 DEF PathTypes
<1> QED BY <1>1, <1>2 DEF Types, TypeOK, OtherTypes

LEMMA TypesNext ==
    ASSUME MapTypes', OtherTypes', PathTypes', path' \in [Threads -> Seq(Phases)]
    PROVE  Types'
<1>1. (Types <=> MapTypes /\ OtherTypes /\ PathTypes /\ path \in [Threads -> Seq(Phases)])'
  BY TypeParts, PTL
<1> QED BY <1>1

-----------------------------------------------------------------------------
LEMMA InitIInv == Init => IInv
<1> SUFFICES ASSUME Init PROVE IInv
  OBVIOUS
<1> USE RegistryAssumption DEF Init
<1>0. DOMAIN containers_ = {} /\ DOMAIN name_to_id_ = {}
  OBVIOUS
<1>1. Types
  BY <1>0 DEF Types, TypeOK, Registered, Phases
<1>2. Owners /\ OnPath /\ Removing
  BY DEF Owners, OnPath, Removing, Operating, Transient
<1>3. Exist /\ OneId /\ NamesResolve
  BY <1>0 DEF Exist, OneId, NamesResolve
<1> QED BY <1>1, <1>2, <1>3 DEF IInv

(* The maps by themselves. *)
Maps == MapTypes /\ OneId /\ NamesResolve /\ \A i \in DOMAIN containers_ : Created(containers_[i])

LEMMA MapsFrame ==
    ASSUME IInv, UNCHANGED <<mapVars, state_, nameOf>>
    PROVE  Maps'
<1>1. Maps
  BY TypeParts DEF IInv, Maps, Exist
<1> QED BY <1>1 DEF Maps, MapTypes, OneId, NamesResolve, Created, mapVars

(* A step that touches neither phases nor a container's mutex. *)
LEMMA QuietIInv ==
    ASSUME IInv, OtherTypes', Maps', NEW t \in Threads, ~Operating(t),
           pc'[t] \in {"idle", "lock", "loop", "info", "relock"},
           UNCHANGED <<state_, nameOf, cmutex, path>>,
           \A u \in Threads : u # t => /\ pc'[u] = pc[u] /\ target'[u] = target[u]
                                       /\ task'[u] = task[u] /\ verb'[u] = verb[u],
           target'[t] # NoObj => Created(target'[t]),
           \A u \in Threads : \A o \in todo'[u] \cup marked'[u] : Created(o),
           task'[t] = "cleanup" /\ pc'[t] = "lock" => verb'[t] = "force remove",
           \A u \in Threads : pc'[u] = "relock" \/ task'[u] \in {"cleanup", "shutdown"} => mutex_' = u
    PROVE  IInv'
<1>0. /\ ~Operating(t)'
      /\ \A u \in Threads : u # t => pc'[u] = pc[u] /\ (Operating(u)' <=> Operating(u))
  BY DEF IInv, Types, TypeOK, Operating
<1>1. Types'
  <2>1. PathTypes /\ path \in [Threads -> Seq(Phases)]
    BY TypeParts DEF IInv
  <2>2. MapTypes' /\ PathTypes' /\ path' \in [Threads -> Seq(Phases)]
    BY <2>1 DEF Maps, PathTypes
  <2> QED BY <2>2, TypesNext
<1>2. Owners'
  <2>1. \A u \in Threads : Operating(u)' => cmutex'[target'[u]] = u
    BY <1>0 DEF IInv, Owners
  <2>2. \A u \in Threads, o \in Objs : cmutex'[o] = u => target'[u] = o /\ Operating(u)'
    BY <1>0 DEF IInv, Owners
  <2> QED BY <2>1, <2>2 DEF Owners
<1>3. Exist'
  <2>1. \A i \in DOMAIN containers_' : state_'[containers_'[i]] # "none"
    BY DEF Maps, Created
  <2>2. ASSUME NEW u \in Threads, target'[u] # NoObj
        PROVE  state_'[target'[u]] # "none"
    <3>1. CASE u = t
      BY <2>2, <3>1 DEF Created
    <3>2. CASE u # t
      BY ZenonT(30), <2>2, <3>2 DEF IInv, Exist, Created
    <3> QED BY <3>1, <3>2
  <2> QED BY <2>1, <2>2 DEF Exist, Created
<1>4. OneId' /\ NamesResolve'
  BY DEF Maps
<1>5. OnPath'
  BY <1>0 DEF IInv, OnPath
<1>6. Removing'
  <2> SUFFICES ASSUME NEW u \in Threads
               PROVE  /\ task'[u] = "cleanup" /\ pc'[u] \in {"lock", "work", "callback"} =>
                            verb'[u] = "force remove"
                      /\ Operating(u)' /\ verb'[u] = "force remove" =>
                            EndsRemoved(state_'[target'[u]], path'[u])
    BY DEF Removing
  <2>1. CASE u = t
    BY <1>0, <2>1
  <2>2. CASE u # t
    <3>1. /\ pc'[u] = pc[u] /\ task'[u] = task[u] /\ verb'[u] = verb[u] /\ target'[u] = target[u]
          /\ (Operating(u)' <=> Operating(u)) /\ path' = path /\ state_' = state_
      BY <1>0, <2>2
    <3> QED BY <3>1 DEF IInv, Removing
  <2> QED BY <2>1, <2>2
<1> QED BY <1>1, <1>2, <1>3, <1>4, <1>5, <1>6, Zenon DEF IInv

(* Calls begin. *)
LEMMA CallIInv ==
    ASSUME IInv, NEW t \in Threads, NEW o \in Objs, Created(o),
           NEW v \in Verbs \cup {"remove", "force remove"}, Operate(t, v, o), pc[t] = "idle",
           task' = [task EXCEPT ![t] = "call"],
           UNCHANGED <<mapVars, mutex_, objVars, path, loopVars>>
    PROVE  IInv'
<1> USE DEF objVars, loopVars, Operate, Goto
<1>1. OtherTypes
  BY TypeParts DEF IInv
<1>2. OtherTypes'
  BY <1>1, RegistryAssumption DEF OtherTypes
<1>3. ~Operating(t) /\ pc' = [pc EXCEPT ![t] = "lock"]
  BY DEF Operating
<1>4. /\ \A u \in Threads : u # t => /\ target'[u] = target[u] /\ task'[u] = task[u]
                                   /\ verb'[u] = verb[u] /\ pc'[u] = pc[u]
      /\ target'[t] = o /\ task'[t] = "call" /\ pc'[t] = "lock"
  BY <1>1, Zenon DEF OtherTypes
<1>5. \A u \in Threads : \A q \in todo'[u] \cup marked'[u] : Created(q)
  BY DEF IInv, Exist
<1>6. ASSUME NEW u \in Threads, pc'[u] = "relock" \/ task'[u] \in {"cleanup", "shutdown"}
      PROVE  mutex_' = u
  <2>1. u # t
    BY <1>1, <1>3, <1>4, <1>6, Zenon DEF OtherTypes
  <2>2. pc'[u] = pc[u] /\ task'[u] = task[u]
    BY <1>1, <1>4, <2>1 DEF OtherTypes
  <2> QED BY <1>6, <2>2 DEF IInv, Owners
<1>7. Maps'
  BY MapsFrame
<1> QED BY <1>2, <1>3, <1>4, <1>5, <1>6, <1>7, QuietIInv, Zenon

LEMMA NewOperationIInv ==
    ASSUME IInv, NEW t \in Threads,
           \/ \E i \in Ids, v \in Verbs : CallById(t, v, i)
           \/ \E o \in Objs, v \in {"remove", "force remove"} : CallRemove(t, v, o)
    PROVE  IInv'
<1>1. ASSUME NEW i \in Ids, NEW v \in Verbs, CallById(t, v, i)
      PROVE  IInv'
  <2>1. containers_[i] \in Objs /\ Created(containers_[i])
    BY <1>1, TypeParts DEF IInv, CallById, MapTypes, Exist
  <2> QED BY <1>1, <2>1, CallIInv, Zenon DEF CallById
<1>2. ASSUME NEW o \in Objs, NEW v \in {"remove", "force remove"}, CallRemove(t, v, o)
      PROVE  IInv'
  BY <1>2, CallIInv, Zenon DEF CallRemove, Created
<1> QED BY <1>1, <1>2

LEMMA MutexIInv ==
    ASSUME IInv, NEW t \in Threads,
           removeContainer(t) \/ cleanupStoppedContainers(t) \/ shutdown(t)
    PROVE  IInv'
<1> USE DEF objVars, callVars, loopVars
<1>0. OtherTypes /\ MapTypes
  BY TypeParts DEF IInv
<1>1. /\ pc[t] = "idle" /\ mutex_ = NoThread /\ mutex_' = t
      /\ UNCHANGED <<mapVars, objVars, verb, target, path, marked>>
  BY DEF removeContainer, cleanupStoppedContainers, shutdown, StartLoop
<1>2. /\ \E step \in {"relock", "loop"} : pc' = [pc EXCEPT ![t] = step]
      /\ \/ UNCHANGED <<task, todo>>
         \/ /\ todo' = [todo EXCEPT ![t] = Registered]
            /\ \E name \in {"cleanup", "shutdown"} : task' = [task EXCEPT ![t] = name]
  BY DEF removeContainer, cleanupStoppedContainers, shutdown, StartLoop, Goto
<1>3. Registered \subseteq Objs /\ \A o \in Registered : Created(o)
  BY <1>0 DEF MapTypes, Registered, IInv, Exist
<1>4. OtherTypes'
  <2>0. todo \in [Threads -> SUBSET Objs] /\ task \in [Threads -> {"none", "call", "cleanup", "shutdown"}]
    BY <1>0 DEF OtherTypes
  <2>1. todo' \in [Threads -> SUBSET Objs] /\ task' \in [Threads -> {"none", "call", "cleanup", "shutdown"}]
    <3>1. CASE UNCHANGED <<task, todo>>
      BY <2>0, <3>1
    <3>2. ASSUME NEW name \in {"cleanup", "shutdown"}, task' = [task EXCEPT ![t] = name],
                 todo' = [todo EXCEPT ![t] = Registered]
          PROVE  <2>1!:
      BY <1>3, <2>0, <3>2
    <3> QED BY <1>2, <3>1, <3>2
  <2>2. /\ pc' \in [Threads -> {"idle", "lock", "work", "callback", "relock", "loop", "info"}]
        /\ \A u \in Threads : pc'[u] \in {"lock", "work", "callback", "info"} => target[u] # NoObj
    <3>1. PICK step \in {"relock", "loop"} : pc' = [pc EXCEPT ![t] = step]
      BY <1>2, Zenon
    <3> QED BY <1>0, <3>1 DEF OtherTypes
  <2> QED BY <1>0, <1>1, <2>1, <2>2 DEF OtherTypes
<1>5. ~Operating(t)
  BY <1>1 DEF Operating
<1>6. \A u \in Threads : pc[u] # "relock" /\ task[u] \notin {"cleanup", "shutdown"}
  BY <1>1, RegistryAssumption DEF IInv, Owners
<1>7. /\ \A u \in Threads : u # t => task'[u] = task[u] /\ todo'[u] = todo[u] /\ pc'[u] = pc[u]
      /\ pc'[t] \in {"relock", "loop"}
  BY <1>0, <1>2 DEF OtherTypes
<1>8. \A u \in Threads : pc'[u] = "relock" \/ task'[u] \in {"cleanup", "shutdown"} => mutex_' = u
  BY <1>1, <1>6, <1>7
<1>9. \A u \in Threads : \A q \in todo'[u] \cup marked'[u] : Created(q)
  BY <1>0, <1>1, <1>2, <1>3 DEF IInv, Exist, OtherTypes
<1>a. target'[t] # NoObj => Created(target'[t])
  BY <1>1 DEF IInv, Exist
<1>b. Maps'
  BY <1>1, MapsFrame
<1> QED BY <1>1, <1>4, <1>5, <1>7, <1>8, <1>9, <1>a, <1>b, QuietIInv

(* The loops of cleanupStoppedContainers() and shutdown(). *)
LEMMA ScanIInv ==
    ASSUME IInv, NEW t \in Threads,
           \/ \E o \in Objs : ScanStopped(t, o) \/ RemoveMarked(t, o) \/ ScanRunning(t, o)
           \/ ScanInfo(t)
    PROVE  IInv'
<1> DEFINE Verb == Verbs \cup {"none", "remove", "force remove"}
           Step == {"idle", "lock", "work", "callback", "relock", "loop", "info"}
           Frame == /\ \A u \in Threads : u # t =>
                         /\ target'[u] = target[u] /\ verb'[u] = verb[u] /\ pc'[u] = pc[u]
                         /\ todo'[u] = todo[u] /\ marked'[u] = marked[u]
                    /\ pc' \in [Threads -> Step] /\ target' \in [Threads -> Objs \cup {NoObj}]
                    /\ verb' \in [Threads -> Verb]
                    /\ todo' \in [Threads -> SUBSET Objs] /\ marked' \in [Threads -> SUBSET Objs]
           Here == /\ pc'[t] \in {"lock", "loop", "info"}
                   /\ target'[t] # NoObj => Created(target'[t])
                   /\ pc'[t] \in {"lock", "info"} => target'[t] # NoObj
                   /\ \A q \in todo'[t] \cup marked'[t] : Created(q)
                   /\ task[t] = "cleanup" /\ pc'[t] = "lock" => verb'[t] = "force remove"
<1>0. OtherTypes
  BY TypeParts DEF IInv
<1>1. /\ pc \in [Threads -> Step] /\ target \in [Threads -> Objs \cup {NoObj}]
      /\ verb \in [Threads -> Verb] /\ "stop" \in Verb
      /\ todo \in [Threads -> SUBSET Objs] /\ marked \in [Threads -> SUBSET Objs]
  BY <1>0 DEF OtherTypes, Verbs
<1>2. /\ target[t] # NoObj => Created(target[t])
      /\ \A q \in todo[t] \cup marked[t] : Created(q)
      /\ pc[t] = "info" => target[t] \in Objs /\ Created(target[t])
  BY <1>0 DEF OtherTypes, IInv, Exist
<1>3. /\ pc[t] \in {"loop", "info"} /\ UNCHANGED <<mapVars, mutex_, objVars, task, path>>
  BY Zenon DEF ScanStopped, RemoveMarked, ScanRunning, ScanInfo
<1> HIDE DEF Verb
<1>4. Frame /\ Here
  <2>1. ASSUME NEW o \in Objs, ScanStopped(t, o)
        PROVE  Frame /\ Here
    BY ZenonT(30), <1>1, <1>2, <2>1, RegistryAssumption DEF ScanStopped, Goto
  <2>2. ASSUME NEW o \in Objs, RemoveMarked(t, o)
        PROVE  Frame /\ Here
    <3>1. Frame
      BY <1>1, <2>2 DEF RemoveMarked, Operate, Goto, Verb
    <3> QED BY <1>1, <1>2, <2>2, <3>1, RegistryAssumption DEF RemoveMarked, Operate, Goto
  <2>3. ASSUME NEW o \in Objs, ScanRunning(t, o)
        PROVE  Frame /\ Here
    <3>1. \/ UNCHANGED <<pc, verb, target>>
          \/ /\ pc' = [pc EXCEPT ![t] = "lock"] /\ verb' = [verb EXCEPT ![t] = "stop"]
             /\ target' = [target EXCEPT ![t] = o]
      BY <2>3, Zenon DEF ScanRunning, Operate, Goto
    <3>2. /\ pc[t] = "loop" /\ task[t] = "shutdown" /\ o \in todo[t]
          /\ todo' = [todo EXCEPT ![t] = @ \ {o}] /\ marked' = marked
      BY <2>3 DEF ScanRunning
    <3>3. Frame
      BY <1>1, <3>1, <3>2
    <3>4. \A q \in todo'[t] \cup marked'[t] : Created(q)
      BY <1>1, <1>2, <3>2, Zenon
    <3>5. /\ pc'[t] \in {"lock", "loop"} /\ (target'[t] # NoObj => Created(target'[t]))
          /\ pc'[t] = "lock" => target'[t] # NoObj
      BY <1>1, <1>2, <3>1, <3>2, RegistryAssumption
    <3> QED BY <3>2, <3>3, <3>4, <3>5, Zenon
  <2>4. CASE ScanInfo(t)
    <3>1. Frame
      BY <1>1, <1>2, <2>4 DEF ScanInfo, Goto
    <3>2. pc'[t] = "loop" /\ target'[t] = NoObj
      BY <1>1, <2>4, Zenon DEF ScanInfo, Goto
    <3>3. todo'[t] = todo[t] /\ marked'[t] \subseteq marked[t] \cup {target[t]} /\ pc[t] = "info"
      BY <1>1, <2>4, Zenon DEF ScanInfo
    <3>4. \A q \in todo'[t] \cup marked'[t] : Created(q)
      BY <1>2, <3>3, Zenon
    <3> QED BY <3>1, <3>2, <3>4, Zenon
  <2> QED BY <2>1, <2>2, <2>3, <2>4, Zenon
<1>5. OtherTypes'
  BY <1>0, <1>3, <1>4 DEF OtherTypes, objVars, Verb
<1>6. \A u \in Threads : \A q \in todo'[u] \cup marked'[u] : Created(q)
  BY <1>4, Zenon DEF IInv, Exist
<1>7. ASSUME NEW u \in Threads, pc'[u] = "relock" \/ task'[u] \in {"cleanup", "shutdown"}
      PROVE  mutex_' = u
  <2>1. pc[u] = "relock" \/ task[u] \in {"cleanup", "shutdown"}
    BY <1>3, <1>4, <1>7
  <2> QED BY <1>3, <2>1, Zenon DEF IInv, Owners
<1>8. ~Operating(t)
  BY <1>3, Zenon DEF Operating
<1>9. /\ UNCHANGED <<mapVars, state_, nameOf, cmutex, path, task>>
      /\ pc'[t] \in {"idle", "lock", "loop", "info", "relock"}
  BY <1>3, <1>4 DEF objVars
<1>a. Maps'
  BY <1>9, MapsFrame, Zenon
<1> QED BY <1>4, <1>5, <1>6, <1>7, <1>8, <1>9, <1>a, QuietIInv, Zenon

(* A loop ends, and the registry's mutex is released. *)
LEMMA EndLoopIInv ==
    ASSUME IInv, NEW t \in Threads, EndCleanup(t) \/ EndShutdown(t)
    PROVE  IInv'
<1> USE DEF objVars, loopVars
<1>0. OtherTypes
  BY TypeParts, Zenon DEF IInv
<1>1. /\ pc[t] = "loop" /\ task[t] \in {"cleanup", "shutdown"} /\ mutex_' = NoThread
      /\ task' = [task EXCEPT ![t] = "none"] /\ pc' = [pc EXCEPT ![t] = "idle"]
      /\ UNCHANGED <<objVars, verb, target, path, loopVars>>
  BY Zenon DEF EndCleanup, EndShutdown, EndLoop, Goto
<1>2. OtherTypes'
  BY <1>0, <1>1, Zenon DEF OtherTypes
<1>3. /\ \A u \in Threads : u # t => pc'[u] = pc[u] /\ task'[u] = task[u]
      /\ pc'[t] = "idle" /\ task'[t] = "none" /\ ~Operating(t)
  BY <1>0, <1>1, Zenon DEF OtherTypes, Operating
<1>4. mutex_ = t
  BY <1>1, Zenon DEF IInv, Owners
<1>5. \A u \in Threads : ~(pc'[u] = "relock" \/ task'[u] \in {"cleanup", "shutdown"})
  BY <1>3, <1>4, Zenon DEF IInv, Owners
<1>6. /\ target'[t] # NoObj => Created(target'[t])
      /\ \A u \in Threads : \A q \in todo'[u] \cup marked'[u] : Created(q)
  BY <1>1 DEF IInv, Exist
<1>7. Maps'
  <2>1. CASE EndCleanup(t)
    BY <1>1, <2>1, MapsFrame, Zenon DEF EndCleanup
  <2>2. CASE EndShutdown(t)
    <3>1. DOMAIN containers_' = {} /\ DOMAIN name_to_id_' = {}
      BY <2>2 DEF EndShutdown
    <3> QED BY <3>1 DEF Maps, MapTypes, OneId, NamesResolve
  <2> QED BY <2>1, <2>2
<1> QED BY <1>1, <1>2, <1>3, <1>5, <1>6, <1>7, QuietIInv

(* What removing entries from containers_ alone does. *)
LEMMA WithoutIds ==
    ASSUME IInv, NEW keys, containers_' = Without(containers_, keys), UNCHANGED <<name_to_id_, nameOf, state_>>
    PROVE  Maps'
<1>1. /\ DOMAIN containers_' = DOMAIN containers_ \ keys
      /\ \A i \in DOMAIN containers_' : containers_'[i] = containers_[i]
  BY DEF Without, Restrict
<1>2. MapTypes
  BY TypeParts DEF IInv
<1>3. MapTypes'
  BY <1>1, <1>2 DEF MapTypes
<1>4. NamesResolve' /\ OneId'
  BY <1>1 DEF IInv, NamesResolve, OneId
<1> QED BY <1>1, <1>3, <1>4 DEF IInv, Exist, Maps, Created

LEMMA CleanupRemovedIInv ==
    ASSUME IInv, NEW t \in Threads, cleanupRemovedContainers(t)
    PROVE  IInv'
<1>1. PICK keys : containers_' = Without(containers_, keys)
  BY DEF cleanupRemovedContainers
<1>2. UNCHANGED <<name_to_id_, mutex_, objVars, pc, callVars, loopVars>> /\ pc[t] = "idle"
  BY DEF cleanupRemovedContainers
<1> USE DEF objVars, callVars, loopVars
<1>3. Maps'
  BY <1>1, <1>2, WithoutIds
<1>4. OtherTypes
  BY TypeParts DEF IInv
<1>5. OtherTypes' /\ ~Operating(t)
  BY <1>2, <1>4, Zenon DEF OtherTypes, Operating
<1>6. /\ \A u \in Threads : pc'[u] = "relock" \/ task'[u] \in {"cleanup", "shutdown"} => mutex_' = u
      /\ \A u \in Threads : \A o \in todo'[u] \cup marked'[u] : Created(o)
      /\ target'[t] # NoObj => Created(target'[t])
  BY <1>2 DEF IInv, Owners, Exist
<1> QED BY <1>2, <1>3, <1>5, <1>6, QuietIInv

(* unregisterContainer() removes the entries of one container in both maps:  *)
(* no other container has its name.                                          *)
LEMMA Unregister ==
    ASSUME IInv, NEW o \in Objs, unregisterContainer(o), UNCHANGED <<nameOf, state_>>
    PROVE  /\ Maps'
           /\ \A i \in DOMAIN containers_ : i \notin DOMAIN containers_' => containers_[i] = o
<1>0. MapTypes
  BY TypeParts DEF IInv
<1>1. CASE o \notin Registered
  <2>1. UNCHANGED mapVars
    BY <1>1, Zenon DEF unregisterContainer
  <2> QED BY <2>1, MapsFrame DEF mapVars
<1>2. CASE o \in Registered
  <2> DEFINE k == IdOf(o)
  <2>1. k \in DOMAIN containers_ /\ containers_[k] = o
    BY <1>2 DEF Registered, IdOf
  <2> HIDE DEF k
  <2>2. containers_' = Without(containers_, {k}) /\ name_to_id_' = Without(name_to_id_, {nameOf[o]})
    BY <1>2 DEF unregisterContainer, k
  <2>3. /\ DOMAIN containers_' = DOMAIN containers_ \ {k}
        /\ \A i \in DOMAIN containers_' : containers_'[i] = containers_[i]
        /\ DOMAIN name_to_id_' = DOMAIN name_to_id_ \ {nameOf[o]}
        /\ \A n \in DOMAIN name_to_id_' : name_to_id_'[n] = name_to_id_[n]
    BY <2>2, Zenon DEF Without, Restrict
  <2>4. \A i \in DOMAIN containers_ : i # k => nameOf[containers_[i]] # nameOf[o]
    BY <2>1, Zenon DEF IInv, NamesResolve
  <2>5. NamesResolve'
    BY <2>3, <2>4 DEF IInv, NamesResolve
  <2>6. MapTypes' /\ OneId'
    BY <1>0, <2>3 DEF MapTypes, IInv, OneId
  <2> QED BY <2>1, <2>3, <2>5, <2>6 DEF IInv, Exist, Maps, Created
<1> QED BY <1>1, <1>2

(* createContainer(): the object, the id and the chosen name are all new. *)
LEMMA CreateIInv ==
    ASSUME IInv, NEW t \in Threads, NEW o \in Objs, NEW i \in Ids, NEW n \in Names, NEW m \in Names,
           createContainer(t, o, i, n, m)
    PROVE  IInv'
<1> USE DEF callVars, loopVars
<1>0. OtherTypes /\ MapTypes /\ PathTypes /\ path \in [Threads -> Seq(Phases)]
  BY TypeParts, Zenon DEF IInv
<1>1. /\ state_[o] = "none" /\ i \notin DOMAIN containers_ /\ m \notin DOMAIN name_to_id_
      /\ state_' = [state_ EXCEPT ![o] = "CREATED"] /\ nameOf' = [nameOf EXCEPT ![o] = m]
      /\ UNCHANGED <<mutex_, cmutex, callback, pc, callVars, loopVars>>
  BY Zenon DEF createContainer, ChosenName, isNameUnique
<1>2. /\ DOMAIN containers_' = DOMAIN containers_ \cup {i} /\ containers_'[i] = o
      /\ \A j \in DOMAIN containers_ : containers_'[j] = containers_[j]
      /\ DOMAIN name_to_id_' = DOMAIN name_to_id_ \cup {m} /\ name_to_id_'[m] = i
      /\ \A k \in DOMAIN name_to_id_ : name_to_id_'[k] = name_to_id_[k]
  BY <1>1, Zenon DEF createContainer, Put
<1>3. /\ state_'[o] = "CREATED" /\ nameOf'[o] = m
      /\ \A q \in Objs : q # o => state_'[q] = state_[q] /\ nameOf'[q] = nameOf[q]
      /\ \A q \in Objs : Created(q) => q # o /\ Created(q)'
      /\ Created(o)'
  BY <1>0, <1>1 DEF OtherTypes, Created
<1>4. \A j \in DOMAIN containers_ : containers_[j] \in Objs /\ Created(containers_[j])
  BY <1>0, Zenon DEF MapTypes, IInv, Exist
<1>5. OneId'
  BY <1>2, <1>3, <1>4 DEF IInv, OneId
<1>6. NamesResolve'
  <2>1. ASSUME NEW j \in DOMAIN containers_
        PROVE  /\ nameOf'[containers_'[j]] \in DOMAIN name_to_id_'
               /\ name_to_id_'[nameOf'[containers_'[j]]] = j
    <3>1. containers_'[j] = containers_[j] /\ nameOf'[containers_[j]] = nameOf[containers_[j]]
      BY <1>2, <1>3, <1>4, Zenon
    <3>2. nameOf[containers_[j]] \in DOMAIN name_to_id_ /\ name_to_id_[nameOf[containers_[j]]] = j
      BY Zenon DEF IInv, NamesResolve
    <3> QED BY <1>2, <3>1, <3>2, Zenon
  <2>2. nameOf'[containers_'[i]] \in DOMAIN name_to_id_' /\ name_to_id_'[nameOf'[containers_'[i]]] = i
    BY <1>2, <1>3
  <2> QED BY <1>2, <2>1, <2>2, Zenon DEF NamesResolve
<1>7. Types'
  <2>1. MapTypes'
    BY <1>0, <1>2, Zenon DEF MapTypes
  <2>2. OtherTypes'
    BY <1>0, <1>1, Zenon DEF OtherTypes, Phases
  <2>3. PathTypes' /\ path' \in [Threads -> Seq(Phases)]
    BY <1>0, <1>1, Zenon DEF PathTypes
  <2> QED BY <2>1, <2>2, <2>3, TypesNext, Zenon
<1>8. Owners'
  BY <1>1 DEF IInv, Owners, Operating
<1>9. \A u \in Threads : Operating(u) => target[u] \in Objs /\ target[u] # o
  BY <1>0, <1>3 DEF OtherTypes, IInv, Exist, Operating
<1>a. Exist'
  <2>1. \A j \in DOMAIN containers_' : state_'[containers_'[j]] # "none"
    BY <1>2, <1>3, <1>4 DEF Created
  <2>2. \A u \in Threads : target[u] # NoObj => target[u] \in Objs /\ state_[target[u]] # "none"
    BY <1>0, Zenon DEF OtherTypes, IInv, Exist, Created
  <2>3. \A u \in Threads : \A q \in todo[u] \cup marked[u] : q \in Objs /\ state_[q] # "none"
    BY <1>0 DEF OtherTypes, IInv, Exist, Created
  <2>4. \A q \in Objs : state_[q] # "none" => state_'[q] # "none"
    BY <1>1, <1>3, Zenon
  <2>5. /\ \A u \in Threads : target'[u] # NoObj => state_'[target'[u]] # "none"
        /\ \A u \in Threads : \A q \in todo'[u] \cup marked'[u] : state_'[q] # "none"
    BY <1>1, <2>2, <2>3, <2>4, Zenon
  <2> QED BY <2>1, <2>5, Zenon DEF Exist, Created
<1>b. OnPath'
  BY <1>1, <1>3, <1>9 DEF IInv, OnPath, Operating, Transient
<1>c. Removing'
  <2>1. \A u \in Threads : Operating(u) => state_'[target'[u]] = state_[target[u]]
    BY <1>1, <1>3, <1>9
  <2>2. UNCHANGED <<pc, task, verb, path>>
    BY <1>1
  <2>3. \A u \in Threads : Operating(u)' <=> Operating(u)
    BY <2>2, Zenon DEF Operating
  <2> QED BY <2>1, <2>2, <2>3, Zenon DEF IInv, Removing
<1> QED BY <1>5, <1>6, <1>7, <1>8, <1>a, <1>b, <1>c DEF IInv

LEMMA SetCallbackIInv ==
    ASSUME IInv, NEW t \in Threads, NEW o \in Objs, setEventCallback(t, o)
    PROVE  IInv'
<1> USE DEF callVars, loopVars
<1>0. OtherTypes
  BY TypeParts, Zenon DEF IInv
<1>1. /\ pc[t] = "idle" /\ callback' = [callback EXCEPT ![o] = "own"]
      /\ UNCHANGED <<mapVars, mutex_, state_, nameOf, cmutex, pc, callVars, loopVars>>
  BY Zenon DEF setEventCallback
<1>2. OtherTypes' /\ ~Operating(t)
  BY <1>0, <1>1 DEF OtherTypes, Operating
<1>3. Maps'
  BY <1>1, MapsFrame, Zenon
<1>4. /\ \A u \in Threads : pc'[u] = "relock" \/ task'[u] \in {"cleanup", "shutdown"} => mutex_' = u
      /\ \A u \in Threads : \A q \in todo'[u] \cup marked'[u] : Created(q)
      /\ target'[t] # NoObj => Created(target'[t])
  BY <1>1, Zenon DEF IInv, Owners, Exist
<1> QED BY <1>1, <1>2, <1>3, <1>4, QuietIInv

(* What Resume(t) does to the threads. *)
LEMMA ResumeThreads ==
    ASSUME IInv, NEW t \in Threads, pc[t] \in {"lock", "work"}, Resume(t), UNCHANGED mutex_
    PROVE  /\ \A u \in Threads : u # t => /\ pc'[u] = pc[u] /\ target'[u] = target[u]
                                         /\ task'[u] = task[u] /\ verb'[u] = verb[u]
           /\ pc'[t] \in {"idle", "loop"} /\ target'[t] = NoObj
           /\ \A u \in Threads : pc'[u] = "relock" \/ task'[u] \in {"cleanup", "shutdown"} => mutex_' = u
           /\ UNCHANGED <<state_, nameOf, callback, loopVars>> /\ cmutex' \in [Objs -> Threads \cup {NoThread}]
                 => OtherTypes'
<1> USE DEF Resume, Goto
<1>0. OtherTypes
  BY TypeParts, Zenon DEF IInv
<1>1. /\ \A u \in Threads : u # t => /\ pc'[u] = pc[u] /\ target'[u] = target[u]
                                    /\ task'[u] = task[u] /\ verb'[u] = verb[u]
      /\ pc'[t] \in {"idle", "loop"} /\ target'[t] = NoObj
      /\ task'[t] \in {task[t], "none"}
  BY <1>0 DEF OtherTypes
<1>2. ASSUME NEW u \in Threads, pc'[u] = "relock" \/ task'[u] \in {"cleanup", "shutdown"}
      PROVE  mutex_' = u
  <2>1. pc[u] = "relock" \/ task[u] \in {"cleanup", "shutdown"}
    BY <1>1, <1>2
  <2> QED BY <2>1 DEF IInv, Owners
<1>3. /\ pc' \in [Threads -> {"idle", "lock", "work", "callback", "relock", "loop", "info"}]
      /\ task' \in [Threads -> {"none", "call", "cleanup", "shutdown"}]
      /\ verb' \in [Threads -> Verbs \cup {"none", "remove", "force remove"}]
      /\ target' \in [Threads -> Objs \cup {NoObj}]
  BY <1>0 DEF OtherTypes
<1>4. \A u \in Threads : pc'[u] \in {"lock", "work", "callback", "info"} => target'[u] # NoObj
  BY <1>0, <1>1 DEF OtherTypes
<1>5. UNCHANGED <<state_, nameOf, callback, loopVars>> /\ cmutex' \in [Objs -> Threads \cup {NoThread}]
        => OtherTypes'
  BY ZenonT(30), <1>0, <1>3, <1>4 DEF OtherTypes, loopVars
<1> QED BY <1>1, <1>2, <1>5

(* Who operates on a container. *)
LEMMA Operators ==
    ASSUME IInv, NEW u \in Threads, Operating(u)
    PROVE  target[u] \in Objs /\ cmutex[target[u]] = u
<1>1. OtherTypes
  BY TypeParts DEF IInv
<1>2. target[u] \in Objs
  BY <1>1 DEF OtherTypes, Operating
<1> QED BY <1>2 DEF IInv, Owners

(* An operation takes the container's mutex, unless it throws at once. *)
LEMMA BeginIInv ==
    ASSUME IInv, NEW t \in Threads, Begin(t)
    PROVE  IInv'
<1> USE DEF loopVars
<1>0. OtherTypes /\ MapTypes /\ PathTypes /\ path \in [Threads -> Seq(Phases)]
  BY TypeParts, Zenon DEF IInv
<1>1. /\ pc[t] = "lock" /\ cmutex[target[t]] = NoThread
      /\ UNCHANGED <<mapVars, mutex_, state_, nameOf, callback, loopVars>>
  BY Zenon DEF Begin
<1>2. Maps' /\ ~Operating(t)
  BY <1>1, MapsFrame, Zenon DEF Operating
<1>3. /\ target[t] \in Objs /\ state_[target[t]] \in Phases \ {"none"}
      /\ state_[target[t]] \notin Transient
  BY <1>0, <1>1, Zenon DEF OtherTypes, IInv, Exist, Created, OnPath
<1>4. CASE Resume(t) /\ UNCHANGED <<cmutex, path>>
  <2>1. cmutex' \in [Objs -> Threads \cup {NoThread}]
    BY <1>0, <1>4, Zenon DEF OtherTypes
  <2>2. \A u \in Threads : \A q \in todo'[u] \cup marked'[u] : Created(q)
    BY <1>1, Zenon DEF IInv, Exist
  <2> HIDE DEF loopVars
  <2>3. /\ \A u \in Threads : u # t => /\ pc'[u] = pc[u] /\ target'[u] = target[u]
                                      /\ task'[u] = task[u] /\ verb'[u] = verb[u]
        /\ pc'[t] \in {"idle", "loop"} /\ target'[t] = NoObj
        /\ \A u \in Threads : pc'[u] = "relock" \/ task'[u] \in {"cleanup", "shutdown"} => mutex_' = u
        /\ OtherTypes'
    BY <1>1, <1>4, <2>1, ResumeThreads, Zenon
  <2> QED BY <1>1, <1>2, <1>4, <2>2, <2>3, QuietIInv
<1>5. ASSUME NEW p \in Paths(verb[t], state_[target[t]]), p # <<>>, cmutex' = [cmutex EXCEPT ![target[t]] = t],
             path' = [path EXCEPT ![t] = p], Goto(t, "work"), UNCHANGED <<task, verb, target>>
      PROVE  IInv'
  <2>1. /\ Follows(state_[target[t]], p) /\ p \in Seq(Phases) /\ Len(p) <= 2
        /\ verb[t] = "force remove" => p = <<>> \/ p = <<"REMOVING", "REMOVED">>
    BY <1>3, PathsFollow
  <2>2. /\ pc'[t] = "work" /\ path'[t] = p /\ cmutex'[target[t]] = t
        /\ \A u \in Threads : u # t => pc'[u] = pc[u] /\ path'[u] = path[u]
        /\ \A q \in Objs : q # target[t] => cmutex'[q] = cmutex[q]
    BY ZenonT(30), <1>0, <1>3, <1>5 DEF OtherTypes, Goto
  <2>3. Operating(t)' /\ \A u \in Threads : u # t => (Operating(u)' <=> Operating(u))
    BY <2>2, Zenon DEF Operating
  <2>4. \A u \in Threads : Operating(u) => target[u] # target[t] /\ target[u] \in Objs
    BY <1>1, Operators, RegistryAssumption, Zenon
  <2>5. Types'
    <3>1. OtherTypes'
      BY <1>0, <1>1, <1>3, <1>5, Zenon DEF OtherTypes, Goto
    <3>2. path' \in [Threads -> Seq(Phases)]
      BY <1>0, <1>5, <2>1, Zenon
    <3>3. PathTypes'
      BY <1>0, <2>1, <2>2, Zenon DEF PathTypes
    <3> QED BY <1>2, <3>1, <3>2, <3>3, TypesNext DEF Maps
  <2>6. Owners'
    <3>1. \A u \in Threads : Operating(u)' => cmutex'[target'[u]] = u
      BY <1>5, <2>2, <2>3, <2>4 DEF IInv, Owners
    <3>2. \A u \in Threads, o \in Objs : cmutex'[o] = u => target'[u] = o /\ Operating(u)'
      BY <1>5, <2>2, <2>3 DEF IInv, Owners
    <3>3. \A u \in Threads : pc'[u] = "relock" \/ task'[u] \in {"cleanup", "shutdown"} => mutex_' = u
      <4>1. /\ mutex_' = mutex_ /\ task' = task
            /\ \A u \in Threads : pc'[u] = "relock" => pc[u] = "relock"
        BY <1>1, <1>5, <2>2, Zenon
      <4>2. \A u \in Threads : pc[u] = "relock" \/ task[u] \in {"cleanup", "shutdown"} => mutex_ = u
        BY Zenon DEF IInv, Owners
      <4> QED BY <4>1, <4>2, Zenon
    <3> QED BY <3>1, <3>2, <3>3, Zenon DEF Owners
  <2>7. Exist'
    BY <1>1, <1>2, <1>5, Zenon DEF IInv, Exist, Maps, Created
  <2>8. OnPath'
    <3>1. \A u \in Threads : Operating(u)' => Follows(state_'[target'[u]], path'[u])
      BY <1>1, <1>5, <2>1, <2>2, <2>3, Zenon DEF IInv, OnPath
    <3>2. \A o \in Objs : cmutex'[o] = NoThread => state_'[o] \notin Transient
      BY <1>1, <2>2, RegistryAssumption, Zenon DEF IInv, OnPath
    <3> QED BY <3>1, <3>2 DEF OnPath
  <2>9. Removing'
    <3> SUFFICES ASSUME NEW u \in Threads
                 PROVE  /\ task'[u] = "cleanup" /\ pc'[u] \in {"lock", "work", "callback"} =>
                              verb'[u] = "force remove"
                        /\ Operating(u)' /\ verb'[u] = "force remove" =>
                              EndsRemoved(state_'[target'[u]], path'[u])
      BY DEF Removing
    <3>1. CASE u = t
      BY ZenonT(30), <1>1, <1>5, <2>1, <2>2, <3>1 DEF IInv, Removing, EndsRemoved
    <3>2. CASE u # t
      BY <1>1, <1>5, <2>2, <2>3, <3>2, Zenon DEF IInv, Removing
    <3> QED BY <3>1, <3>2, Zenon
  <2> QED BY <1>2, <2>5, <2>6, <2>7, <2>8, <2>9, Zenon DEF IInv, Maps
<1> QED BY <1>4, <1>5 DEF Begin

(* A transition: nobody else can be operating on the container. *)
LEMMA TransitionIInv ==
    ASSUME IInv, NEW t \in Threads, Transition(t)
    PROVE  /\ IInv' /\ target[t] \in Objs
           /\ Head(path[t]) \in Succ(state_[target[t]]) /\ state_[target[t]] # "none"
           /\ Head(path[t]) # "none"
<1> USE DEF loopVars
<1>0. OtherTypes /\ MapTypes /\ PathTypes /\ path \in [Threads -> Seq(Phases)]
  BY TypeParts DEF IInv
<1> DEFINE o == target[t]
           s == Head(path[t])
           rest == Tail(path[t])
<1>1. /\ pc[t] = "work" /\ path[t] # <<>>
      /\ state_' = [state_ EXCEPT ![o] = s] /\ path' = [path EXCEPT ![t] = rest]
      /\ UNCHANGED <<mapVars, mutex_, nameOf, cmutex, callback, task, verb, target, loopVars>>
      /\ \E step \in {"work", "callback"} : pc' = [pc EXCEPT ![t] = step]
  BY Zenon DEF Transition, Goto
<1>2. o \in Objs /\ state_[o] \in Phases \ {"none"} /\ Operating(t) /\ path[t] \in Seq(Phases)
  BY <1>0, <1>1 DEF OtherTypes, IInv, Exist, Created, Operating
<1>3. /\ s \in Succ(state_[o]) /\ s \in Phases \ {"none"}
      /\ Follows(s, rest) /\ rest \in Seq(Phases) /\ Len(rest) <= 1
  <2>1. Follows(state_[o], path[t])
    BY <1>2 DEF IInv, OnPath
  <2> QED BY <1>1, <1>2, <2>1, FollowsTail
<1>4. verb[t] = "force remove" => EndsRemoved(s, rest)
  <2>1. verb[t] = "force remove" => EndsRemoved(state_[o], path[t])
    BY <1>2, Zenon DEF IInv, Removing
  <2> QED BY <1>1, <1>2, <2>1, EndsRemovedTail, Zenon
<1>5. \A u \in Threads : u # t /\ Operating(u) => target[u] # o /\ target[u] \in Objs
  BY <1>2, Operators, Zenon
<1>6. cmutex[o] = t
  BY <1>2, Zenon DEF IInv, Owners
<1> HIDE DEF o, s, rest
<1>7. /\ pc'[t] \in {"work", "callback"} /\ path'[t] = rest /\ state_'[o] = s
      /\ \A u \in Threads : u # t => pc'[u] = pc[u] /\ path'[u] = path[u]
      /\ \A q \in Objs : q # o => state_'[q] = state_[q]
  BY <1>0, <1>1, <1>2 DEF OtherTypes
<1>8. Operating(t)' /\ \A u \in Threads : Operating(u)' <=> Operating(u)
  BY <1>2, <1>7, Zenon DEF Operating
<1>9. \A q \in Objs : state_[q] # "none" => state_'[q] # "none"
  BY <1>3, <1>7
<1>a. Types'
  <2>1. MapTypes'
    BY <1>0, <1>1, Zenon DEF MapTypes, mapVars
  <2>2. PathTypes'
    BY <1>0, <1>3, <1>7 DEF PathTypes
  <2>3. path' \in [Threads -> Seq(Phases)]
    BY <1>0, <1>1, <1>3, Zenon
  <2>4. /\ pc' \in [Threads -> {"idle", "lock", "work", "callback", "relock", "loop", "info"}]
        /\ state_' \in [Objs -> Phases]
    <3>1. state_' \in [Objs -> Phases]
      BY <1>0, <1>1, <1>3, Zenon DEF OtherTypes
    <3>2. PICK step \in {"work", "callback"} : pc' = [pc EXCEPT ![t] = step]
      BY <1>1, Zenon
    <3> QED BY <1>0, <3>1, <3>2, Zenon DEF OtherTypes
  <2>5. \A u \in Threads : pc'[u] \in {"lock", "work", "callback", "info"} => target[u] # NoObj
    BY <1>0, <1>1, <1>7 DEF OtherTypes
  <2>6. OtherTypes'
    BY <1>0, <1>1, <2>4, <2>5 DEF OtherTypes
  <2> QED BY <2>1, <2>2, <2>3, <2>6, TypesNext, Zenon
<1>b. Owners'
  <2>1. /\ \A u \in Threads : Operating(u)' => cmutex'[target'[u]] = u
        /\ \A u \in Threads, q \in Objs : cmutex'[q] = u => target'[u] = q /\ Operating(u)'
    BY <1>1, <1>8, Zenon DEF IInv, Owners
  <2>2. ASSUME NEW u \in Threads, pc'[u] = "relock" \/ task'[u] \in {"cleanup", "shutdown"}
        PROVE  mutex_' = u
    <3>1. pc[u] = "relock" \/ task[u] \in {"cleanup", "shutdown"}
      BY <1>1, <1>7, <2>2, Zenon
    <3> QED BY <1>1, <3>1, Zenon DEF IInv, Owners
  <2> QED BY <2>1, <2>2, Zenon DEF Owners
<1>c. Exist'
  <2>1. /\ \A i \in DOMAIN containers_ : containers_[i] \in Objs /\ state_[containers_[i]] # "none"
        /\ \A u \in Threads : target[u] # NoObj => target[u] \in Objs /\ state_[target[u]] # "none"
        /\ \A u \in Threads : \A q \in todo[u] \cup marked[u] : q \in Objs /\ state_[q] # "none"
    BY <1>0, Zenon DEF OtherTypes, MapTypes, IInv, Exist, Created
  <2> QED BY <1>1, <1>9, <2>1 DEF Exist, Created, mapVars
<1>d. OneId' /\ NamesResolve'
  BY <1>1, Zenon DEF IInv, OneId, NamesResolve, mapVars
<1>e. OnPath'
  <2>1. ASSUME NEW u \in Threads, Operating(u)'
        PROVE  Follows(state_'[target'[u]], path'[u])
    <3>1. CASE u = t
      BY <1>1, <1>3, <1>7, <3>1, Zenon DEF o
    <3>2. CASE u # t
      BY <1>1, <1>5, <1>7, <1>8, <2>1, <3>2 DEF IInv, OnPath
    <3> QED BY <3>1, <3>2, Zenon
  <2>2. \A q \in Objs : cmutex'[q] = NoThread => state_'[q] \notin Transient
    BY ZenonT(30), <1>1, <1>6, <1>7, RegistryAssumption DEF IInv, OnPath
  <2> QED BY <2>1, <2>2, Zenon DEF OnPath
<1>f. Removing'
  <2> SUFFICES ASSUME NEW u \in Threads
               PROVE  /\ task'[u] = "cleanup" /\ pc'[u] \in {"lock", "work", "callback"} =>
                            verb'[u] = "force remove"
                      /\ Operating(u)' /\ verb'[u] = "force remove" =>
                            EndsRemoved(state_'[target'[u]], path'[u])
    BY DEF Removing
  <2>1. CASE u = t
    BY ZenonT(30), <1>1, <1>4, <1>7, <2>1 DEF IInv, Removing, o
  <2>2. CASE u # t
    <3>1. /\ pc'[u] = pc[u] /\ task'[u] = task[u] /\ verb'[u] = verb[u] /\ path'[u] = path[u]
          /\ target'[u] = target[u] /\ (Operating(u)' <=> Operating(u))
          /\ Operating(u) => state_'[target[u]] = state_[target[u]]
      BY <1>1, <1>5, <1>7, <1>8, <2>2, Zenon
    <3> QED BY <3>1 DEF IInv, Removing
  <2> QED BY <2>1, <2>2, Zenon
<1>g. IInv'
  BY <1>a, <1>b, <1>c, <1>d, <1>e, <1>f, Zenon DEF IInv
<1> QED BY <1>2, <1>3, <1>g, Zenon DEF o, s

(* The operation returns, and the cleanup drops what it removed. *)
LEMMA FinishIInv ==
    ASSUME IInv, NEW t \in Threads, Finish(t)
    PROVE  IInv'
<1>0. OtherTypes /\ MapTypes /\ PathTypes /\ path \in [Threads -> Seq(Phases)]
  BY TypeParts DEF IInv
<1>1. /\ pc[t] = "work" /\ path[t] = <<>> /\ cmutex' = [cmutex EXCEPT ![target[t]] = NoThread]
      /\ Resume(t) /\ UNCHANGED <<mutex_, state_, nameOf, callback, path, loopVars>>
      /\ unregisterContainer(target[t]) \/ UNCHANGED mapVars
  BY Zenon DEF Finish
<1>2. Operating(t) /\ target[t] \in Objs /\ cmutex[target[t]] = t
  BY <1>1, Operators, Zenon DEF Operating
<1>3. Maps'
  BY <1>1, <1>2, Unregister, MapsFrame, Zenon
<1>4. state_[target[t]] \notin Transient
  <2>1. Follows(state_[target[t]], <<>>)
    BY <1>1, <1>2, Zenon DEF IInv, OnPath
  <2> QED BY <2>1, Zenon DEF Follows
<1>5. cmutex' \in [Objs -> Threads \cup {NoThread}]
  BY <1>0, <1>1, Zenon DEF OtherTypes
<1>6. /\ \A u \in Threads : u # t => /\ pc'[u] = pc[u] /\ target'[u] = target[u]
                                    /\ task'[u] = task[u] /\ verb'[u] = verb[u]
      /\ pc'[t] \in {"idle", "loop"} /\ target'[t] = NoObj
      /\ \A u \in Threads : pc'[u] = "relock" \/ task'[u] \in {"cleanup", "shutdown"} => mutex_' = u
      /\ OtherTypes'
  BY <1>1, <1>5, ResumeThreads, Zenon
<1>7. ~Operating(t)' /\ \A u \in Threads : u # t => (Operating(u)' <=> Operating(u))
  BY <1>6, Zenon DEF Operating
<1>8. /\ cmutex'[target[t]] = NoThread
      /\ \A q \in Objs : q # target[t] => cmutex'[q] = cmutex[q]
  BY <1>0, <1>1, <1>2, Zenon DEF OtherTypes
<1>9. \A u \in Threads : u # t /\ Operating(u) => target[u] # target[t] /\ target[u] \in Objs
  BY <1>2, Operators, Zenon
<1>a. Types'
  <2>1. PathTypes' /\ path' \in [Threads -> Seq(Phases)]
    BY <1>0, <1>1, Zenon DEF PathTypes
  <2> QED BY <1>3, <1>6, <2>1, TypesNext, Zenon DEF Maps
<1>b. Owners'
  <2>1. \A u \in Threads : Operating(u)' => cmutex'[target'[u]] = u
    <3> SUFFICES ASSUME NEW u \in Threads, Operating(u)'
                 PROVE  cmutex'[target'[u]] = u
      OBVIOUS
    <3>1. u # t /\ Operating(u)
      BY <1>7, Zenon
    <3>2. target'[u] = target[u] /\ target[u] # target[t] /\ target[u] \in Objs
      BY <1>6, <1>9, <3>1, Zenon
    <3>3. cmutex[target[u]] = u
      BY <3>1, Operators, Zenon
    <3> QED BY <1>8, <3>2, <3>3, Zenon
  <2>2. \A u \in Threads, o \in Objs : cmutex'[o] = u => target'[u] = o /\ Operating(u)'
    BY <1>2, <1>6, <1>7, <1>8, RegistryAssumption DEF IInv, Owners
  <2> QED BY <1>6, <2>1, <2>2, Zenon DEF Owners
<1>c. Exist'
  <2>1. \A i \in DOMAIN containers_' : state_'[containers_'[i]] # "none"
    BY <1>3, Zenon DEF Maps, Created
  <2>2. \A u \in Threads : target'[u] # NoObj => state_'[target'[u]] # "none"
    BY <1>1, <1>6 DEF IInv, Exist, Created
  <2>3. \A u \in Threads : \A q \in todo'[u] \cup marked'[u] : state_'[q] # "none"
    BY <1>1, Zenon DEF IInv, Exist, Created, loopVars
  <2> QED BY <2>1, <2>2, <2>3, Zenon DEF Exist, Created
<1>d. OnPath'
  <2>1. \A u \in Threads : Operating(u)' => Follows(state_'[target'[u]], path'[u])
    <3> SUFFICES ASSUME NEW u \in Threads, Operating(u)'
                 PROVE  Follows(state_'[target'[u]], path'[u])
      BY Zenon
    <3>1. u # t /\ Operating(u)
      BY <1>7
    <3>2. target'[u] = target[u] /\ state_' = state_ /\ path' = path
      BY <1>1, <1>6, <3>1, Zenon
    <3> QED BY <3>1, <3>2, Zenon DEF IInv, OnPath
  <2>2. \A o \in Objs : cmutex'[o] = NoThread => state_'[o] \notin Transient
    BY <1>1, <1>4, <1>8 DEF IInv, OnPath
  <2> QED BY <2>1, <2>2, Zenon DEF OnPath
<1>e. Removing'
  <2> SUFFICES ASSUME NEW u \in Threads
               PROVE  /\ task'[u] = "cleanup" /\ pc'[u] \in {"lock", "work", "callback"} =>
                            verb'[u] = "force remove"
                      /\ Operating(u)' /\ verb'[u] = "force remove" =>
                            EndsRemoved(state_'[target'[u]], path'[u])
    BY DEF Removing
  <2>1. CASE u = t
    BY <1>6, <1>7, <2>1, Zenon
  <2>2. CASE u # t
    BY <1>1, <1>6, <1>7, <2>2, Zenon DEF IInv, Removing
  <2> QED BY <2>1, <2>2
<1> QED BY <1>3, <1>a, <1>b, <1>c, <1>d, <1>e DEF IInv, Maps

LEMMA NextIInv == IInv /\ [Next]_vars => IInv'
<1> SUFFICES ASSUME IInv, [Next]_vars
             PROVE  IInv'
  BY Zenon
<1>1. CASE UNCHANGED vars
  <2> USE <1>1 DEF vars, objVars, callVars, loopVars
  <2>1. Types /\ OtherTypes /\ PathTypes /\ path \in [Threads -> Seq(Phases)]
    BY TypeParts, Zenon DEF IInv
  <2>2. Maps'
    BY MapsFrame, Zenon
  <2>3. OtherTypes' /\ PathTypes' /\ path' \in [Threads -> Seq(Phases)]
    BY <2>1, Zenon DEF OtherTypes, PathTypes
  <2>4. Types'
    BY <2>2, <2>3, TypesNext DEF Maps
  <2>5. Owners' /\ OnPath' /\ Removing'
    BY ZenonT(30) DEF IInv, Owners, OnPath, Removing, Operating
  <2>6. Exist'
    BY <2>2 DEF IInv, Exist, Created, Maps
  <2> QED BY <2>2, <2>4, <2>5, <2>6, Zenon DEF IInv, Maps
<1>2. ASSUME NEW t \in Threads, NewCall(t)
      PROVE  IInv'
  BY <1>2, CreateIInv, SetCallbackIInv, NewOperationIInv, MutexIInv, CleanupRemovedIInv
     DEF NewCall, getContainerByName
<1>3. ASSUME NEW t \in Threads, LoopStep(t) \/ ScanInfo(t)
      PROVE  IInv'
  BY <1>3, EndLoopIInv, ScanIInv DEF LoopStep
<1>4. ASSUME NEW t \in Threads, Begin(t) \/ Transition(t) \/ Finish(t)
      PROVE  IInv'
  BY <1>4, BeginIInv, TransitionIInv, FinishIInv, Zenon
<1> QED BY <1>1, <1>2, <1>3, <1>4 DEF Next

LEMMA Invariance == Spec => []IInv
BY InitIInv, NextIInv, PTL DEF Spec

-----------------------------------------------------------------------------
(* Every variable has its type, for all sets of objects, ids and threads.    *)
THEOREM TypeCorrect == Spec => []TypeOK
<1>1. IInv => TypeOK
  BY DEF IInv, Types
<1> QED BY <1>1, Invariance, PTL

(* Every registered container is found under its name, whatever the calls    *)
(* of createContainer, the cleanups and shutdown do to the two maps.         *)
THEOREM NamesLead == Spec => []NamesResolve
<1>1. IInv => NamesResolve
  BY Zenon DEF IInv
<1> QED BY <1>1, Invariance, PTL

(* No two or more threads ever wait for each other: a thread that waits for  *)
(* a container's mutex waits for one that works, or that waits for itself.   *)
THEOREM NoThreadsCross == Spec => []NoCrossDeadlock
<1>1. IInv => NoCrossDeadlock
  <2> SUFFICES ASSUME IInv, NEW S \in (SUBSET Threads) \ {{}}
               PROVE  \E t \in S : OwnerWanted(t) \notin S \ {t}
    BY DEF NoCrossDeadlock
  <2>1. PICK t \in S : TRUE
    <3>1. S # {}
      OBVIOUS
    <3> QED BY <3>1
  <2>2. OtherTypes
    BY TypeParts DEF IInv
  <2>3. ASSUME NEW u \in Threads, pc[u] \in {"relock", "callback", "work"}
        PROVE  OwnerWanted(u) \in {u, NoThread}
    BY <2>2, <2>3, Operators, Zenon DEF OwnerWanted, IInv, Owners, Operating
  <2>4. CASE pc[t] \notin {"lock", "info"}
    <3>1. pc[t] \in {"relock", "callback", "work"} \/ OwnerWanted(t) = NoThread
      BY <2>2, <2>4, Zenon DEF OwnerWanted, OtherTypes
    <3> QED BY <2>3, <3>1, RegistryAssumption
  <2>5. CASE pc[t] \in {"lock", "info"}
    <3>1. OwnerWanted(t) = cmutex[target[t]] /\ target[t] \in Objs
      BY <2>2, <2>5 DEF OwnerWanted, OtherTypes
    <3>2. CASE OwnerWanted(t) \notin S
      BY <3>2, Zenon
    <3>3. ASSUME NEW u \in S, OwnerWanted(t) = u
          PROVE  OwnerWanted(u) \notin S \ {u}
      <4>1. Operating(u)
        BY <3>1, <3>3, Zenon DEF IInv, Owners
      <4> QED BY <2>3, <4>1, RegistryAssumption, Zenon DEF Operating
    <3> QED BY <3>2, <3>3
  <2> QED BY <2>4, <2>5
<1> QED BY <1>1, Invariance, PTL

(* The steps but createContainer() and Transition leave the phases alone. *)
LEMMA PhasesStay ==
    ASSUME NEW t \in Threads,
           \/ \E o \in Objs : setEventCallback(t, o)
           \/ \E i \in Ids, v \in Verbs : CallById(t, v, i)
           \/ \E o \in Objs, v \in {"remove", "force remove"} : CallRemove(t, v, o)
           \/ \E n \in Names : getContainerByName(t, n)
           \/ removeContainer(t)
           \/ cleanupStoppedContainers(t) \/ cleanupRemovedContainers(t) \/ shutdown(t)
           \/ Begin(t) \/ Finish(t) \/ ScanInfo(t) \/ LoopStep(t)
    PROVE  UNCHANGED state_
<1> USE DEF objVars
<1>1. CASE \/ \E o \in Objs : setEventCallback(t, o)
           \/ \E i \in Ids, v \in Verbs : CallById(t, v, i)
           \/ \E o \in Objs, v \in {"remove", "force remove"} : CallRemove(t, v, o)
  BY ZenonT(30), <1>1 DEF setEventCallback, CallById, CallRemove
<1>2. CASE \/ \E n \in Names : getContainerByName(t, n)
           \/ removeContainer(t)
           \/ cleanupStoppedContainers(t) \/ cleanupRemovedContainers(t) \/ shutdown(t)
  BY ZenonT(30), <1>2 DEF getContainerByName, removeContainer, cleanupStoppedContainers, cleanupRemovedContainers,
              shutdown, StartLoop
<1>3. CASE Begin(t) \/ Finish(t) \/ ScanInfo(t) \/ LoopStep(t)
  BY <1>3, Zenon DEF Begin, Finish, ScanInfo, LoopStep, EndCleanup, EndShutdown, EndLoop,
     ScanStopped, RemoveMarked, ScanRunning
<1> QED BY <1>1, <1>2, <1>3

(* Several threads together drive a container only along the graph of        *)
(* ContainerLifecycle.                                                       *)
THEOREM LifecycleFollowed == Spec => ContainersFollowLifecycle
<1> DEFINE A == \A o \in Objs : Lifecycle(o)!Next \/ UNCHANGED Lifecycle(o)!vars
<1>1. IInv /\ [Next]_vars => [A]_vars
  <2> SUFFICES ASSUME IInv, Next, NEW o \in Objs
               PROVE  Lifecycle(o)!Next \/ UNCHANGED Lifecycle(o)!vars
    OBVIOUS
  <2>0. OtherTypes
    BY TypeParts DEF IInv
  <2>1. PICK t \in Threads :
          NewCall(t) \/ Begin(t) \/ Transition(t) \/ Finish(t) \/ ScanInfo(t) \/ LoopStep(t)
    BY DEF Next
  <2>2. CASE UNCHANGED state_
    BY <2>2, Zenon DEF Lifecycle!vars
  <2>3. CASE Transition(t)
    <3> DEFINE s == Head(path[t])
    <3>1. /\ state_' = [state_ EXCEPT ![target[t]] = s]
          /\ target[t] \in Objs /\ s \in Succ(state_[target[t]]) /\ state_[target[t]] # "none"
          /\ s # "none"
      BY <2>3, TransitionIInv, Zenon DEF Transition
    <3> HIDE DEF s
    <3>2. CASE o # target[t]
      <4>1. state_'[o] = state_[o]
        BY <2>0, <3>1, <3>2 DEF OtherTypes
      <4> QED BY <4>1 DEF Lifecycle!vars
    <3>3. CASE o = target[t]
      <4>1. state_'[o] = s
        BY <2>0, <3>1, <3>3 DEF OtherTypes
      <4>2. Succ(state_[o]) = Lifecycle(o)!Successors(state_[o])
        BY Zenon DEF Succ, Lifecycle!Successors
      <4>3. Lifecycle(o)!Move(s)
        BY <3>1, <3>3, <4>1, <4>2, Zenon DEF Lifecycle!Move
      <4>4. s \in Lifecycle(o)!Successors(IF state_[o] = "none" THEN "CREATED" ELSE state_[o])
        BY <3>1, <3>3, <4>2, Zenon
      <4> QED BY <4>3, <4>4 DEF Lifecycle!Next
    <3> QED BY <3>2, <3>3, Zenon
  <2>4. ASSUME NEW p \in Objs, NEW i \in Ids, NEW n \in Names, NEW m \in Names,
               createContainer(t, p, i, n, m)
        PROVE  UNCHANGED Lifecycle(o)!vars
    <3>1. state_[p] = "none" /\ state_' = [state_ EXCEPT ![p] = "CREATED"]
      BY <2>4, Zenon DEF createContainer
    <3>2. state_'[o] = IF o = p THEN "CREATED" ELSE state_[o]
      BY <2>0, <3>1 DEF OtherTypes
    <3> QED BY <3>1, <3>2, Zenon DEF Lifecycle!vars
  <2> QED BY <2>1, <2>2, <2>3, <2>4, PhasesStay, Zenon DEF NewCall
<1>2. [][A]_vars => ContainersFollowLifecycle
  BY DEF ContainersFollowLifecycle
<1> QED BY <1>1, <1>2, Invariance, PTL DEF Spec

(* A container leaves the registry only once it is REMOVED, or by shutdown(). *)
THEOREM LeaveWhenRemoved == Spec => LeavesOnlyRemoved
<1> DEFINE A == \A i \in DOMAIN containers_ :
                  i \notin DOMAIN containers_' =>
                      state_[containers_[i]] = "REMOVED" \/ DOMAIN containers_' = {}
<1>1. IInv /\ [Next]_vars => [A]_vars
  <2> SUFFICES ASSUME IInv, Next, NEW i \in DOMAIN containers_, i \notin DOMAIN containers_'
               PROVE  state_[containers_[i]] = "REMOVED" \/ DOMAIN containers_' = {}
    BY Zenon
  <2>1. PICK t \in Threads :
          NewCall(t) \/ Begin(t) \/ Transition(t) \/ Finish(t) \/ ScanInfo(t) \/ LoopStep(t)
    BY DEF Next
  <2>2. containers_' # containers_
    BY Zenon
  <2>3. CASE Finish(t)
    <3>1. /\ pc[t] = "work" /\ path[t] = <<>> /\ task[t] = "cleanup" /\ unregisterContainer(target[t])
          /\ UNCHANGED <<nameOf, state_>>
      BY <2>2, <2>3, Zenon DEF Finish, mapVars
    <3>2. Operating(t) /\ target[t] \in Objs
      BY <3>1, Operators, Zenon DEF Operating
    <3>3. containers_[i] = target[t]
      BY <3>1, <3>2, Unregister, Zenon
    <3>4. EndsRemoved(state_[target[t]], <<>>)
      BY <3>1, <3>2, Zenon DEF IInv, Removing
    <3> QED BY <3>3, <3>4, Zenon DEF EndsRemoved
  <2>4. CASE cleanupRemovedContainers(t)
    BY <2>4, Zenon DEF cleanupRemovedContainers, Without, Restrict
  <2>5. CASE EndShutdown(t)
    BY <2>5 DEF EndShutdown
  <2>6. ASSUME NEW o \in Objs, NEW k \in Ids, NEW n \in Names, NEW m \in Names,
               createContainer(t, o, k, n, m)
        PROVE  FALSE
    BY <2>6 DEF createContainer, Put
  <2>7. CASE Begin(t) \/ Transition(t) \/ ScanInfo(t)
             \/ \E o \in Objs : ScanStopped(t, o) \/ RemoveMarked(t, o) \/ ScanRunning(t, o)
    BY ZenonT(30), <2>2, <2>7 DEF Begin, Transition, ScanInfo, ScanStopped, RemoveMarked, ScanRunning, mapVars
  <2>8. CASE EndCleanup(t)
    BY <2>2, <2>8, Zenon DEF EndCleanup, mapVars
  <2>9. CASE \/ \E o \in Objs : setEventCallback(t, o)
             \/ \E k \in Ids, v \in Verbs : CallById(t, v, k)
             \/ \E o \in Objs, v \in {"remove", "force remove"} : CallRemove(t, v, o)
    BY <2>2, <2>9, Zenon DEF setEventCallback, CallById, CallRemove, mapVars
  <2>a. CASE \/ \E n \in Names : getContainerByName(t, n)
             \/ removeContainer(t) \/ cleanupStoppedContainers(t) \/ shutdown(t)
    BY <2>2, <2>a DEF getContainerByName, removeContainer, cleanupStoppedContainers, shutdown,
                      StartLoop, mapVars
  <2> QED BY ZenonT(30), <2>1, <2>3, <2>4, <2>5, <2>6, <2>7, <2>8, <2>9, <2>a DEF NewCall, LoopStep
<1>2. [][A]_vars => LeavesOnlyRemoved
  BY DEF LeavesOnlyRemoved
<1> QED BY <1>1, <1>2, Invariance, PTL DEF Spec

=============================================================================
