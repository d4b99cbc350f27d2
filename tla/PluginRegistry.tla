---------------------------- MODULE PluginRegistry ----------------------------
(***************************************************************************)
(* PluginRegistry (src/src/plugin/plugin_registry.cpp): plugins that       *)
(* depend on each other are registered, initialized in dependency order    *)
(* and shut down in the opposite order.                                    *)
(*                                                                         *)
(* Every operation holds mutex_ from its first step to its last, so at     *)
(* most one is under way, in phase; the depth-first search of              *)
(* getLoadOrderUnsafe() and the loops over its result are modelled step by *)
(* step.  The order in which plugins_ is traversed, and whether a plugin's *)
(* initialize() and shutdown() succeed, are open.                          *)
(***************************************************************************)
EXTENDS Naturals, Sequences

CONSTANTS
    Names,      \* plugin names
    MaxFiles    \* bound: files in the plugin directory

ASSUME PluginAssumption == MaxFiles \in Nat

VARIABLES
    plugins_,       \* registered names
    deps,           \* getDependencies() of each registered plugin
    initialized,    \* names whose plugin isInitialized()
    op,             \* the call that holds mutex_
    phase,          \* its step: idle, visit, throw or run
    stack,          \* the activations of visit(): name and dependencies left
    visiting, visited, result,
    queue,          \* what the loop over the load order has left
    failed,         \* plugins whose initialize() or shutdown() failed in op
    files           \* files loadPluginsFromDirectory() has still to load

dfsVars == <<stack, visiting, visited, result>>
callVars == <<op, phase, dfsVars, queue, failed>>
vars == <<plugins_, deps, initialized, callVars, files>>

Init ==
    /\ plugins_ = {} /\ deps = [n \in Names |-> {}] /\ initialized = {}
    /\ op = "none" /\ phase = "idle"
    /\ stack = <<>> /\ visiting = {} /\ visited = {} /\ result = <<>>
    /\ queue = <<>> /\ failed = {}
    /\ files = 0

(* validateDependencies(): every dependency is registered and initialized. *)
isDependencySatisfied(d) == d \in plugins_ /\ d \in initialized

validateDependencies(n) == \A d \in deps[n] : isDependencySatisfied(d)

-----------------------------------------------------------------------------
(* Operations on one plugin *)

Register(n, ds) ==
    /\ phase = "idle" /\ n \notin plugins_
    /\ plugins_' = plugins_ \cup {n}
    /\ deps' = [deps EXCEPT ![n] = ds]
    /\ UNCHANGED <<initialized, callVars>>

registerPlugin(n, ds) == Register(n, ds) /\ UNCHANGED files

(* loadPluginsFromDirectory() does not hold mutex_ between two files.  A file *)
(* that gives no plugin, or one whose name is taken, is skipped.             *)
loadPluginsFromDirectory ==
    /\ files = 0
    /\ files' \in 1..MaxFiles
    /\ UNCHANGED <<plugins_, deps, initialized, callVars>>

LoadFile ==
    /\ files > 0 /\ files' = files - 1
    /\ \/ \E n \in Names, ds \in SUBSET Names : Register(n, ds)
       \/ UNCHANGED <<plugins_, deps, initialized, callVars>>

(* A shutdown() that throws leaves the plugin registered. *)
unregisterPlugin(n) ==
    /\ phase = "idle" /\ n \in plugins_
    /\ \/ /\ plugins_' = plugins_ \ {n}
          /\ deps' = [deps EXCEPT ![n] = {}]
          /\ initialized' = initialized \ {n}
       \/ /\ n \in initialized
          /\ initialized' \in {initialized, initialized \ {n}}
          /\ UNCHANGED <<plugins_, deps>>
    /\ UNCHANGED <<callVars, files>>

(* initialize() of a plugin that is not initialized, with its dependencies   *)
(* looked at: it fails, and stays as it is, or succeeds.                     *)
Initialize(n) ==
    \/ UNCHANGED initialized
    \/ n \in plugins_ /\ validateDependencies(n) /\ initialized' = initialized \cup {n}

initializePlugin(n) ==
    /\ phase = "idle" /\ Initialize(n)
    /\ UNCHANGED <<plugins_, deps, callVars, files>>

shutdownPlugin(n) ==
    /\ phase = "idle" /\ n \in initialized
    /\ initialized' = initialized \ {n}
    /\ UNCHANGED <<plugins_, deps, callVars, files>>

-----------------------------------------------------------------------------
(* getLoadOrderUnsafe(), for getLoadOrder(), initializeAllPlugins() and      *)
(* shutdownAllPlugins()                                                      *)

Call(call) ==
    /\ phase = "idle"
    /\ op' = call /\ phase' = "visit"
    /\ UNCHANGED <<plugins_, deps, initialized, dfsVars, queue, failed, files>>

Frame(n) == [name |-> n, left |-> deps[n]]

top == stack[Len(stack)]

Enter(n, frames) ==
    /\ stack' = Append(frames, Frame(n))
    /\ visiting' = visiting \cup {n}
    /\ UNCHANGED <<visited, result>>

(* The outer loop starts visit() for a plugin not visited yet. *)
VisitRoot ==
    /\ phase = "visit" /\ stack = <<>>
    /\ \E n \in plugins_ \ visited : Enter(n, stack)
    /\ UNCHANGED <<plugins_, deps, initialized, op, phase, queue, failed, files>>

(* Faulty variant: a plugin on the stack is taken for one already visited. *)
VisitDependencyAgain ==
    /\ phase = "visit" /\ stack # <<>>
    /\ \E d \in top.left :
          LET frames == [stack EXCEPT ![Len(stack)].left = @ \ {d}]
          IN  IF d \in plugins_ \ (visited \cup visiting) THEN Enter(d, frames)
              ELSE stack' = frames /\ UNCHANGED <<visiting, visited, result>>
    /\ UNCHANGED <<plugins_, deps, initialized, op, phase, queue, failed, files>>

(* The next dependency: one that is not registered is left out, one on the   *)
(* stack is a cycle, one visited is done.                                    *)
VisitDependency ==
    /\ phase = "visit" /\ stack # <<>>
    /\ \E d \in top.left :
          LET frames == [stack EXCEPT ![Len(stack)].left = @ \ {d}]
          IN  IF d \in plugins_ /\ d \in visiting
              THEN phase' = "throw" /\ UNCHANGED dfsVars
              ELSE /\ UNCHANGED phase
                   /\ IF d \in plugins_ \ visited THEN Enter(d, frames)
                      ELSE stack' = frames /\ UNCHANGED <<visiting, visited, result>>
    /\ UNCHANGED <<plugins_, deps, initialized, op, queue, failed, files>>

(* Faulty variant: the plugin goes in front of what is there. *)
VisitEndFront ==
    /\ phase = "visit" /\ stack # <<>> /\ top.left = {}
    /\ visiting' = visiting \ {top.name}
    /\ visited' = visited \cup {top.name}
    /\ result' = <<top.name>> \o result
    /\ stack' = SubSeq(stack, 1, Len(stack) - 1)
    /\ UNCHANGED <<plugins_, deps, initialized, op, phase, queue, failed, files>>

(* Faulty variant: the visit leaves no trace. *)
VisitEndForgets ==
    /\ phase = "visit" /\ stack # <<>> /\ top.left = {}
    /\ visiting' = visiting \ {top.name}
    /\ stack' = SubSeq(stack, 1, Len(stack) - 1)
    /\ UNCHANGED <<plugins_, deps, initialized, op, phase, visited, result, queue, failed, files>>

VisitEnd ==
    /\ phase = "visit" /\ stack # <<>> /\ top.left = {}
    /\ visiting' = visiting \ {top.name}
    /\ visited' = visited \cup {top.name}
    /\ result' = Append(result, top.name)
    /\ stack' = SubSeq(stack, 1, Len(stack) - 1)
    /\ UNCHANGED <<plugins_, deps, initialized, op, phase, queue, failed, files>>

(* std::reverse() of the order in shutdownAllPlugins(). *)
reversed == [i \in 1..Len(result) |-> result[(Len(result) - i) + 1]]

(* Faulty variant: the order of the load is kept for the shutdown. *)
OrderedForward ==
    /\ phase = "visit" /\ stack = <<>> /\ plugins_ \subseteq visited
    /\ phase' = "run"
    /\ queue' = IF op = "getLoadOrder" THEN <<>> ELSE result
    /\ UNCHANGED <<plugins_, deps, initialized, op, dfsVars, failed, files>>

(* The order is there: initializeAllPlugins() follows it, shutdownAllPlugins *)
(* its reverse.                                                              *)
Ordered ==
    /\ phase = "visit" /\ stack = <<>> /\ plugins_ \subseteq visited
    /\ phase' = "run"
    /\ queue' = IF op = "initializeAll" THEN result
                ELSE IF op = "shutdownAll" THEN reversed ELSE <<>>
    /\ UNCHANGED <<plugins_, deps, initialized, op, dfsVars, failed, files>>

(* Faulty variant: a plugin that cannot be initialized ends the loop. *)
InitializeNextStops ==
    /\ phase = "run" /\ op = "initializeAll" /\ queue # <<>>
    /\ Initialize(Head(queue))
    /\ failed' = IF Head(queue) \in initialized' \/ ~validateDependencies(Head(queue))
                 THEN failed ELSE failed \cup {Head(queue)}
    /\ queue' = IF Head(queue) \in initialized' THEN Tail(queue) ELSE <<>>
    /\ UNCHANGED <<plugins_, deps, op, phase, dfsVars, files>>

InitializeNext ==
    /\ phase = "run" /\ op = "initializeAll" /\ queue # <<>>
    /\ Initialize(Head(queue))
    /\ failed' = IF Head(queue) \in initialized' \/ ~validateDependencies(Head(queue))
                 THEN failed ELSE failed \cup {Head(queue)}
    /\ queue' = Tail(queue)
    /\ UNCHANGED <<plugins_, deps, op, phase, dfsVars, files>>

ShutdownNext ==
    /\ phase = "run" /\ op = "shutdownAll" /\ queue # <<>>
    /\ initialized' \in {initialized, initialized \ {Head(queue)}}
    /\ failed' = IF Head(queue) \in initialized' THEN failed \cup {Head(queue)} ELSE failed
    /\ queue' = Tail(queue)
    /\ UNCHANGED <<plugins_, deps, op, phase, dfsVars, files>>

(* The call returns, or the exception leaves it; the search's state is local.*)
Return ==
    /\ phase = "throw" \/ (phase = "run" /\ queue = <<>>)
    /\ op' = "none" /\ phase' = "idle"
    /\ stack' = <<>> /\ visiting' = {} /\ visited' = {} /\ result' = <<>>
    /\ queue' = <<>> /\ failed' = {}
    /\ UNCHANGED <<plugins_, deps, initialized, files>>

-----------------------------------------------------------------------------
Step ==
    \/ VisitRoot \/ VisitDependency \/ VisitEnd \/ Ordered
    \/ InitializeNext \/ ShutdownNext \/ Return

Next ==
    \/ \E n \in Names :
          \/ \E ds \in SUBSET Names : registerPlugin(n, ds)
          \/ unregisterPlugin(n) \/ initializePlugin(n) \/ shutdownPlugin(n)
    \/ loadPluginsFromDirectory \/ LoadFile
    \/ \E call \in {"getLoadOrder", "initializeAll", "shutdownAll"} : Call(call)
    \/ Step

Spec == Init /\ [][Next]_vars

(* A call that has mutex_ goes on. *)
FairSpec == Spec /\ WF_vars(Step)

-----------------------------------------------------------------------------
(* Every variable has its type; what is initialized is registered, and the   *)
(* search touches only registered plugins.                                   *)
TypeOK ==
    /\ plugins_ \subseteq Names /\ deps \in [Names -> SUBSET Names]
    /\ initialized \subseteq plugins_
    /\ op \in {"none", "getLoadOrder", "initializeAll", "shutdownAll"}
    /\ phase \in {"idle", "visit", "throw", "run"}
    /\ stack \in Seq([name : plugins_, left : SUBSET Names])
    /\ visiting \subseteq plugins_ /\ visited \subseteq plugins_
    /\ result \in Seq(plugins_) /\ queue \in Seq(plugins_)
    /\ failed \subseteq plugins_
    /\ files \in Nat

(* A cycle among registered plugins: some of them each depend on another of  *)
(* them, or on themselves.                                                   *)
Cyclic == \E S \in SUBSET plugins_ :
    S # {} /\ \A n \in S : \E m \in S : m \in deps[n]

(* The search throws CIRCULAR_DEPENDENCY only if there is a cycle, and gives *)
(* an order only if there is none.                                           *)
CycleIffThrow ==
    /\ phase = "throw" => Cyclic
    /\ phase = "run" => ~Cyclic

(* The order holds every registered plugin exactly once, each after all its  *)
(* dependencies that are registered.                                         *)
LoadOrder ==
    phase = "run" =>
        /\ \A n \in plugins_ : \E i \in 1..Len(result) : result[i] = n
        /\ \A i, j \in 1..Len(result) : result[i] = result[j] => i = j
        /\ \A i, j \in 1..Len(result) : result[j] \in deps[result[i]] => j < i

(* initializeAllPlugins() leaves out no plugin that could be initialized: at *)
(* its end one that is not either failed itself or has a dependency that is  *)
(* missing or was not initialized.  shutdownAllPlugins() leaves initialized  *)
(* only what failed to shut down; if the graph has a cycle, it never gets    *)
(* that far and shuts nothing down.                                          *)
NothingLeftOut ==
    phase = "run" /\ queue = <<>> =>
        /\ op = "initializeAll" =>
              \A n \in plugins_ \ initialized : n \in failed \/ ~validateDependencies(n)
        /\ op = "shutdownAll" => initialized \subseteq failed

(* shutdownAllPlugins() shuts no plugin down under one that depends on it    *)
(* and is still initialized, unless the shutdown of that one threw.          *)
DependentsFirst ==
    [][op = "shutdownAll" =>
          \A n \in initialized \ initialized' :
             \A m \in initialized : n \in deps[m] => m \in failed]_vars

(* Every call returns: the search ends on every graph, cyclic or not.        *)
CallsReturn == phase # "idle" ~> phase = "idle"

=============================================================================
