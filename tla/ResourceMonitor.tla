--------------------------- MODULE ResourceMonitor ---------------------------
(***************************************************************************)
(* ResourceMonitorImpl (src/src/cgroup/resource_monitor.cpp), composed     *)
(* with the groups of CgroupTree: client threads start and stop the        *)
(* monitoring of groups and ask for metrics and alerts, the monitoring     *)
(* thread samples every monitored group and compares it with thresholds,   *)
(* and the owners of the groups go on using them.                          *)
(*                                                                         *)
(* Metrics are read through a temporary CgroupManager of the same path,    *)
(* whose destructor, like any other, destroys the group.                   *)
(***************************************************************************)
EXTENDS CgroupTree

CONSTANTS
    Clients,        \* threads that use the monitor
    Monitor,        \* monitoring_thread_
    NoThread, NoGroup,
    MaxHistory      \* MAX_HISTORY_SIZE

ASSUME MonitorAssumption ==
    /\ Monitor \notin Clients
    /\ NoThread \notin Clients \cup {Monitor}
    /\ NoGroup \notin Groups
    /\ MaxHistory \in Nat \ {0}

VARIABLES
    monitored_cgroups_, monitoring_active_,
    monitoring_mutex_, alerts_mutex_,       \* their owners
    thresholds_,        \* groups with a CPU, memory or I/O threshold
    metrics_history_,   \* per group: the number of samples
    at, cur, listed,    \* per thread: next step, group, and processes listed
    todo                \* groups the round of the monitoring thread has left

lockVars == <<monitoring_mutex_, alerts_mutex_>>
monitorVars == <<monitored_cgroups_, monitoring_active_>>
threadVars == <<at, cur, listed>>
monitoringVars == <<monitorVars, lockVars, thresholds_, metrics_history_, threadVars, todo, treeVars>>

Threads == Clients \cup {Monitor}

MonitorGoto(t, step) == at' = [at EXCEPT ![t] = step]

(* The thread has left the monitor, or the group, and drops its locals. *)
Leave(t, step) ==
    /\ MonitorGoto(t, step)
    /\ cur' = [cur EXCEPT ![t] = NoGroup]
    /\ listed' = [listed EXCEPT ![t] = {}]

Usable == \A t \in Clients : at[t] \notin {"destroyJoin", "destroyed"}

MonitorInit ==
    /\ monitored_cgroups_ = {} /\ monitoring_active_ = FALSE
    /\ monitoring_mutex_ = NoThread /\ alerts_mutex_ = NoThread
    /\ thresholds_ = {}
    /\ metrics_history_ = [g \in Groups |-> 0]
    /\ at = [t \in Threads |-> IF t = Monitor THEN "none" ELSE "idle"]
    /\ cur = [t \in Threads |-> NoGroup]
    /\ listed = [t \in Threads |-> {}]
    /\ todo = {}
    /\ TreeInit

-----------------------------------------------------------------------------
(* startMonitoring() and stopMonitoring(): all under monitoring_mutex_ *)

startMonitoring(t, g) ==
    /\ Usable /\ at[t] = "idle" /\ monitoring_mutex_ = NoThread
    /\ g \notin monitored_cgroups_
    /\ monitored_cgroups_' = monitored_cgroups_ \cup {g}
    /\ IF monitoring_active_ THEN UNCHANGED <<monitoring_active_, at>>
       ELSE monitoring_active_' = TRUE /\ MonitorGoto(Monitor, "loop")
    /\ UNCHANGED <<lockVars, thresholds_, metrics_history_, cur, listed, todo, treeVars>>

(* Faulty variant: the thread is left running. *)
stopMonitoringKeeps(t, g) ==
    /\ Usable /\ at[t] = "idle" /\ monitoring_mutex_ = NoThread
    /\ g \in monitored_cgroups_
    /\ monitored_cgroups_' = monitored_cgroups_ \ {g}
    /\ UNCHANGED <<monitoring_active_, lockVars, thresholds_, metrics_history_, threadVars, todo,
                   treeVars>>

(* Faulty variant: the thread is told to end, and not joined. *)
stopMonitoringDetached(t, g) ==
    /\ Usable /\ at[t] = "idle" /\ monitoring_mutex_ = NoThread
    /\ g \in monitored_cgroups_
    /\ monitored_cgroups_' = monitored_cgroups_ \ {g}
    /\ monitoring_active_' = (monitored_cgroups_ # {g})
    /\ UNCHANGED <<lockVars, thresholds_, metrics_history_, threadVars, todo, treeVars>>

(* The last group stops the thread: stopMonitoringThread() joins it with     *)
(* monitoring_mutex_ held.                                                   *)
stopMonitoring(t, g) ==
    /\ Usable /\ at[t] = "idle" /\ monitoring_mutex_ = NoThread
    /\ g \in monitored_cgroups_
    /\ monitored_cgroups_' = monitored_cgroups_ \ {g}
    /\ IF monitored_cgroups_ = {g}
       THEN monitoring_active_' = FALSE /\ monitoring_mutex_' = t /\ MonitorGoto(t, "join")
       ELSE UNCHANGED <<monitoring_active_, monitoring_mutex_, at>>
    /\ UNCHANGED <<alerts_mutex_, thresholds_, metrics_history_, cur, listed, todo, treeVars>>

Join(t) ==
    /\ at[t] \in {"join", "destroyJoin"} /\ at[Monitor] = "done"
    /\ at' = [at EXCEPT ![Monitor] = "none",
                        ![t] = IF at[t] = "join" THEN "idle" ELSE "destroyed"]
    /\ monitoring_mutex_' = IF monitoring_mutex_ = t THEN NoThread ELSE monitoring_mutex_
    /\ UNCHANGED <<monitorVars, alerts_mutex_, thresholds_, metrics_history_, cur, listed,
                   todo, treeVars>>

(* ~ResourceMonitorImpl() joins the thread without the mutex. *)
DestroyMonitor(t) ==
    /\ \A u \in Clients : at[u] = "idle"
    /\ monitoring_active_' = FALSE
    /\ MonitorGoto(t, IF monitoring_active_ THEN "destroyJoin" ELSE "destroyed")
    /\ UNCHANGED <<monitored_cgroups_, lockVars, thresholds_, metrics_history_, cur, listed,
                   todo, treeVars>>

-----------------------------------------------------------------------------
(* Thresholds, metrics and alerts, for clients *)

setThreshold(t, g) ==
    /\ Usable /\ at[t] = "idle" /\ alerts_mutex_ = NoThread
    /\ thresholds_' = thresholds_ \cup {g}
    /\ UNCHANGED <<monitorVars, lockVars, metrics_history_, threadVars, todo, treeVars>>

getCurrentMetrics(t, g) ==
    /\ Usable /\ at[t] = "idle"
    /\ MonitorGoto(t, "read") /\ cur' = [cur EXCEPT ![t] = g]
    /\ UNCHANGED <<monitorVars, lockVars, thresholds_, metrics_history_, listed, todo,
                   treeVars>>

(* hasCpuAlert(), hasMemoryAlert() and hasIoAlert() hold alerts_mutex_. *)
hasAlert(t, g) ==
    /\ Usable /\ at[t] = "idle" /\ alerts_mutex_ = NoThread
    /\ g \in thresholds_
    /\ alerts_mutex_' = t
    /\ MonitorGoto(t, "read") /\ cur' = [cur EXCEPT ![t] = g]
    /\ UNCHANGED <<monitorVars, monitoring_mutex_, thresholds_, metrics_history_, listed, todo,
                   treeVars>>

(* getCurrentMetricsImpl(): the metrics, if there is a directory ... *)
Read(t) ==
    /\ at[t] \in {"read", "collectRead", "alertRead"}
    /\ listed' = [listed EXCEPT ![t] = Members(cur[t])]
    /\ MonitorGoto(t, IF at[t] = "read" THEN "evict"
               ELSE IF at[t] = "collectRead" THEN "collectEvict" ELSE "alertEvict")
    /\ UNCHANGED <<monitorVars, lockVars, thresholds_, metrics_history_, cur, todo, treeVars>>

(* ... and the destructor of the temporary manager. *)
Evict(t) ==
    IF dir[cur[t]] THEN DestroyGroup(cur[t], listed[t]) ELSE UNCHANGED treeVars

ClientEvict(t) ==
    /\ at[t] = "evict"
    /\ Evict(t)
    /\ Leave(t, "idle")
    /\ alerts_mutex_' = IF alerts_mutex_ = t THEN NoThread ELSE alerts_mutex_
    /\ UNCHANGED <<monitorVars, monitoring_mutex_, thresholds_, metrics_history_, todo>>

-----------------------------------------------------------------------------
(* The monitoring thread *)

Loop ==
    /\ at[Monitor] = "loop"
    /\ MonitorGoto(Monitor, IF monitoring_active_ THEN "collectLock" ELSE "done")
    /\ UNCHANGED <<monitorVars, lockVars, thresholds_, metrics_history_, cur, listed, todo,
                   treeVars>>

(* Faulty variant: only the groups that have a threshold. *)
LockRoundSome(lock, round) ==
    /\ at[Monitor] = lock /\ monitoring_mutex_ = NoThread
    /\ monitoring_mutex_' = Monitor
    /\ todo' = monitored_cgroups_ \cap thresholds_
    /\ MonitorGoto(Monitor, round)
    /\ UNCHANGED <<monitorVars, alerts_mutex_, thresholds_, metrics_history_, cur, listed,
                   treeVars>>

(* collectMetrics() and checkAlerts() lock monitoring_mutex_ for a round. *)
LockRound(lock, round) ==
    /\ at[Monitor] = lock /\ monitoring_mutex_ = NoThread
    /\ monitoring_mutex_' = Monitor
    /\ todo' = monitored_cgroups_
    /\ MonitorGoto(Monitor, round)
    /\ UNCHANGED <<monitorVars, alerts_mutex_, thresholds_, metrics_history_, cur, listed,
                   treeVars>>

NextGroup(round, read) ==
    /\ at[Monitor] = round
    /\ \E g \in todo :
          /\ todo' = todo \ {g}
          /\ cur' = [cur EXCEPT ![Monitor] = g]
    /\ MonitorGoto(Monitor, read)
    /\ UNCHANGED <<monitorVars, lockVars, thresholds_, metrics_history_, listed, treeVars>>

EndRound(round, next) ==
    /\ at[Monitor] = round /\ todo = {}
    /\ monitoring_mutex_' = NoThread
    /\ MonitorGoto(Monitor, next)
    /\ UNCHANGED <<monitorVars, alerts_mutex_, thresholds_, metrics_history_, cur, listed, todo,
                   treeVars>>

MonitorEvict(evict, next) ==
    /\ at[Monitor] = evict
    /\ Evict(Monitor)
    /\ MonitorGoto(Monitor, next)
    /\ UNCHANGED <<monitorVars, lockVars, thresholds_, metrics_history_, cur, listed, todo>>

(* push_back, and the oldest sample goes when there are too many. *)
Push(size) == IF size + 1 > MaxHistory THEN size ELSE size + 1

Store ==
    /\ at[Monitor] = "store"
    /\ metrics_history_' = [metrics_history_ EXCEPT ![cur[Monitor]] = Push(@)]
    /\ Leave(Monitor, "collect")
    /\ UNCHANGED <<monitorVars, lockVars, thresholds_, todo, treeVars>>

(* Faulty variant: a group without threshold ends the round. *)
CompareStops ==
    /\ at[Monitor] = "compare" /\ alerts_mutex_ = NoThread
    /\ IF cur[Monitor] \in thresholds_ THEN Leave(Monitor, "alerts") ELSE Leave(Monitor, "loop")
    /\ UNCHANGED <<monitorVars, lockVars, thresholds_, metrics_history_, todo, treeVars>>

(* A threshold is not exceeded; checkAlerts() goes on. *)
Compare ==
    /\ at[Monitor] = "compare" /\ alerts_mutex_ = NoThread
    /\ Leave(Monitor, "alerts")
    /\ UNCHANGED <<monitorVars, lockVars, thresholds_, metrics_history_, todo, treeVars>>

(* A threshold is exceeded: triggerAlert() locks alerts_mutex_, which its    *)
(* caller has locked, and the thread stays there.                            *)
Alert ==
    /\ at[Monitor] = "compare" /\ alerts_mutex_ = NoThread
    /\ cur[Monitor] \in thresholds_
    /\ alerts_mutex_' = Monitor
    /\ MonitorGoto(Monitor, "trigger")
    /\ UNCHANGED <<monitorVars, monitoring_mutex_, thresholds_, metrics_history_, cur, listed,
                   todo, treeVars>>

MonitorStep ==
    \/ Loop
    \/ LockRound("collectLock", "collect") \/ NextGroup("collect", "collectRead")
    \/ MonitorEvict("collectEvict", "store") \/ Store \/ EndRound("collect", "alertsLock")
    \/ LockRound("alertsLock", "alerts") \/ NextGroup("alerts", "alertRead")
    \/ MonitorEvict("alertEvict", "compare") \/ Compare \/ Alert \/ EndRound("alerts", "loop")
    \/ Read(Monitor)

-----------------------------------------------------------------------------
ClientCall(t) ==
    \/ \E g \in Groups :
          \/ startMonitoring(t, g) \/ stopMonitoring(t, g)
          \/ setThreshold(t, g) \/ getCurrentMetrics(t, g) \/ hasAlert(t, g)
    \/ DestroyMonitor(t)

ClientStep(t) == Join(t) \/ Read(t) \/ ClientEvict(t)

(* Owners of the groups, and other managers. *)
Owner ==
    /\ TreeNext
    /\ UNCHANGED <<monitorVars, lockVars, thresholds_, metrics_history_, threadVars, todo>>

MonitorNext ==
    \/ \E t \in Clients : ClientCall(t) \/ ClientStep(t)
    \/ MonitorStep
    \/ Owner

MonitorSpec == MonitorInit /\ [][MonitorNext]_monitoringVars

(* Threads keep running, and one that waits for a mutex gets it if it is     *)
(* free again and again.                                                     *)
FairMonitorSpec ==
    /\ MonitorSpec
    /\ SF_monitoringVars(MonitorStep)
    /\ \A t \in Clients : SF_monitoringVars(ClientStep(t))

-----------------------------------------------------------------------------
(* Every variable has its type; the history of a group never holds more     *)
(* than MAX_HISTORY_SIZE samples, however often it is monitored again.       *)
MonitorTypeOK ==
    /\ dir \in [Groups -> BOOLEAN] /\ member \in [Procs -> Groups \cup {Root}]
    /\ monitored_cgroups_ \subseteq Groups /\ thresholds_ \subseteq Groups
    /\ todo \subseteq Groups
    /\ monitoring_active_ \in BOOLEAN
    /\ monitoring_mutex_ \in Threads \cup {NoThread}
    /\ alerts_mutex_ \in Threads \cup {NoThread}
    /\ metrics_history_ \in [Groups -> 0..MaxHistory]
    /\ cur \in [Threads -> Groups \cup {NoGroup}]
    /\ listed \in [Threads -> SUBSET Procs]

(* The monitoring thread is only ever started when there is none: a          *)
(* std::thread that is overwritten while it is joinable ends the program.    *)
(* This rests on stopMonitoring() joining the old thread before it lets go   *)
(* of monitoring_mutex_.                                                     *)
OneThread == [][~monitoring_active_ /\ monitoring_active_' => at[Monitor] = "none"]_monitoringVars

(* While no call is changing it, the thread exists exactly when there is a   *)
(* group to monitor.                                                         *)
ThreadIffGroups ==
    Usable /\ monitoring_mutex_ \notin Clients =>
        /\ monitoring_active_ <=> monitored_cgroups_ # {}
        /\ monitoring_active_ <=> at[Monitor] # "none"

(* The two ways in which the code waits for itself: stopMonitoring() holds   *)
(* the mutex the thread needs to get to its next look at the flag, and       *)
(* checkAlerts() holds the mutex triggerAlert() asks for.                    *)
JoinDeadlock(t) == at[t] = "join" /\ at[Monitor] \in {"collectLock", "alertsLock"}
AlertDeadlock == at[Monitor] = "trigger"

(* A call that has been let in returns, and so does the destructor, unless   *)
(* one of the two waits above has begun: the locks are otherwise taken in a  *)
(* consistent order by clients and the thread, and the thread sees the flag. *)
MonitorCallsReturn ==
    \A t \in Clients :
        at[t] \notin {"idle", "destroyed"} ~>
            (at[t] \in {"idle", "destroyed"} \/ JoinDeadlock(t) \/ AlertDeadlock)

(* A monitored group is sampled, and sampled again, until its monitoring is  *)
(* stopped or the monitor destroyed, whatever other groups and calls do, but *)
(* for a crossed threshold, on which checkAlerts() waits for itself.         *)
Sampled ==
    \A g \in Groups :
        g \in monitored_cgroups_ ~>
            \/ at[Monitor] = "store" /\ cur[Monitor] = g
            \/ g \notin monitored_cgroups_ \/ ~Usable \/ AlertDeadlock

=============================================================================
