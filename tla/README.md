# A TLA+ model of docker-cpp

This directory holds a TLA+ development of the container runtime under `src/src` and
`src/include/docker-cpp`: modules that model its components, TLC configurations that check them
on small instances, and proofs for TLAPS. `PROJECT.json` is the machine-readable index: which
definition models which lines, which run checks which property, which fault each property catches,
and the hazards of the code. Where the code departs from its own documentation, the section of the
component says so.

## 1. The system

| part | source | state | operations that change it |
|---|---|---|---|
| Container | `runtime/container.cpp` | `state_`, `removed_`, `main_pid_`, `exit_code_`, the process, cgroup and namespace managers, one non-recursive `mutex_` | `start`, `stop`, `pause`, `resume`, `restart`, `remove`, `kill`, destructor; `getStats` without the lock |
| ContainerRegistry | `runtime/container_registry.cpp` | `containers_`, `name_to_id_`, `mutex_`, `callback_mutex_`, the global callback | create, get, list, remove, start/stop/..., cleanup, shutdown |
| ContainerRuntime | `runtime/container_runtime.cpp` | `initialized_`, `shutting_down_` | initialise, shutdown, façade of the registry; mostly stubs |
| ProcessManager | `namespace/process_manager.cpp` | `processes_`, monitoring thread and flags | create (fork, error pipe, exec), stop, kill, wait, monitoring loop |
| NamespaceManager | `namespace/namespace_manager.cpp` | one file descriptor | create, join |
| CgroupManager | `cgroup/cgroup_manager.cpp` | `config_`, directory in cgroupfs | create, destroy, limits, add/remove process |
| ResourceMonitor | `cgroup/resource_monitor.cpp` | monitored groups, history, thresholds, alerts, thread | start/stop monitoring, thresholds, the loop, alerts |
| EventManager | `core/event.cpp` | main queue, batches, subscriptions, two threads, four mutexes, one condition variable | subscribe, unsubscribe, publish, batching, flush, shutdown |
| PluginRegistry | `plugin/plugin_registry.cpp` | plugins, their initialised flags | register, unregister, initialise, shutdown, load order |
| ConfigManager, Config | `config/config_manager.cpp`, `core/config.cpp` | values, layers, listeners | set, remove, merge, layers, load, effective value |
| Logger | `core/logger.cpp` | sinks, file sinks, levels, two mutexes | add/remove sinks, log, flush |

The registry owns the containers and installs a callback in each. A container owns a
ProcessManager, a CgroupManager and namespace managers, and calls the registry's callback and the
EventManager from inside its operations. What makes this hard is that locks are held across long
waits (a `stop` sleeps for seconds with `mutex_` held), that callbacks run under the locks of their
callers, that the child process, the monitoring threads and the kernel's pids act in between, and
that destructors signal processes and remove directories.

## 2. The modules

| module | models | also |
|---|---|---|
| `Container` | one container and its process | implements `ContainerLifecycle`; proofs in `ContainerAndConfigProofs` |
| `ContainerLifecycle` | what `getState()` and the live processes promise | used by `ContainerRegistry` |
| `EventManager` | queue, condition variable, batches, reset | `EventManagerSteps`, `EventManagerDelivery`, `EventManagerProofs` |
| `ContainerRegistry` | threads, lock order, names; containers through `ContainerLifecycle` | `ContainerRegistryProofs` |
| `ProcessManager` | entries, the monitoring thread, who reaps and who is told | `ProcessManagerProofs` |
| `CgroupTree` | groups and their processes, as the kernel keeps them | shared by the next two |
| `CgroupManager` | one manager per group, the limits in the kernel | composed with `CgroupTree`; `LoggerAndCgroupProofs` |
| `ResourceMonitor` | the thread, its mutexes, history, alerts | composed with `CgroupTree`; `PluginAndMonitorProofs` |
| `PluginRegistry` | the depth-first load order, initialise and shutdown | `PluginAndMonitorProofs` |
| `Logger` | sinks, streams and the two mutexes | `LoggerAndCgroupProofs` |
| `ConfigManager` | values, layers, listener, loads | `ContainerAndConfigProofs` |

Compositions: the registry uses the abstract `ContainerLifecycle` in place of `Container`; the proved
refinement is what links the two. `ResourceMonitor` and `CgroupManager` act on one kernel state,
`CgroupTree`, and each sees the other as a step of that module. An `MC` module instantiates the
module of the same name for TLC. Three proof modules are about two components each; for that, the
smaller specification of a pair has names of its own (`ConfigSpec` and `ConfigTypeOK`,
`ManagerSpec`, `MonitorSpec`, `at` for the program counter). Definitions called *faulty variant* are used by no specification;
each is a plausible bug of the definition that follows it, and `PROJECT.json` says which property
notices it.

## 3. Container

`Container.tla` models one `runtime::Container`, the `ProcessManager` it owns and the kernel's view
of the process. `start`, `stop`, `restart` and `remove` hold `mutex_` for seconds, so each is a
sequence of steps (`op` is the operation, `pc` its next step), cut where the code sleeps or polls;
`pause`, `resume` and `kill` never sleep and are one step. `transitionState` runs its waiting
(`executeStateTransition`) *before* it stores the new state, and so do the steps. In between act:

- the process (`ProcessExit`: it may exit with any code at any time, may ignore SIGTERM, dies of
  SIGKILL), the kernel (`PidRecycled`: a reaped pid may denote somebody else's process);
- a thread in `getStats`, which takes no lock (`StatsBegin`, `StatsEnd`) and whose `waitpid` reaps
  and keeps no status (`kstatus` is then `NoStatus` again).

Every `transitionState` ends with `event_callback_`, called with `mutex_` and `callback_mutex_` held
(`Notify`, container.cpp:510). A callback that locks `mutex_`, as the one that `createContainer`
installs does with `getInfo()` (container_registry.cpp:89), never returns: its thread stays at
`callback` with the mutex (`Stuck`, `CallbackWaits`). `setEventCallback` can install any callback at
any time, so each transition may or may not end there. In `remove` that is before `removed_` is set.

`kproc` tells for each pid whether it is unused, alive, doomed (SIGKILL is pending), a zombie, gone
or foreign. `kill(pid, 0)` succeeds for a zombie and for a foreign process (`Signalable`);
`determineProcessStatus` does not take either for running (`Executing`). Where the code reads an
uninitialised `status` (container.cpp:755) the model chooses any outcome.

Two facts of the code, visible in the model, are worth knowing. `restart()` tests `state_` for
RUNNING and STOPPED after it has stored RESTARTING, so it neither stops nor starts anything and
returns in RESTARTING. The comment at container.cpp:1087, "Will transition to STARTING after restart
actions complete", and test_container_runtime.cpp:217, which expects RUNNING, say otherwise: the run
`restart` shows the disagreement (the test itself calls `ContainerRuntime::restartContainer`, a
stub). And a failed `start()` of a STOPPED container leaves it STOPPED, because the table has no edge from
STOPPED to ERROR and the transition in the catch block throws in turn.

`ContainerLifecycle.tla` is what an observer of `getState()` and of the live processes is promised:
phases follow one graph, at most one process is live, none is launched while another is live, and
none is live on entry to STOPPED, ERROR, REMOVING or REMOVED. The refinement mapping is
`phase <- state_`, `live <-` the pids that run and have not been sent SIGKILL. With fair threads the
transient phases STARTING, STOPPING and REMOVING come to an end (`Settled`). RESTARTING is not among
them: as the run `restart` shows, it is where a container rests until it is started, stopped or
removed.

Left out: health check and monitoring threads (empty functions in the code), `updateConfig`,
`updateResources`, move operations, timestamps, `exit_reason_`, `emitEvent` (it publishes to the
EventManager and changes nothing of the container), and the branches of `restart` and
`remove` that no state reaches. A call that throws without changing anything is not a step.

| run | checks |
|---|---|
| `container` | with one `getStats` thread and callbacks: `NoOrphanProcess`; `RemovedReleasesAll`; `StopEndsProcess`; `StopRecordsExitCode`; `ImplementsLifecycle`; fair: `OperationsReturn`; `TransientPhasesEnd` |
| `restart` | violated: `RestartCompletes` |

`OperationsReturn` has one exception, `CallbackWaits`, and `TransientPhasesEnd` is about behaviours in
which no callback waits; both say that nothing else keeps an operation from returning.
`StopRecordsExitCode` excepts a status that `getStats` took.

Two more facts are in the model and no property excludes them. `stop()` and `kill()` test
`main_pid_ > 0`, although the comment (container.cpp:132) says "if process is running", and
`main_pid_` is never reset: after `restart()` has reaped the process they signal a pid that may
belong to another process. And `getStats()` may use a `ProcessManager` that `start()` or `remove()`
has deleted (`stats` is `dangling`), although the report of week 5 calls all operations thread-safe.

Bounds: two pids, so a second process replaces a first that exits, ignores SIGTERM or is a zombie;
one exit code a process can choose beside those of the signals, different from the initial zero;
one namespace kind and two namespaces in all, which bounds the number of starts between two
removals of the namespaces; one thread in `getStats`. Both processes, every failure and every pair
of consecutive starts occur within them.

Fairness: weak fairness of the step of the thread that holds `mutex_`. Every wait inside an
operation of the container has a timeout, so nothing is assumed of the process or of the thread in
`getStats`. Nothing is assumed of the callback either: one that waits for `mutex_` enables no step.

## 4. EventManager

`EventManager.tla` models `core::EventManager` with its processing thread `"proc"`, its batch thread
`"batch"`, a thread `"main"` that calls `resetInstance`, and clients. `event_queue_` is the set of
queued events; the comparator (`Before`) decides which one is `top()`. Event ids are in order of
creation, as in the code, and break ties between equal priorities. `waiters` are the threads blocked on
`queue_condition_`: `publish` pushes under the lock and notifies *after* releasing it, and
`notify_one` picks any waiter. A thread that has tested its condition and not yet blocked is at
`sleep` or `flushSleep`, with `event_queue_mutex_` held; `resetInstance` stores `should_stop_` and
notifies without that mutex. `batches_mutex_` has an owner, because `processEvent` keeps it while
listeners run. `hand`, `calls` and `todo` are the local variables of `processBatch`.

`done`, `lost`, `delivered`, `attempted` and `before` are history variables; no guard of the
system's own steps reads them (`attempted` only makes clients publish each event once).

Left out or simplified: time (a batch may be found due at any moment), the order in which listeners
of one event are called, patterns (a listener has the set of types its pattern matches), listeners
that call the manager, `getStats` and `resetStats`, `setProcessingThreads` (which does nothing), and
`setMaxQueueSize` (event.cpp:210): the limit is a constant, and the bound in `TypeOK` is about a
limit that is not lowered below the length of the queue while the manager runs. Clients do not call the manager once
`resetInstance` has started, since it deletes the object.

| run | checks |
|---|---|
| `events` | `TypeOK`; `Conservation`; `OrderPreserved`; `UnsubscribedIsSilent`; `ResetSilences` |
| `events_live` | fair, with batching, `flush` and `resetInstance`: `OnlyFlushStrands`; `EventuallyDelivered`; `ResetReturns` |

The code can hang in three ways, and `events_live` shows that there is no fourth:

- `flush` waits on the condition variable of the processing thread, and the one `notify_one` of
  `publish` may wake only `flush`; the event then stays in the queue (`Stranded`).
  `OnlyFlushStrands` says that this is the only step that strands an event, and the liveness
  properties except the stranded state;
- `resetInstance` stores `should_stop_` and notifies without `event_queue_mutex_`, perhaps between
  the test of the processing thread and its wait; `join` then never returns (`MissedStop`), the one exception of
  `ResetReturns`;
- `flush` and `disableBatching` call `processBatch`, which locks `batches_mutex_`, with that
  mutex locked (`SelfLocked`). `resetInstance` starts when no client is inside the manager, so a
  reset behind such a client is not examined.

`OrderPreserved` is about types that are never batched: batches are delivered outside
`batches_mutex_` by whichever thread took them, in either order. `Conservation` counts the events
that a second `enableBatching` throws away as lost.

Bounds: four events of two types, one with a higher priority, in a queue of two and batches of two,
so the queue overflows, batches fill, and priorities reorder; two clients; one listener. Liveness:
two events by two clients.

Fairness: threads run; a mutex that is free again and again is obtained (strong fairness of
`ProcCheck`, which competes with `flush`); a non-empty batch that is looked at again and again is
due in the end, since its interval elapses (strong fairness of the scan that finds all of them due).

## 5. ContainerRegistry

`ContainerRegistry.tla` models the two maps, the registry's `mutex_`, and threads whose calls hold
it (creation, the two cleanups, `shutdown`) or only look up under it (`startContainer` and the
others, which operate on the container after `getContainer` has returned). A container has the
phases of `ContainerLifecycle`, the owner of its `mutex_` and the callback that a transition calls
with that mutex held. An operation takes the mutex (`Begin`), makes its transitions one by one
(`Paths`, `Transition`) and returns (`Finish`).

The callback that `createContainer` installs calls `getInfo()`, which locks the same
`Container::mutex_`: the thread stays at `"callback"`. `removeContainer`, and `getContainerByName`
for a known name, call `getContainer` with `mutex_` locked and stay at `"relock"`. A client that
holds a container may replace the callback by one that returns and does not call the registry; only then do its operations get past the first
transition, and only with that step do the later states exist.

Left out: the global callback (behind `getInfo()`, so never reached), read-only lists and
statistics, `updateConfig` (which can rename a container), moves. Objects are never destroyed: the
creator keeps the pointer it was given. The loops visit containers in any order.

| run | checks |
|---|---|
| `registry` | `NamesResolve`; `NoCrossDeadlock`; `ContainersFollowLifecycle` |
| `registry_live` | fair: `CallsReturn`, unless a thread waits for itself |

Together they say that threads never deadlock one another: every hang of the registry comes from a
thread that locks a mutex twice, as described above. The report of week 5 claims "proper lock
ordering to prevent deadlocks"; it holds between threads and not within one. A container that is
restarted between the two loops of `cleanupStoppedContainers()` is removed by force while it runs:
the model has that behaviour, and `ContainersFollowLifecycle` and the proved `LeavesOnlyRemoved` (a
container leaves the registry only when REMOVED, or by `shutdown`) hold across it.

Bounds: two objects, ids, names and threads, so ids and names are taken, freed and taken again, and
every pair of calls overlaps; threads, ids and objects are symmetric. Liveness: one of each but two
threads. Fairness: threads run, and a mutex that is free again and again is obtained.

## 6. ProcessManager

`ProcessManager.tla` models the map of entries, the exit callback, client threads and the
monitoring thread. Every question about a process is a `waitpid(WNOHANG)`, which reaps it, asked
*without* `processes_mutex_`; the answer (`seen`) may be stale when it is stored. So each operation
is cut where the code takes or drops the mutex, asks the kernel, signals or sleeps. `kproc` is the
kernel's view, as in `Container`.

Facts the model shows. The exit code of an entry is never read: the `waitpid` that asks for it
(process_manager.cpp:345) comes after `determineProcessStatus()` has reaped the process
(`ExitCodeNeverRead`, proved). An entry whose exit another thread's query has reaped becomes UNKNOWN, which
the sweep does not erase. The callback may be told twice of one exit, when two threads have
determined the status before either stores it; it runs with `processes_mutex_` held, so one that
calls the manager waits for itself (`SelfWait`).

Assumed: one thread at a time starts, stops and destroys the manager (`startMonitoring` takes no
lock), the callback is set before anything runs (the member is not protected), clients ask about
pids that `createProcess` has returned, and `fork` returns each pid once. Left out: what the child
does before `exec`, figures from `/proc`.

| run | checks |
|---|---|
| `process` | `NoLostProcess`; `ExitReported`; `StopEnds`; fair: `CallsReturn`; `ExitNoticed` |

Bounds: one process, two clients and the monitoring thread. The properties are about one entry and
the threads that act on it; different entries share only the mutex and the loops, and three threads
are enough for one to hold a stale answer while another stores and a third sweeps. Fairness: threads
run and a mutex that is free again and again is obtained; nothing is assumed of the process, nor of
a `waitForProcess` without timeout.

## 7. CgroupManager and ResourceMonitor

`CgroupTree.tla` is the file system as the managers use it: which groups have a directory, which
group each process is in, and what create, add, remove and destroy do to them, for any number of
managers of one path. `destroy` lists the processes, moves them one by one to the parent and then
removes the directory; any of this may fail, and the kernel refuses to remove a group with members.

`CgroupManager.tla` adds one owned manager per group and the limit the kernel has for each
controller. Writes fail visibly (the file cannot be opened) or silently (the kernel refuses the
value when the stream is closed, which nobody looks at). The several files of a controller are one
limit, which hides that a memory.low of 0, no protection, is written as `max`
(cgroup_manager.cpp:387); "io" is there because `applyConfiguration()` writes nothing for it.
`setCpuBurst()` stores its value and writes no file; it is left out.

`ResourceMonitor.tla` models the monitoring thread, `monitoring_mutex_`, `alerts_mutex_`, the
thresholds and the length of the history (`metrics_mutex_` is never held across another step).
Metrics are read through a temporary `CgroupManager` of the same path, and **its destructor destroys
the group**: every reading moves the processes of the group to the parent and tries to remove the
directory (resource_monitor.cpp:83, cgroup_manager.cpp:153). The model has those steps (`Evict`), in
every interleaving with the calls of the owners; no property forbids them, since the code does this
whenever it samples. `checkAlerts` takes and drops `alerts_mutex_` several times; `Compare` is one
step, which reads what the separate scopes read. Groups are given by their full path.

| run | checks |
|---|---|
| `cgroup` | `LimitsInForce` |
| `monitor` | `ThreadIffGroups`; `OneThread`; fair: `MonitorCallsReturn`; `Sampled` |

`LimitsInForce` excepts a manager one of whose writes has failed since all limits were last written
(the history variable `unapplied`): the code does not notice most of these failures, and reports the
configured limits all the same. `MonitorCallsReturn` names the two ways the code waits for itself:
`stopMonitoring()` joins the thread with `monitoring_mutex_` held, which the thread needs for its next round (`JoinDeadlock`), and
`checkAlerts()` calls `triggerAlert()` with `alerts_mutex_` held (`AlertDeadlock`).

Bounds: `cgroup` one group, one process, all four controllers, two values and
an invalid one; every order of the calls occurs. `monitor` two groups, one process, one client
and the thread, a history of one sample, so that it is full at the second. A second client adds
nothing to the two waits above, and mutexes are held by the client and the thread in every
combination; that `OneThread` and `ThreadIffGroups` hold for any number of clients is proved.
Fairness: as in section 6.

## 8. PluginRegistry

Every operation holds `mutex_` throughout, so at most one is under way (`op`, `phase`); the
depth-first search of `getLoadOrderUnsafe()` and the loops over its result are modelled step by
step, with the activations of `visit` as a stack. The order in which the unordered map and the
dependencies are visited, and whether `initialize()` and `shutdown()` succeed, are open. Files of a
directory are loaded one by one without the mutex in between.

| run | checks |
|---|---|
| `plugins` | `CycleIffThrow`; `LoadOrder`; `NothingLeftOut`; `DependentsFirst`; fair: `CallsReturn` |

The reference definitions are `Cyclic` (some set of plugins in which each depends on another of the
set) and the three conjuncts of `LoadOrder`. Facts: `shutdownPlugin()` and `unregisterPlugin()` do
not look at dependents; plugins that are unregistered and registered again can close a cycle among
initialised plugins, after which `shutdownAllPlugins()` always throws and stops nothing; "reverse
order of initialization" (plugin_registry.cpp:148) is the reverse of a load order computed anew.

Bounds: three names, hence every graph on three nodes with self-loops and missing dependencies, and
every subset of them initialised. Fairness: the call that holds `mutex_` goes on. Left out: plugins
that call the registry (they would lock `mutex_` twice), `getPlugin()` pointers, moves.

## 9. Logger

`Logger.tla` models one logger: its level, the sinks in order, the stream of each file (none, open,
or closed because the open failed), the two mutexes with their owners, and the messages each target
was given. `log()` takes `sinks_mutex_` and calls one sink per step; a file sink takes
`file_sinks_mutex_`. `addFileSink()` takes them in the opposite order.

| run | checks |
|---|---|
| `logger` | `SameOrder`; `SinkHasStream`; fair: `CallsReturn`, unless `LockOrderDeadlock` |

Facts: `removeFileSink()` removes all sinks; a stream whose open failed stays in the map, so a second
`addFileSink()` for the file succeeds and its messages are dropped. Assumed: the instance is reset
when no thread is inside it. Level and pattern are not synchronised; a level is one word and is read
and written in one step. Left out: formatting, the console, sinks that log.

Bounds: two threads, one file and a custom target, two levels, two sinks and two messages, so that
order, levels and both mutexes matter. Fairness: as in section 6.

## 10. ConfigManager

`ConfigManager.tla` models values, layers (a `std::map`, so a layer is the rank of its name) and the
listener, with threads that set, remove, merge, load and clear. `set()` and `remove()` keep
`values_mutex_` until the listener has returned; a load is a `clear()` and one `set()` per key.
`mirror` is what a listener that applies every notification has; `missed` are the keys changed
without one.

| run | checks |
|---|---|
| `config` | `MirrorFollows`; `LoadedExactly`; `EffectiveAgrees` |

Facts: `clear()`, and so every load, tells nobody; a text that does not parse is found out after the
old values are gone; `addLayer()` for a name that exists changes nothing; `get()` prefers the
manager's own value and then the *first* layer, `getEffectiveConfig()` the *last* layer.
`EffectiveAgrees` says that they differ only for keys that several of them have.

Assumed: nobody else uses the manager during `addLayer()` and `removeLayer()`, which take no lock; the
listener only takes note (`values_mutex_` is recursive, so one that calls `set()` from inside a
notification would not block but nest), and takes the empty `ConfigValue{}` it is told on a removal
(config_manager.cpp:216) for the absence of the key, as `None` is in `mirror`.
Left out: `merge()` of a manager with layers, JSON syntax (a text is the function it denotes, and may
turn out to be malformed at any key), variable expansion, validation, sub-configurations, file
watching (a placeholder). Bounds: two threads, keys, values and layers. No deadlock is checked: calls
wait only for a mutex whose owner waits for nothing.

## 11. Proofs

The theorems hold for every value of the constants that the named assumption of the module allows;
the assumptions say that the "nobody" values (`NoPid`, `NoThread`, ...) are outside the sets they
complete and that numbers are naturals, and little else. Every proof module defines an inductive
invariant (`IInv`, `ConfigIInv`, `ManagerIInv`, `MonitorIInv`), shows that the initial states have it
and that every step keeps it, with one case per action, and draws its theorems from that. Type
correctness is proved for every component (`TypeCorrectness`, `TypeCorrect`, `ConfigTyped`,
`ManagersTyped`, `MonitorTyped`), so that the runs need not check it.

| module | about | theorem | states |
|---|---|---|---|
| `ContainerAndConfigProofs` | `Container` | `NoOrphans` | `NoOrphanProcess` |
| | | `LifecycleConsistency` | `LifecycleInvariant` (in no run) |
| | | `RemovalReleases` | `RemovedReleasesAll` |
| | | `StopEnds` | `StopEndsProcess` |
| | | `ExitCodeRecorded` | `StopRecordsExitCode` |
| | | `Refinement` | `ImplementsLifecycle` |
| | `ConfigManager` | `ListenerUpToDate` | `MirrorFollows` |
| | | `LoadIsExact` | `LoadedExactly` |
| | | `ReadsAgree` | `EffectiveAgrees` |
| `ContainerRegistryProofs` | `ContainerRegistry` | `NamesLead` | `NamesResolve` |
| | | `NoThreadsCross` | `NoCrossDeadlock` |
| | | `LifecycleFollowed` | `ContainersFollowLifecycle` |
| | | `LeaveWhenRemoved` | `LeavesOnlyRemoved` (in no run) |
| `ProcessManagerProofs` | `ProcessManager` | `NoProcessLost` | `NoLostProcess` |
| | | `ExitsReported` | `ExitReported` |
| | | `ExitCodeStaysZero` | `ExitCodeNeverRead` (in no run) |
| | | `SweepLeavesNoZombie` | `SweptIsReaped` (in no run) |
| | | `StopIsFinal` | `StopEnds` |
| `EventManagerProofs` | `EventManager` | `TypeCorrect` | `TypeOK`, the bound of the queue included |
| | | `EventsConserved` | `Conservation` |
| | | `OrderIsPreserved` | `OrderPreserved` |
| | | `SilentOnceUnsubscribed` | `UnsubscribedIsSilent` |
| | | `SilentOnceReset` | `ResetSilences` |
| | | `StrandedOnlyByFlush` | `OnlyFlushStrands` |
| `LoggerAndCgroupProofs` | `CgroupManager` | `LimitsEnforced` | `LimitsInForce` |
| | `Logger` | `TargetsAgree` | `SameOrder` |
| | | `StreamsExist` | `SinkHasStream` |
| | | `NoSinkPassedOver` | `Delivered` (in no run) |
| `PluginAndMonitorProofs` | `PluginRegistry` | `CyclesFound` | `CycleIffThrow` |
| | | `OrderIsTopological` | `LoadOrder` |
| | | `LoopsComplete` | `NothingLeftOut` |
| | | `ShutdownOrder` | `DependentsFirst` |
| | `ResourceMonitor` | `ThreadWhenNeeded` | `ThreadIffGroups` |
| | | `ThreadStartedOnce` | `OneThread` |

**Container.** `IInv` is the type invariant, `NoOrphanProcess` and `LifecycleInvariant`.
`NoOrphanProcess` alone is not inductive: that a fork finds no live process needs to know in which
steps and states none can be live (`Quiescent`), which in turn needs that `state_` and the step of
the running operation agree (`StateMatchesStep`, `ControlConsistent`), except while a callback waits,
when nothing of the operation is left to come. `StopEnds` follows from the
conjunct on `Quiescent` in the step before `stop` returns. For `Refinement`, `NextPhase` shows that
every step is a `Launch`, `End`, `Move` or a stutter of the abstract specification.
`ExitCodeRecorded` has an invariant of its own, `ExitRecorded`: a managed process that was reaped has
left its code in `exit_code_`, unless `getStats()` took its status. It is inductive because the other places that reap do so for a manager
that is gone by then, or about to be (`cleanupDrop`), and because nobody can reap the new process
before `start()` has looked at it, which would make `start()` read an uninitialised status. A thread
in `getStats()` can do either, and then drops the status, which the invariant excepts.

**ContainerRegistry.** That the maps agree needs that an object is registered under one id (`OneId`)
and exists (`Exist`). That each transition is an edge of the graph needs that an operation has a
path of the graph in front of it (`OnPath`), which only its owner can change (`Owners`), and that no
container whose mutex is free is in a transient phase: without the last, a forced remove of a
STARTING container would leave the graph. `NoThreadsCross` finds, in any set of waiting threads, one
that waits for itself or for nobody in the set.

**ProcessManager.** The properties are inductive only together: the sweep loses no process because
entries are marked only for reaped processes, and that holds because an answer "does not run", once
obtained, stays true until it is stored (`Seen`). `Inserting` says that a forked process is unknown
to every other thread until its entry is stored, `Dying` what the destructor has dealt with.

**EventManager.** The invariant is spread over three modules, in the order of the argument.
`EventManagerSteps` says where each thread can be and what it holds there (`Positions`, `Hands`), and
what each operation does to the places of an event. `EventManagerDelivery` shows what a step
preserves: an event is in one place (`Once`), batches, hands and deliveries have no duplicates
(`Injective`), what a listener has seen it will not be told again (`Seen`), only events published
before a listener left are still on their way to it (`Recent`), and events of one client, priority
and unbatched type leave the queue in order (`Unbatched`, `Ordered`).
`EventManagerProofs` adds the types and the statistics (`Stats`: what was taken from the queue and is
not yet counted is the one event of the processing thread) and puts `IInv` together.
`Conservation` counts places (`PlacesOf`, a set of tagged places of an event); that there is exactly
one follows from `Once` without induction. `SilentOnceReset` and `StrandedOnlyByFlush` are facts about
one step from a state of the invariant.

**CgroupManager, ResourceMonitor.** `LimitsInForce` is inductive with the types. For the monitor,
`Locks` says what is true while a client waits in `join` with the mutex held, from
which `OneThread` follows; that each step is one of `CgroupTree` or leaves the tree alone
(`NextTree`) serves only the types.

**PluginRegistry.** The stack is a path of the graph whose names are those being visited (`Path`), the
result is closed under dependencies and sorted (`Sorted`), and no visited set is a cycle (`Acyclic`).
The last is inductive because a plugin is visited after all it depends on; a name met again on the
stack gives the cycle, the part of the stack above it.

**Logger.** Two mutexes guard `sinks_` and the streams. `Streams` connects them: a sink is pushed when
its stream exists, and streams are erased only while `sinks_` is empty and stays locked. The order of
messages follows from `Fresh`: a message not yet being delivered is nowhere, and nothing follows the
one that is.

**ConfigManager.** `Telling` says that the value a thread reports is still the current one, `Loading`
what an undisturbed load has set so far. `ReadsAgree` needs that the layers
that have a key have a last one. That is an invariant too (`LayersOrdered`): layers are added one by
one, and a set with a last element has one when an element is added (`OneMoreLayer`).

Leaves name the prover (`Zenon`, with a time where it needs one) where the default order would spend
its time on the other.

Only model-checked: the properties under fairness (`OperationsReturn`, `TransientPhasesEnd`,
`EventuallyDelivered`, `ResetReturns`, the `CallsReturn` of each component, `MonitorCallsReturn`,
`ExitNoticed`, `Sampled`). They need `ENABLED` and temporal induction, which the prover does not have.
Every safety and every action property that a run checks is also proved.

## 12. Not modelled

- `ContainerRuntime`: a façade whose operations are stubs around two flags.
- `ContainerConfig`, `Error`: validation and messages, no state.
- `core/config.cpp`: an older key-value store that nothing includes.
- `main.cpp`, `cli/`: a line of output and a placeholder.
- The system calls behind namespaces, figures read from `/proc` and cgroup files, formatting of log
  lines, JSON syntax: input and output without control.
- `src/moby`: a copy of Docker's Go sources that the README of the repository names as reference
  implementation. No part of the program builds or calls it, and this development is about the
  C++ program only.

What a modelled component leaves out is said in its section.
