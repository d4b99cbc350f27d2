------------------------------ MODULE Container ------------------------------
(***************************************************************************)
(* The lifecycle of one runtime::Container (src/src/runtime/container.cpp),*)
(* the ProcessManager it owns and the kernel process behind main_pid_.     *)
(*                                                                         *)
(* start, stop, restart and remove run for seconds with Container::mutex_  *)
(* held.  Each is split where it sleeps or polls, because that is where    *)
(* the child process, getStats() (which takes no lock) and the kernel get  *)
(* to act.  op is the operation that holds mutex_, pc its next step.       *)
(***************************************************************************)
EXTENDS Naturals, FiniteSets

CONSTANTS
    Pids,           \* the pids fork() can return in one behaviour
    NoPid,          \* main_pid_ before the first start (0 in the code)
    ExitCodes,      \* exit codes a process can choose
    NsKinds,        \* namespaces one start tries to create (6 in the code)
    MaxNamespaces,  \* bound on namespace_managers_, which starts only append to
    Readers         \* threads that call getStats()

ASSUME ContainerAssumption ==
    /\ NoPid \notin Pids
    /\ ExitCodes \subseteq Nat
    /\ NsKinds \in Nat
    /\ MaxNamespaces \in Nat

VARIABLES
    state_,              \* ContainerState
    removed_,
    main_pid_,
    exit_code_,
    process_manager_,    \* NoManager, or the pids it manages
    cgroup_manager_,     \* TRUE when the pointer is not null
    cgroupDir,           \* the cgroup directory exists in the file system
    namespace_managers_, \* length of the vector
    op, pc,              \* the holder of mutex_ and its next step
    kproc,               \* kernel: what each pid denotes
    kstatus,             \* wait status of each process that exited, NoStatus
                         \* again when the waitpid that took it dropped it
    stats                \* getStats() calls in progress

kernelVars == <<kproc, kstatus>>
managerVars == <<process_manager_, cgroup_manager_, cgroupDir, namespace_managers_>>
vars == <<state_, removed_, main_pid_, exit_code_, managerVars, op, pc,
          kernelVars, stats>>

States == {"CREATED", "STARTING", "RUNNING", "PAUSED", "STOPPING", "STOPPED",
           "REMOVING", "REMOVED", "DEAD", "RESTARTING", "ERROR"}

NoManager == {NoPid}    \* a null process_manager_; no real manager holds NoPid

SIGKILL == 9
SIGTERM == 15

WaitStatus == [how : {"exited"}, n : ExitCodes]
                \cup [how : {"signaled"}, n : {SIGKILL, SIGTERM}]
NoStatus == [how |-> "none", n |-> 0]

(* What waitForProcessExit stores for a reaped process. *)
ExitCodeOf(w) == IF w.how = "signaled" THEN 128 + w.n ELSE w.n

-----------------------------------------------------------------------------
(* The state transition table.  Its conditions read removed_ and main_pid_. *)

(* Faulty variant: a running container may be started again. *)
StartableStatesOrRunning == {"CREATED", "RUNNING", "STOPPED", "RESTARTING"}

StartableStates == {"CREATED", "STOPPED", "RESTARTING"}

isStateTransitionValid(from, to) ==
    \/ from \in StartableStates /\ to = "STARTING" /\ ~removed_
    \/ from \in {"STARTING", "PAUSED"} /\ to = "RUNNING" /\ main_pid_ # NoPid
    \/ from = "RUNNING" /\ to = "PAUSED" /\ main_pid_ # NoPid
    \/ from = "RUNNING" /\ to = "RESTARTING"
    \/ from = "STOPPED" /\ to = "RESTARTING" /\ ~removed_
    \/ from \in {"STARTING", "RUNNING", "PAUSED", "RESTARTING"} /\ to = "STOPPING"
    \/ from = "STOPPING" /\ to \in {"STOPPED", "DEAD"}
    \/ from = "ERROR" /\ to = "STOPPED"
    \/ from \in {"CREATED", "STARTING", "RUNNING", "STOPPING", "RESTARTING", "REMOVING"}
         /\ to = "ERROR"
    \/ from \notin {"REMOVING", "REMOVED", "DEAD"} /\ to = "REMOVING"
    \/ from = "REMOVING" /\ to = "REMOVED"

canTransitionTo(to) == isStateTransitionValid(state_, to)

-----------------------------------------------------------------------------
(* The kernel, as the code uses it.  A pid is "none" before fork, "alive", *)
(* "doomed" once SIGKILL is pending, "zombie" until reaped, then "gone";   *)
(* the kernel may give a gone pid to a process that is not ours, "foreign".*)

ProcStates == {"none", "alive", "doomed", "zombie", "gone", "foreign"}

(* ::kill(pid, 0) == 0 and ::kill in general: zombies still have their pid. *)
Signalable(p) == kproc[p] \in {"alive", "doomed", "zombie", "foreign"}

Executing(p) == kproc[p] \in {"alive", "doomed"}

(* Delivery of SIGKILL; SIGTERM changes nothing by itself, since a process *)
(* may ignore it and may exit at any time anyway.                          *)
Doom(p) == IF p \in Pids /\ kproc[p] = "alive" THEN [kproc EXCEPT ![p] = "doomed"] ELSE kproc

(* A waitpid(pid, .., WNOHANG) that returns pid. *)
Reap(p) == IF p \in Pids /\ kproc[p] = "zombie" THEN [kproc EXCEPT ![p] = "gone"] ELSE kproc

ProcessExit(p) ==
    /\ Executing(p)
    /\ \E w \in WaitStatus :
          /\ w = [how |-> "signaled", n |-> SIGKILL] => kproc[p] = "doomed"
          /\ kstatus' = [kstatus EXCEPT ![p] = w]
    /\ kproc' = [kproc EXCEPT ![p] = "zombie"]
    /\ UNCHANGED <<state_, removed_, main_pid_, exit_code_, managerVars, op, pc, stats>>

PidRecycled(p) ==
    /\ kproc[p] = "gone"
    /\ kproc' = [kproc EXCEPT ![p] = "foreign"]
    /\ UNCHANGED <<state_, removed_, main_pid_, exit_code_, managerVars, op, pc,
                   kstatus, stats>>

-----------------------------------------------------------------------------
Init ==
    /\ state_ = "CREATED"
    /\ removed_ = FALSE
    /\ main_pid_ = NoPid
    /\ exit_code_ = 0
    /\ process_manager_ = NoManager
    /\ cgroup_manager_ = FALSE
    /\ cgroupDir = FALSE
    /\ namespace_managers_ = 0
    /\ op = "none" /\ pc = "idle"
    /\ kproc = [p \in Pids |-> "none"]
    /\ kstatus = [p \in Pids |-> NoStatus]
    /\ stats = [r \in Readers |-> "idle"]

(* mutex_ is taken by operation o, whose next step is step. *)
Lock(o, step) == op = "none" /\ pc = "idle" /\ op' = o /\ pc' = step
At(o, step) == op = o /\ pc = step
Goto(step) == pc' = step /\ UNCHANGED op
Unlock == op' = "none" /\ pc' = "idle"

(* transitionState() ends with event_callback_, called with mutex_ and       *)
(* callback_mutex_ held.  setEventCallback() may install any callback at any *)
(* time; one that calls back into a function that locks mutex_, as the       *)
(* registry's does with getInfo(), never returns, and its thread o keeps     *)
(* mutex_ for good.                                                          *)
Stuck(o) == op' = o /\ pc' = "callback"
Notify(continue) == continue \/ Stuck(op)

(* getStats() calls whose ProcessManager is deleted under them. *)
InvalidateStats == stats' = [r \in Readers |-> IF stats[r] = "using" THEN "dangling" ELSE stats[r]]

Managed(p) == p # NoPid /\ p \in process_manager_

-----------------------------------------------------------------------------
(* start() *)

(* The guard, then setupNamespaces(): every attempt that succeeds appends.  *)
Start ==
    /\ canTransitionTo("STARTING")
    /\ namespace_managers_ + NsKinds <= MaxNamespaces
    /\ \E k \in 0..NsKinds : namespace_managers_' = namespace_managers_ + k
    /\ Lock("start", "cgroup")
    /\ UNCHANGED <<state_, removed_, main_pid_, exit_code_, process_manager_,
                   cgroup_manager_, cgroupDir, kernelVars, stats>>

(* setupCgroups(): the new manager's assignment deletes the old one, whose  *)
(* destructor removes the same directory, before create() makes it again;   *)
(* both may fail and every failure is only logged.                          *)
SetupCgroups ==
    /\ At("start", "cgroup")
    /\ cgroup_manager_' = TRUE
    /\ cgroupDir' \in BOOLEAN
    /\ Goto("manager")
    /\ UNCHANGED <<state_, removed_, main_pid_, exit_code_, process_manager_,
                   namespace_managers_, kernelVars, stats>>

(* startProcess(): a new ProcessManager replaces the old one, whose          *)
(* destructor sends SIGTERM to the process it manages, if that still runs.   *)
ReplaceManager ==
    /\ At("start", "manager")
    /\ process_manager_' = {}
    /\ \/ /\ Managed(main_pid_) /\ Executing(main_pid_)
          /\ Goto("drop") /\ UNCHANGED kproc
       \/ /\ Managed(main_pid_) /\ ~Executing(main_pid_)
          /\ Goto("fork") /\ kproc' = Reap(main_pid_)
       \/ ~Managed(main_pid_) /\ Goto("fork") /\ UNCHANGED kproc
    /\ InvalidateStats
    /\ UNCHANGED <<state_, removed_, main_pid_, exit_code_, cgroup_manager_,
                   cgroupDir, namespace_managers_, kstatus>>

(* Faulty variant: the destructor gives up after SIGTERM. *)
DropManagerNoKill ==
    /\ At("start", "drop")
    /\ kproc' = Reap(main_pid_)
    /\ Goto("fork")
    /\ UNCHANGED <<state_, removed_, main_pid_, exit_code_, managerVars, kstatus, stats>>

(* ... and after PROCESS_CLEANUP_TIMEOUT sends SIGKILL, without a waitpid.  *)
DropManager ==
    /\ At("start", "drop")
    /\ kproc' = IF Executing(main_pid_) THEN Doom(main_pid_) ELSE Reap(main_pid_)
    /\ Goto("fork")
    /\ UNCHANGED <<state_, removed_, main_pid_, exit_code_, managerVars, kstatus, stats>>

(* The catch block of start(): it leaves through transitionState(ERROR),    *)
(* which itself throws, and changes nothing, when the table has no such edge.*)
StartFailed ==
    IF canTransitionTo("ERROR") THEN state_' = "ERROR" /\ Notify(Unlock)
                                ELSE UNCHANGED state_ /\ Unlock

(* createProcess(): fork, and the child's error pipe read once after 10 ms. *)
CreateProcess ==
    /\ At("start", "fork")
    /\ \/ \E p \in Pids :
             /\ kproc[p] = "none"
             /\ kproc' = [kproc EXCEPT ![p] = "alive"]
             /\ process_manager_' = {p}
             /\ main_pid_' = p
             /\ Goto("probe")
             /\ UNCHANGED state_
       \/ StartFailed /\ UNCHANGED <<kproc, process_manager_, main_pid_>>
    /\ UNCHANGED <<removed_, exit_code_, cgroup_manager_, cgroupDir,
                   namespace_managers_, kstatus, stats>>

(* The check 100 ms later; status is read uninitialized when waitpid fails. *)
ProbeProcess ==
    /\ At("start", "probe")
    /\ \/ /\ Signalable(main_pid_)
          /\ state_' = "STARTING"
          /\ Notify(Goto("running"))
          /\ UNCHANGED exit_code_
       \/ /\ ~Signalable(main_pid_)
          /\ exit_code_' \in ExitCodes \cup {exit_code_}
          /\ StartFailed
    /\ UNCHANGED <<removed_, main_pid_, managerVars, kernelVars, stats>>

EnterRunning ==
    /\ At("start", "running")
    /\ canTransitionTo("RUNNING")
    /\ state_' = "RUNNING"
    /\ Notify(Unlock)
    /\ UNCHANGED <<removed_, main_pid_, exit_code_, managerVars, kernelVars, stats>>

-----------------------------------------------------------------------------
(* waitForProcessExit(timeout): waitpid, and once more after the timeout if  *)
(* the child had not exited.  Again holds when the second call is needed.    *)

ReapMain ==
    /\ kproc' = Reap(main_pid_)
    /\ exit_code_' = IF kproc[main_pid_] = "zombie"
                     THEN ExitCodeOf(kstatus[main_pid_]) ELSE exit_code_

(* stop() and restart() store the new state once the wait is over. *)
AfterWait ==
    IF op = "stop" THEN state_' = "STOPPING" /\ Notify(Goto("poll"))
                   ELSE state_' = "RESTARTING" /\ Notify(Unlock)

WaitFirst ==
    /\ pc = "wait1"
    /\ ReapMain
    /\ IF Executing(main_pid_) THEN Goto("wait2") /\ UNCHANGED state_ ELSE AfterWait
    /\ UNCHANGED <<removed_, main_pid_, managerVars, kstatus, stats>>

(* Faulty variant: the last waitpid blocks until the process exits. *)
WaitSecondBlocking ==
    /\ pc = "wait2" /\ ~Executing(main_pid_)
    /\ ReapMain
    /\ AfterWait
    /\ UNCHANGED <<removed_, main_pid_, managerVars, kstatus, stats>>

WaitSecond ==
    /\ pc = "wait2"
    /\ ReapMain
    /\ AfterWait
    /\ UNCHANGED <<removed_, main_pid_, managerVars, kstatus, stats>>

-----------------------------------------------------------------------------
(* stop(): SIGTERM, wait, poll until the timeout, SIGKILL, wait. *)

Stop ==
    /\ canTransitionTo("STOPPING")
    /\ Lock("stop", "wait1")
    /\ UNCHANGED <<state_, removed_, main_pid_, exit_code_, managerVars,
                   kernelVars, stats>>

(* Faulty variant: the timeout ends the loop but nothing is killed. *)
PollExitNoKill ==
    /\ At("stop", "poll")
    /\ Goto("stopped")
    /\ UNCHANGED <<state_, removed_, main_pid_, exit_code_, managerVars, kernelVars, stats>>

(* Faulty variant: the loop has no timeout. *)
PollExitUnbounded ==
    /\ At("stop", "poll") /\ ~Signalable(main_pid_)
    /\ Goto("stopped")
    /\ UNCHANGED <<state_, removed_, main_pid_, exit_code_, managerVars, kernelVars, stats>>

(* The loop ends when kill(pid, 0) fails or the timeout is reached. *)
PollExit ==
    /\ At("stop", "poll")
    /\ IF Signalable(main_pid_)
       THEN kproc' = Doom(main_pid_) /\ Goto("kill1")
       ELSE UNCHANGED kproc /\ Goto("stopped")
    /\ UNCHANGED <<state_, removed_, main_pid_, exit_code_, managerVars, kstatus, stats>>

(* Faulty variant: the wait after SIGKILL drops the status. *)
KillWaitNoStatus ==
    /\ op = "stop" /\ pc \in {"kill1", "kill2"}
    /\ kproc' = Reap(main_pid_)
    /\ Goto(IF pc = "kill1" /\ Executing(main_pid_) THEN "kill2" ELSE "stopped")
    /\ UNCHANGED <<state_, removed_, main_pid_, exit_code_, managerVars, kstatus, stats>>

KillWait ==
    /\ op = "stop" /\ pc \in {"kill1", "kill2"}
    /\ ReapMain
    /\ Goto(IF pc = "kill1" /\ Executing(main_pid_) THEN "kill2" ELSE "stopped")
    /\ UNCHANGED <<state_, removed_, main_pid_, managerVars, kstatus, stats>>

EnterStopped ==
    /\ At("stop", "stopped")
    /\ canTransitionTo("STOPPED")
    /\ state_' = "STOPPED"
    /\ Notify(Unlock)
    /\ UNCHANGED <<removed_, main_pid_, exit_code_, managerVars, kernelVars, stats>>

(* restart(): after transitionState(RESTARTING) the tests for RUNNING and    *)
(* STOPPED that guard the calls of stop() and start() are both false.        *)
Restart ==
    /\ canTransitionTo("RESTARTING")
    /\ Lock("restart", "wait1")
    /\ UNCHANGED <<state_, removed_, main_pid_, exit_code_, managerVars,
                   kernelVars, stats>>

-----------------------------------------------------------------------------
(* pause(), resume() and kill(signal) never sleep: one step each. *)

Pause ==
    /\ op = "none" /\ canTransitionTo("PAUSED")
    /\ state_' = "PAUSED"
    /\ Stuck("pause") \/ UNCHANGED <<op, pc>>
    /\ UNCHANGED <<removed_, main_pid_, exit_code_, managerVars, kernelVars, stats>>

Resume ==
    /\ op = "none" /\ canTransitionTo("RUNNING")
    /\ state_' = "RUNNING"
    /\ Stuck("resume") \/ UNCHANGED <<op, pc>>
    /\ UNCHANGED <<removed_, main_pid_, exit_code_, managerVars, kernelVars, stats>>

Kill(signal) ==
    /\ op = "none" /\ main_pid_ # NoPid
    /\ kproc' = IF signal = SIGKILL THEN Doom(main_pid_) ELSE kproc
    /\ UNCHANGED <<state_, removed_, main_pid_, exit_code_, managerVars, op, pc,
                   kstatus, stats>>

-----------------------------------------------------------------------------
(* remove(force) and ~Container() share cleanupResources(). *)

Remove(force) ==
    /\ state_ = "RUNNING" => force
    /\ canTransitionTo("REMOVING")
    /\ Lock("remove", "cleanup")
    /\ UNCHANGED <<state_, removed_, main_pid_, exit_code_, managerVars,
                   kernelVars, stats>>

(* cleanup(), from the destructor: nobody may be using the object any more. *)
Destroy ==
    /\ \A r \in Readers : stats[r] = "idle"
    /\ Lock("destroy", IF removed_ THEN "destroyed" ELSE "cleanup")
    /\ UNCHANGED <<state_, removed_, main_pid_, exit_code_, managerVars,
                   kernelVars, stats>>

(* stopProcess(main_pid_, 5): SIGTERM if the managed process runs. *)
CleanupTerm ==
    /\ pc = "cleanup"
    /\ IF Managed(main_pid_) /\ Executing(main_pid_)
       THEN Goto("cleanupWait") /\ UNCHANGED <<kproc, process_manager_, stats>>
       ELSE /\ kproc' = IF Managed(main_pid_) THEN Reap(main_pid_) ELSE kproc
            /\ process_manager_' = NoManager
            /\ InvalidateStats
            /\ Goto("release")
    /\ UNCHANGED <<state_, removed_, main_pid_, exit_code_, cgroup_manager_,
                   cgroupDir, namespace_managers_, kstatus>>

(* Faulty variant: a process that ignores SIGTERM is left alone. *)
CleanupKillNothing ==
    /\ pc = "cleanupWait"
    /\ kproc' = Reap(main_pid_)
    /\ Goto("cleanupDrop")
    /\ UNCHANGED <<state_, removed_, main_pid_, exit_code_, managerVars, kstatus, stats>>

(* ... SIGKILL when it still runs at the timeout. *)
CleanupKill ==
    /\ pc = "cleanupWait"
    /\ kproc' = IF Executing(main_pid_) THEN Doom(main_pid_) ELSE Reap(main_pid_)
    /\ Goto("cleanupDrop")
    /\ UNCHANGED <<state_, removed_, main_pid_, exit_code_, managerVars, kstatus, stats>>

(* process_manager_.reset(): ~ProcessManager reaps a process that has died by*)
(* then, and otherwise only repeats the signals.                             *)
CleanupDrop ==
    /\ pc = "cleanupDrop"
    /\ kproc' = Reap(main_pid_)
    /\ process_manager_' = NoManager
    /\ InvalidateStats
    /\ Goto("release")
    /\ UNCHANGED <<state_, removed_, main_pid_, exit_code_, cgroup_manager_,
                   cgroupDir, namespace_managers_, kstatus>>

(* The cgroup (removing its directory may fail) and the namespaces. *)
Release ==
    /\ pc = "release"
    /\ cgroupDir' \in {cgroupDir, cgroupDir /\ ~cgroup_manager_}
    /\ cgroup_manager_' = FALSE
    /\ namespace_managers_' = 0
    /\ IF op = "remove"
       THEN state_' = "REMOVING" /\ UNCHANGED removed_ /\ Notify(Goto("removed"))
       ELSE removed_' = TRUE /\ UNCHANGED state_ /\ Goto("destroyed")
    /\ UNCHANGED <<main_pid_, exit_code_, process_manager_, kernelVars, stats>>

(* The second cleanupResources() finds nothing left. *)
EnterRemoved ==
    /\ At("remove", "removed")
    /\ canTransitionTo("REMOVED")
    /\ state_' = "REMOVED"
    /\ \/ Unlock /\ removed_' = TRUE
       \/ Stuck(op) /\ UNCHANGED removed_
    /\ UNCHANGED <<main_pid_, exit_code_, managerVars, kernelVars, stats>>

-----------------------------------------------------------------------------
(* getStats() takes no lock: it reads the pointer process_manager_, and then *)
(* calls getProcessInfo(main_pid_) through it, whose waitpid reaps a zombie  *)
(* and keeps no status.                                                      *)

StatsBegin(r) ==
    /\ pc # "destroyed" /\ op # "destroy"
    /\ stats[r] = "idle" /\ process_manager_ # NoManager
    /\ stats' = [stats EXCEPT ![r] = "using"]
    /\ UNCHANGED <<state_, removed_, main_pid_, exit_code_, managerVars, op, pc, kernelVars>>

StatsEnd(r) ==
    /\ stats[r] = "using"
    /\ stats' = [stats EXCEPT ![r] = "idle"]
    /\ IF Managed(main_pid_) /\ kproc[main_pid_] = "zombie"
       THEN /\ kproc' = Reap(main_pid_)
            /\ kstatus' = [kstatus EXCEPT ![main_pid_] = NoStatus]
       ELSE UNCHANGED kernelVars
    /\ UNCHANGED <<state_, removed_, main_pid_, exit_code_, managerVars, op, pc>>

-----------------------------------------------------------------------------
(* The steps of the thread that holds mutex_. *)
HolderStep ==
    \/ SetupCgroups \/ ReplaceManager \/ DropManager
    \/ CreateProcess \/ ProbeProcess \/ EnterRunning
    \/ WaitFirst \/ WaitSecond \/ PollExit \/ KillWait \/ EnterStopped
    \/ CleanupTerm \/ CleanupKill \/ CleanupDrop \/ Release \/ EnterRemoved

Call ==
    \/ Start \/ Stop \/ Restart \/ Pause \/ Resume \/ Destroy
    \/ \E signal \in {SIGTERM, SIGKILL} : Kill(signal)
    \/ \E force \in BOOLEAN : Remove(force)

Kernel == \E p \in Pids : ProcessExit(p) \/ PidRecycled(p)

Stats == \E r \in Readers : StatsBegin(r) \/ StatsEnd(r)

Next == HolderStep \/ Call \/ Kernel \/ Stats

Spec == Init /\ [][Next]_vars

(* A thread inside an operation keeps running: every wait in it is bounded,  *)
(* but for the callback's, which enables no step.                            *)
FairSpec == Spec /\ WF_vars(HolderStep)

-----------------------------------------------------------------------------
ExitCodeValues == {0} \cup {ExitCodeOf(w) : w \in WaitStatus}
Ops == {"none", "start", "stop", "restart", "pause", "resume", "remove", "destroy"}

StartSteps == {"cgroup", "manager", "drop", "fork", "probe", "running"}
StopSteps == {"wait1", "wait2", "poll", "kill1", "kill2", "stopped"}
CleanupSteps == {"cleanup", "cleanupWait", "cleanupDrop", "release"}
Steps == {"idle", "callback", "removed", "destroyed"} \cup StartSteps \cup StopSteps \cup CleanupSteps

(* Every variable has its type. *)
TypeOK ==
    /\ state_ \in States
    /\ removed_ \in BOOLEAN
    /\ main_pid_ \in Pids \cup {NoPid}
    /\ exit_code_ \in ExitCodeValues
    /\ process_manager_ \subseteq Pids \cup {NoPid}
    /\ cgroup_manager_ \in BOOLEAN
    /\ cgroupDir \in BOOLEAN
    /\ namespace_managers_ \in 0..MaxNamespaces
    /\ op \in Ops
    /\ pc \in Steps
    /\ kproc \in [Pids -> ProcStates]
    /\ kstatus \in [Pids -> WaitStatus \cup {NoStatus}]
    /\ stats \in [Readers -> {"idle", "using", "dangling"}]

(* No process escapes: whatever start, stop, restart, remove and the         *)
(* destructor of a replaced ProcessManager do, a process that runs and has   *)
(* not been sent SIGKILL is main_pid_, and the current process_manager_ (or, *)
(* inside start(), the one being destroyed) is responsible for it.           *)
NoOrphanProcess ==
    \A p \in Pids : kproc[p] = "alive" =>
        /\ p = main_pid_
        /\ p \in process_manager_ \/ At("start", "drop")

(* The callback of the transition in progress waits for the mutex_ that its  *)
(* own thread holds.                                                         *)
CallbackWaits == pc = "callback"

(* A container that was removed, or destroyed, holds nothing: no process it  *)
(* started runs unkilled, and cleanupResources() has released the managers.  *)
(* removed_ tells so too, unless the callback keeps remove() from setting it.*)
RemovedReleasesAll ==
    state_ = "REMOVED" \/ pc = "destroyed" =>
        /\ removed_ \/ CallbackWaits
        /\ process_manager_ = NoManager
        /\ ~cgroup_manager_
        /\ namespace_managers_ = 0
        /\ \A p \in Pids : kproc[p] # "alive"

(* stop() returns only when the main process has exited or has been sent     *)
(* SIGKILL: a process that ignores SIGTERM does not survive the timeout.     *)
StopEndsProcess ==
    [][op = "stop" /\ op' = "none" => kproc[main_pid_] # "alive"]_vars

(* stop() returns with the exit code of the process the current manager      *)
(* started, if it has been reaped, whichever of the waitpid calls of stop()  *)
(* and restart() reaped it: only the waitpid of a concurrent getStats(),     *)
(* which keeps no status, can lose the code.                                 *)
StopRecordsExitCode ==
    [][op = "stop" /\ op' = "none" /\ Managed(main_pid_)
         /\ kproc[main_pid_] \in {"gone", "foreign"} /\ kstatus[main_pid_] # NoStatus
         => exit_code_' = ExitCodeOf(kstatus[main_pid_])]_vars

(* Every operation returns, also when the process ignores SIGTERM: the holder*)
(* of mutex_ releases it, or destroys the container.  The one thing that can *)
(* keep it is an event callback that takes mutex_ itself.                    *)
OperationsReturn == op # "none" ~> (op = "none" \/ pc = "destroyed" \/ CallbackWaits)

(* What handleRestartingState() says of RESTARTING, "Will transition to      *)
(* STARTING after restart actions complete": when restart() has returned,    *)
(* the container is no longer restarting.                                    *)
RestartCompletes == [][op = "restart" /\ op' = "none" => state_' # "RESTARTING"]_vars

(* The operation that holds mutex_ and its step agree.                       *)
ControlConsistent ==
    /\ op = "none" <=> pc = "idle"
    /\ ~CallbackWaits =>
          /\ op = "start" <=> pc \in StartSteps
          /\ op = "stop" => pc \in StopSteps
          /\ op = "restart" => pc \in {"wait1", "wait2"}
          /\ op = "remove" => pc \in CleanupSteps \cup {"removed"}
          /\ op = "destroy" => pc \in CleanupSteps \cup {"destroyed"}
          /\ op \notin {"pause", "resume"}

(* state_ is what the operation's earlier steps have stored, and a state that *)
(* presupposes a process has a main_pid_, the only pid ever managed.         *)
StateMatchesStep ==
    /\ state_ # "DEAD"
    /\ pc \in StartSteps \ {"running"} => state_ \in StartableStates
    /\ pc \in {"wait1", "wait2"} =>
          state_ \in IF op = "stop" THEN {"RUNNING", "PAUSED", "RESTARTING"}
                                   ELSE {"RUNNING", "STOPPED"}
    /\ ~CallbackWaits =>
          /\ state_ = "STARTING" <=> pc = "running"
          /\ state_ = "STOPPING" <=> pc \in {"poll", "kill1", "kill2", "stopped"}
          /\ state_ = "REMOVING" <=> pc = "removed"
          /\ op = "remove" => state_ # "REMOVED"
    /\ removed_ => state_ = "REMOVED" \/ pc = "destroyed"
    /\ main_pid_ = NoPid =>
          pc # "probe" /\ state_ \in {"CREATED", "ERROR", "REMOVING", "REMOVED"}
    /\ process_manager_ # NoManager => process_manager_ \subseteq {main_pid_} \ {NoPid}

(* Where no process may run unkilled. *)
Quiescent ==
    \/ state_ = "CREATED" /\ pc # "probe"
    \/ state_ = "STOPPED" /\ pc # "probe"
    \/ state_ \in {"ERROR", "REMOVING", "REMOVED"}
    \/ pc \in {"fork", "kill1", "kill2", "stopped", "cleanupDrop", "release", "removed",
               "destroyed"}

(* state_, the step of the operation that holds mutex_, main_pid_ and the    *)
(* process stay consistent: no process runs unkilled in a state at rest, nor *)
(* after the signals of stop() and cleanupResources(), and what remove()     *)
(* released stays released.  This makes the invariants above inductive.      *)
LifecycleInvariant ==
    /\ ControlConsistent
    /\ StateMatchesStep
    /\ Quiescent => \A p \in Pids : kproc[p] # "alive"
    /\ state_ \in {"REMOVING", "REMOVED"} \/ pc \in {"release", "destroyed"}
          => process_manager_ = NoManager
    /\ state_ \in {"REMOVING", "REMOVED"} \/ pc = "destroyed"
          => ~cgroup_manager_ /\ namespace_managers_ = 0
    /\ state_ = "REMOVED" \/ pc = "destroyed" => removed_ \/ CallbackWaits

(* Container implements ContainerLifecycle: an observer of getState() and of *)
(* the live processes sees only what that specification allows.              *)
Lifecycle == INSTANCE ContainerLifecycle WITH
    Processes <- Pids,
    phase <- state_,
    live <- {p \in Pids : kproc[p] = "alive"}

(* The safety part of the refinement: the phases, and when a process may be  *)
(* launched or live.                                                         *)
ImplementsLifecycle == Lifecycle!Spec

(* ... and with fair threads: while no callback waits for mutex_, starting,  *)
(* stopping and removing all come to an end.                                 *)
TransientPhasesEnd == []~CallbackWaits => Lifecycle!Settled

=============================================================================
