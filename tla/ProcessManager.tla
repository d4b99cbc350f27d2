--------------------------- MODULE ProcessManager ---------------------------
(***************************************************************************)
(* ProcessManager (src/src/namespace/process_manager.cpp): client threads  *)
(* create, query, stop and wait for processes while the monitoring thread  *)
(* updates their entries and sweeps those of processes that have exited.   *)
(*                                                                         *)
(* Every question about a process is a waitpid(WNOHANG), which reaps it,   *)
(* and is asked without processes_mutex_: the answer a thread is about to  *)
(* store (seen) may be stale.  A step ends where the code takes or drops   *)
(* the mutex, asks the kernel, signals or sleeps.                          *)
(***************************************************************************)
EXTENDS Naturals, FiniteSets

CONSTANTS
    Pids,       \* the pids fork() can return, each at most once
    Clients,    \* threads that use the manager
    Monitor,    \* monitoring_thread_
    NoThread, NoPid

ASSUME ProcessManagerAssumption ==
    /\ Monitor \notin Clients
    /\ NoThread \notin Clients \cup {Monitor}
    /\ NoPid \notin Pids

VARIABLES
    managed_processes_,      \* per pid: the entry's status, or "absent"
    exit_code,               \* per pid: the entry's exit code: "zero", or "actual"
    processes_mutex_,        \* its owner
    exit_callback_,          \* "none", "plain", or "asks" when it calls the manager
    should_stop_monitoring_, monitoring_active_,
    pc, cur, seen,           \* per thread: next step, pid, and status determined
    todo,                    \* pids a loop of the monitor or the destructor has left
    kproc,                   \* kernel: what each pid denotes
    calls                    \* per pid: calls of the exit callback, 2 for several

flagVars == <<should_stop_monitoring_, monitoring_active_>>
entryVars == <<managed_processes_, exit_code>>
threadVars == <<pc, cur, seen>>
vars == <<entryVars, processes_mutex_, exit_callback_, flagVars, threadVars, todo,
          kproc, calls>>

Threads == Clients \cup {Monitor}

Managed == {p \in Pids : managed_processes_[p] # "absent"}

Free == processes_mutex_ = NoThread

Goto(t, step) == pc' = [pc EXCEPT ![t] = step]

(* The thread t goes to step; back in its caller, or in the loop of the      *)
(* monitoring thread, it has dropped its local variables.                    *)
Return(t) == IF t = Monitor THEN "next" ELSE "idle"

Continue(t, step) ==
    /\ pc' = [pc EXCEPT ![t] = step]
    /\ cur' = [cur EXCEPT ![t] = IF step = Return(t) THEN NoPid ELSE @]
    /\ seen' = [seen EXCEPT ![t] = IF step = Return(t) THEN "none" ELSE @]

DestroySteps == {"destroyJoin", "destroyNext", "destroyKill", "destroyed"}

(* The manager has not been given to its destructor. *)
Usable == \A t \in Clients : pc[t] \notin DestroySteps

-----------------------------------------------------------------------------
(* The kernel.  The children exit by themselves, or by a signal: SIGTERM     *)
(* they may ignore, SIGKILL ("doomed") they may not.                         *)

Executing(p) == kproc[p] \in {"alive", "doomed"}
Doom(p) == IF kproc[p] = "alive" THEN [kproc EXCEPT ![p] = "doomed"] ELSE kproc

Reap(p) == IF kproc[p] = "zombie" THEN [kproc EXCEPT ![p] = "gone"] ELSE kproc

ProcessExit(p) ==
    /\ Executing(p)
    /\ kproc' = [kproc EXCEPT ![p] = "zombie"]
    /\ UNCHANGED <<entryVars, processes_mutex_, exit_callback_, flagVars, threadVars,
                   todo, calls>>

PidRecycled(p) ==
    /\ kproc[p] = "gone"
    /\ kproc' = [kproc EXCEPT ![p] = "foreign"]
    /\ UNCHANGED <<entryVars, processes_mutex_, exit_callback_, flagVars, threadVars,
                   todo, calls>>

(* The answer of determineProcessStatus(), which also reaps. *)
determineProcessStatus(p) ==
    CASE Executing(p) -> "RUNNING"
      [] kproc[p] = "zombie" -> "ZOMBIE"
      [] OTHER -> "UNKNOWN"

isProcessRunning(p) == determineProcessStatus(p) = "RUNNING"

-----------------------------------------------------------------------------
Init ==
    /\ managed_processes_ = [p \in Pids |-> "absent"]
    /\ exit_code = [p \in Pids |-> "zero"]
    /\ processes_mutex_ = NoThread
    /\ exit_callback_ = "none"
    /\ should_stop_monitoring_ = FALSE /\ monitoring_active_ = FALSE
    /\ pc = [t \in Threads |-> IF t = Monitor THEN "none" ELSE "idle"]
    /\ cur = [t \in Threads |-> NoPid]
    /\ seen = [t \in Threads |-> "none"]
    /\ todo = {}
    /\ kproc = [p \in Pids |-> "none"]
    /\ calls = [p \in Pids |-> 0]

(* A client calls an operation on p whose first step is step. *)
Call(t, p, step) ==
    /\ Usable /\ pc[t] = "idle"
    /\ Goto(t, step)
    /\ cur' = [cur EXCEPT ![t] = p]

(* The member is not protected, so it is set before anything runs. *)
setProcessExitCallback(callback) ==
    /\ exit_callback_ = "none"
    /\ \A t \in Clients : pc[t] = "idle"
    /\ pc[Monitor] = "none" /\ \A p \in Pids : kproc[p] = "none"
    /\ exit_callback_' = callback
    /\ UNCHANGED <<entryVars, processes_mutex_, flagVars, threadVars, todo, kproc, calls>>

-----------------------------------------------------------------------------
(* createProcess(): the child runs, and may have exited, before its entry is *)
(* stored.                                                                   *)

Fork(t, p) ==
    /\ kproc[p] = "none"
    /\ kproc' = [kproc EXCEPT ![p] = "alive"]
    /\ Call(t, p, "insert")
    /\ UNCHANGED <<entryVars, processes_mutex_, exit_callback_, flagVars, seen, todo, calls>>

Insert(t) ==
    /\ pc[t] = "insert" /\ Free
    /\ managed_processes_' = [managed_processes_ EXCEPT ![cur[t]] = "RUNNING"]
    /\ exit_code' = [exit_code EXCEPT ![cur[t]] = "zero"]
    /\ Continue(t, "idle")
    /\ UNCHANGED <<processes_mutex_, exit_callback_, flagVars, todo, kproc, calls>>

(* The child has reported an error through the pipe within 10 ms. *)
CreateFailed(t) ==
    /\ pc[t] = "insert" /\ kproc[cur[t]] = "zombie"
    /\ kproc' = [kproc EXCEPT ![cur[t]] = "gone"]
    /\ Continue(t, "idle")
    /\ UNCHANGED <<entryVars, processes_mutex_, exit_callback_, flagVars, todo, calls>>

-----------------------------------------------------------------------------
(* updateProcessStatus(), by a client or the monitoring thread *)

monitorProcess(t, p) ==
    /\ Call(t, p, "probe")
    /\ UNCHANGED <<entryVars, processes_mutex_, exit_callback_, flagVars, seen, todo,
                   kproc, calls>>

Probe(t) ==
    /\ pc[t] = "probe"
    /\ seen' = [seen EXCEPT ![t] = determineProcessStatus(cur[t])]
    /\ kproc' = Reap(cur[t])
    /\ Goto(t, "update")
    /\ UNCHANGED <<entryVars, processes_mutex_, exit_callback_, flagVars, cur, todo, calls>>

(* Faulty variant: only a process found as a zombie has exited. *)
UpdateZombies(t) ==
    LET p == cur[t]
        exited == managed_processes_[p] = "RUNNING" /\ seen[t] = "ZOMBIE"
    IN  /\ pc[t] = "update" /\ Free
        /\ managed_processes_' = IF p \in Managed
              THEN [managed_processes_ EXCEPT ![p] = seen[t]] ELSE managed_processes_
        /\ IF exited
           THEN /\ exit_code' = IF kproc[p] = "zombie" THEN [exit_code EXCEPT ![p] = "actual"]
                                                       ELSE exit_code
                /\ kproc' = Reap(p)
                /\ Continue(t, "callback") /\ processes_mutex_' = t
           ELSE Continue(t, Return(t)) /\ UNCHANGED <<exit_code, kproc, processes_mutex_>>
        /\ UNCHANGED <<exit_callback_, flagVars, todo, calls>>

(* Faulty variant: a status that is not known leaves the entry alone. *)
UpdateKnown(t) ==
    LET p == cur[t]
        exited == managed_processes_[p] = "RUNNING" /\ seen[t] = "ZOMBIE"
    IN  /\ pc[t] = "update" /\ Free
        /\ managed_processes_' = IF p \in Managed /\ seen[t] # "UNKNOWN"
              THEN [managed_processes_ EXCEPT ![p] = seen[t]] ELSE managed_processes_
        /\ IF exited
           THEN /\ exit_code' = IF kproc[p] = "zombie" THEN [exit_code EXCEPT ![p] = "actual"]
                                                       ELSE exit_code
                /\ kproc' = Reap(p)
                /\ Continue(t, "callback") /\ processes_mutex_' = t
           ELSE Continue(t, Return(t)) /\ UNCHANGED <<exit_code, kproc, processes_mutex_>>
        /\ UNCHANGED <<exit_callback_, flagVars, todo, calls>>

(* The entry is stored before the exit code is asked for: by then the       *)
(* process has been reaped, so that waitpid fails and the code stays.       *)
Update(t) ==
    LET p == cur[t]
        exited == managed_processes_[p] = "RUNNING" /\ seen[t] # "RUNNING"
    IN  /\ pc[t] = "update" /\ Free
        /\ managed_processes_' = IF p \in Managed
              THEN [managed_processes_ EXCEPT ![p] = seen[t]] ELSE managed_processes_
        /\ IF exited
           THEN /\ exit_code' = IF kproc[p] = "zombie" THEN [exit_code EXCEPT ![p] = "actual"]
                                                       ELSE exit_code
                /\ kproc' = Reap(p)
                /\ Continue(t, "callback") /\ processes_mutex_' = t
           ELSE Continue(t, Return(t)) /\ UNCHANGED <<exit_code, kproc, processes_mutex_>>
        /\ UNCHANGED <<exit_callback_, flagVars, todo, calls>>

(* Faulty variant: the mutex is released only when there is a callback. *)
CallbackKeepsLock(t) ==
    /\ pc[t] = "callback" /\ exit_callback_ # "asks"
    /\ calls' = IF exit_callback_ = "none" \/ calls[cur[t]] = 2 THEN calls
                ELSE [calls EXCEPT ![cur[t]] = @ + 1]
    /\ processes_mutex_' = IF exit_callback_ = "none" THEN processes_mutex_ ELSE NoThread
    /\ Continue(t, Return(t))
    /\ UNCHANGED <<entryVars, exit_callback_, flagVars, todo, kproc>>

(* exit_callback_(it->second) returns and the lock guard goes. *)
Callback(t) ==
    /\ pc[t] = "callback" /\ exit_callback_ # "asks"
    /\ calls' = IF exit_callback_ = "none" \/ calls[cur[t]] = 2 THEN calls
                ELSE [calls EXCEPT ![cur[t]] = @ + 1]
    /\ processes_mutex_' = NoThread
    /\ Continue(t, Return(t))
    /\ UNCHANGED <<entryVars, exit_callback_, flagVars, todo, kproc>>

(* A callback that calls the manager locks processes_mutex_ again: for ever. *)
CallbackAsks(t) ==
    /\ pc[t] = "callback" /\ exit_callback_ = "asks"
    /\ Continue(t, "asks")
    /\ UNCHANGED <<entryVars, processes_mutex_, exit_callback_, flagVars, todo,
                   kproc, calls>>

-----------------------------------------------------------------------------
(* stopProcess(), killProcess(), waitForProcess() and the queries *)

stopProcess(t, p) ==
    /\ Free /\ p \in Managed
    /\ Call(t, p, "stopTest")
    /\ UNCHANGED <<entryVars, processes_mutex_, exit_callback_, flagVars, seen, todo,
                   kproc, calls>>

(* A process that no longer runs is reaped here; its entry stays RUNNING. *)
StopTest(t) ==
    /\ pc[t] = "stopTest"
    /\ Continue(t, IF isProcessRunning(cur[t]) THEN "stopTerm" ELSE "idle")
    /\ kproc' = Reap(cur[t])
    /\ UNCHANGED <<entryVars, processes_mutex_, exit_callback_, flagVars, todo, calls>>

(* kill(pid, SIGTERM) throws when another thread has reaped the process. *)
StopTerm(t) ==
    /\ pc[t] = "stopTerm"
    /\ Continue(t, IF kproc[cur[t]] = "gone" THEN "idle" ELSE "stopPoll")
    /\ UNCHANGED <<entryVars, processes_mutex_, exit_callback_, flagVars, todo,
                   kproc, calls>>

(* The loop ends when the process does not run, or at the timeout. *)
StopPoll(t) ==
    /\ pc[t] = "stopPoll"
    /\ Continue(t, IF isProcessRunning(cur[t]) THEN "killCheck" ELSE "probe")
    /\ kproc' = Reap(cur[t])
    /\ UNCHANGED <<entryVars, processes_mutex_, exit_callback_, flagVars, todo, calls>>

(* killProcess(pid, SIGKILL) by stopProcess: the entry may have been swept. *)
KillCheck(t) ==
    /\ pc[t] = "killCheck" /\ Free
    /\ Continue(t, IF cur[t] \in Managed THEN "kill" ELSE "idle")
    /\ UNCHANGED <<entryVars, processes_mutex_, exit_callback_, flagVars, todo,
                   kproc, calls>>

killProcess(t, p) ==
    /\ Free /\ p \in Managed
    /\ \E step \in {"kill", "term"} : Call(t, p, step)
    /\ UNCHANGED <<entryVars, processes_mutex_, exit_callback_, flagVars, seen, todo,
                   kproc, calls>>

(* Faulty variant: the signal of stopProcess() is SIGTERM once more. *)
KillSendTerm(t) ==
    /\ pc[t] \in {"kill", "term"}
    /\ Continue(t, IF kproc[cur[t]] = "gone" THEN "idle" ELSE "probe")
    /\ UNCHANGED <<entryVars, processes_mutex_, exit_callback_, flagVars, todo,
                   kproc, calls>>

KillSend(t) ==
    /\ pc[t] \in {"kill", "term"}
    /\ Continue(t, IF kproc[cur[t]] = "gone" THEN "idle" ELSE "probe")
    /\ kproc' = IF pc[t] = "kill" THEN Doom(cur[t]) ELSE kproc
    /\ UNCHANGED <<entryVars, processes_mutex_, exit_callback_, flagVars, todo, calls>>

waitForProcess(t, p) ==
    /\ Call(t, p, "waitPoll")
    /\ UNCHANGED <<entryVars, processes_mutex_, exit_callback_, flagVars, seen, todo,
                   kproc, calls>>

(* With a timeout the call may also return false while the process runs. *)
WaitPoll(t) ==
    /\ pc[t] = "waitPoll"
    /\ Continue(t, IF isProcessRunning(cur[t]) THEN "idle" ELSE "probe")
    /\ kproc' = Reap(cur[t])
    /\ UNCHANGED <<entryVars, processes_mutex_, exit_callback_, flagVars, todo, calls>>

(* getProcessInfo() looks at the entry under the mutex ... *)
getProcessInfo(t, p) ==
    /\ Usable /\ pc[t] = "idle" /\ Free /\ p \in Managed
    /\ kproc' = Reap(p)
    /\ UNCHANGED <<entryVars, processes_mutex_, exit_callback_, flagVars, threadVars, todo, calls>>

(* ... getProcessStatus() and isProcessRunning() ask the kernel only. *)
getProcessStatus(t, p) ==
    /\ Usable /\ pc[t] = "idle"
    /\ kproc' = Reap(p)
    /\ UNCHANGED <<entryVars, processes_mutex_, exit_callback_, flagVars, threadVars, todo, calls>>

-----------------------------------------------------------------------------
(* The monitoring thread.  One client at a time starts and stops it.        *)

SoleController == Usable /\ \A t \in Clients : pc[t] # "join"

startMonitoring(t) ==
    /\ SoleController /\ pc[t] = "idle" /\ ~monitoring_active_
    /\ should_stop_monitoring_' = FALSE
    /\ monitoring_active_' = TRUE
    /\ Goto(Monitor, "loop")
    /\ UNCHANGED <<entryVars, processes_mutex_, exit_callback_, cur, seen, todo, kproc, calls>>

stopMonitoring(t) ==
    /\ SoleController /\ pc[t] = "idle" /\ monitoring_active_
    /\ should_stop_monitoring_' = TRUE
    /\ Goto(t, "join")
    /\ UNCHANGED <<entryVars, processes_mutex_, exit_callback_, monitoring_active_, cur, seen,
                   todo, kproc, calls>>

(* join() returns; also for the destructor, which then kills. *)
Join(t) ==
    /\ pc[t] \in {"join", "destroyJoin"} /\ pc[Monitor] = "done"
    /\ monitoring_active_' = FALSE
    /\ pc' = [pc EXCEPT ![Monitor] = "none",
                        ![t] = IF pc[t] = "join" THEN "idle" ELSE "destroyNext"]
    /\ todo' = IF pc[t] = "join" THEN todo ELSE Managed
    /\ processes_mutex_' = IF pc[t] = "join" THEN processes_mutex_ ELSE t
    /\ pc[t] = "destroyJoin" => Free
    /\ UNCHANGED <<entryVars, exit_callback_, should_stop_monitoring_, cur, seen, kproc, calls>>

(* The loop test, and the copy of the pids. *)
Snapshot ==
    /\ pc[Monitor] = "loop"
    /\ IF should_stop_monitoring_
       THEN Goto(Monitor, "done") /\ UNCHANGED todo
       ELSE Free /\ Goto(Monitor, "next") /\ todo' = Managed
    /\ UNCHANGED <<entryVars, processes_mutex_, exit_callback_, flagVars, cur, seen, kproc, calls>>

NextPid ==
    /\ pc[Monitor] = "next"
    /\ IF todo = {}
       THEN Goto(Monitor, "sweep") /\ UNCHANGED <<cur, todo>>
       ELSE \E p \in todo :
              /\ Goto(Monitor, "probe")
              /\ cur' = [cur EXCEPT ![Monitor] = p]
              /\ todo' = todo \ {p}
    /\ UNCHANGED <<entryVars, processes_mutex_, exit_callback_, flagVars, seen, kproc, calls>>

Sweep ==
    /\ pc[Monitor] = "sweep" /\ Free
    /\ managed_processes_' = [p \in Pids |->
          IF managed_processes_[p] \in {"STOPPED", "ZOMBIE"} THEN "absent"
                                                            ELSE managed_processes_[p]]
    /\ Goto(Monitor, "loop")
    /\ UNCHANGED <<exit_code, processes_mutex_, exit_callback_, flagVars, cur, seen, todo,
                   kproc, calls>>

-----------------------------------------------------------------------------
(* ~ProcessManager(): no other thread is inside the manager. *)

Destroy(t) ==
    /\ \A u \in Clients : pc[u] = "idle"
    /\ IF monitoring_active_
       THEN should_stop_monitoring_' = TRUE /\ Goto(t, "destroyJoin")
            /\ UNCHANGED <<todo, processes_mutex_>>
       ELSE /\ Free
            /\ processes_mutex_' = t /\ todo' = Managed /\ Goto(t, "destroyNext")
            /\ UNCHANGED should_stop_monitoring_
    /\ UNCHANGED <<entryVars, exit_callback_, monitoring_active_, cur, seen, kproc, calls>>

(* The next entry: SIGTERM if its process runs; the map is cleared at last. *)
DestroyNext(t) ==
    /\ pc[t] = "destroyNext"
    /\ \/ \E p \in todo :
             /\ todo' = todo \ {p}
             /\ cur' = [cur EXCEPT ![t] = p]
             /\ kproc' = Reap(p)
             /\ Goto(t, IF isProcessRunning(p) THEN "destroyKill" ELSE "destroyNext")
             /\ UNCHANGED <<managed_processes_, processes_mutex_>>
       \/ /\ todo = {}
          /\ managed_processes_' = [p \in Pids |-> "absent"]
          /\ processes_mutex_' = NoThread
          /\ Goto(t, "destroyed")
          /\ UNCHANGED <<todo, cur, kproc>>
    /\ UNCHANGED <<exit_code, exit_callback_, flagVars, seen, calls>>

(* Faulty variant: SIGTERM only. *)
DestroyKillNot(t) ==
    /\ pc[t] = "destroyKill"
    /\ kproc' = Reap(cur[t])
    /\ Goto(t, "destroyNext")
    /\ UNCHANGED <<entryVars, processes_mutex_, exit_callback_, flagVars, cur, seen, todo, calls>>

(* After PROCESS_CLEANUP_TIMEOUT: SIGKILL, and no waitpid after it. *)
DestroyKill(t) ==
    /\ pc[t] = "destroyKill"
    /\ kproc' = IF isProcessRunning(cur[t]) THEN Doom(cur[t]) ELSE Reap(cur[t])
    /\ Goto(t, "destroyNext")
    /\ UNCHANGED <<entryVars, processes_mutex_, exit_callback_, flagVars, cur, seen, todo, calls>>

-----------------------------------------------------------------------------
(* createProcess() has returned p, so that clients may pass it. *)
Returned(p) ==
    kproc[p] # "none" /\ \A t \in Clients : ~(pc[t] = "insert" /\ cur[t] = p)

UpdateStep(t) == Probe(t) \/ Update(t) \/ Callback(t) \/ CallbackAsks(t)

ClientStep(t) ==
    \/ Insert(t) \/ CreateFailed(t)
    \/ StopTest(t) \/ StopTerm(t) \/ StopPoll(t) \/ KillCheck(t) \/ KillSend(t)
    \/ WaitPoll(t) \/ UpdateStep(t)
    \/ Join(t) \/ DestroyNext(t) \/ DestroyKill(t)

ClientCall(t) ==
    \/ \E p \in Pids :
          \/ Fork(t, p)
          \/ /\ Returned(p)
             /\ \/ monitorProcess(t, p) \/ stopProcess(t, p) \/ killProcess(t, p)
                \/ waitForProcess(t, p) \/ getProcessInfo(t, p) \/ getProcessStatus(t, p)
    \/ startMonitoring(t) \/ stopMonitoring(t) \/ Destroy(t)

MonitorStep == Snapshot \/ NextPid \/ UpdateStep(Monitor) \/ Sweep

Kernel == \E p \in Pids : ProcessExit(p) \/ PidRecycled(p)

Next ==
    \/ \E t \in Clients : ClientCall(t) \/ ClientStep(t)
    \/ MonitorStep
    \/ \E callback \in {"plain", "asks"} : setProcessExitCallback(callback)
    \/ Kernel

Spec == Init /\ [][Next]_vars

(* Threads keep running, and one that waits for processes_mutex_ gets it if *)
(* it is free again and again.  Only waitForProcess(pid, 0) may wait for    *)
(* ever for a process that runs.                                            *)
MustStep(t) == ClientStep(t) /\ ~(pc[t] = "waitPoll" /\ Executing(cur[t]))

FairSpec ==
    /\ Spec
    /\ SF_vars(MonitorStep)
    /\ \A t \in Clients : SF_vars(MustStep(t))

-----------------------------------------------------------------------------
Statuses == {"RUNNING", "ZOMBIE", "UNKNOWN"}
ClientSteps == {"idle", "insert", "probe", "update", "callback", "asks", "stopTest",
                "stopTerm", "stopPoll", "killCheck", "kill", "term", "waitPoll", "join"}
                \cup DestroySteps
StopSteps == {"stopTest", "stopTerm", "stopPoll", "killCheck", "kill"}
MonitorSteps == {"none", "loop", "next", "probe", "update", "callback", "asks", "sweep",
                 "done"}

(* Every variable has its type.                                              *)
TypeOK ==
    /\ managed_processes_ \in [Pids -> Statuses \cup {"absent"}]
    /\ exit_code \in [Pids -> {"zero", "actual"}]
    /\ processes_mutex_ \in Threads \cup {NoThread}
    /\ exit_callback_ \in {"none", "plain", "asks"}
    /\ should_stop_monitoring_ \in BOOLEAN /\ monitoring_active_ \in BOOLEAN
    /\ pc \in [Threads -> ClientSteps \cup MonitorSteps]
    /\ cur \in [Threads -> Pids \cup {NoPid}]
    /\ seen \in [Threads -> Statuses \cup {"none"}]
    /\ todo \subseteq Pids
    /\ kproc \in [Pids -> {"none", "alive", "doomed", "zombie", "gone", "foreign"}]
    /\ calls \in [Pids -> 0..2]

(* No child is lost: a process that runs and has not been sent SIGKILL has   *)
(* an entry, or its createProcess() is about to store one.  Stale answers    *)
(* and the monitor's sweep never drop it, so the destructor finds it.        *)
NoLostProcess ==
    \A p \in Pids : kproc[p] = "alive" =>
        p \in Managed \/ \E t \in Clients : pc[t] = "insert" /\ cur[t] = p

(* No exit is invented and none is silent: an entry says that its process    *)
(* has exited, and the exit callback is called, only for a process that has  *)
(* exited and been reaped; and then the callback has been called, or a       *)
(* thread is about to call it.  The sweep cannot come in between, because    *)
(* the mutex is held until the callback returns.                             *)
ExitReported ==
    /\ \A p \in Pids : managed_processes_[p] \in {"ZOMBIE", "UNKNOWN"} =>
          /\ kproc[p] \in {"gone", "foreign"}
          /\ exit_callback_ = "plain" =>
                calls[p] > 0 \/ \E t \in Threads : pc[t] = "callback" /\ cur[t] = p
    /\ \A t \in Threads : pc[t] \in {"callback", "asks"} => kproc[cur[t]] \in {"gone", "foreign"}

(* The exit code in an entry is always the 0 that createProcess() stored:    *)
(* the waitpid of updateProcessStatus() comes after determineProcessStatus() *)
(* has reaped the process, in whatever thread.                               *)
ExitCodeNeverRead == \A p \in Pids : exit_code[p] = "zero"

(* The sweep leaves no zombie behind: whoever erases an entry, or clears the *)
(* map, the process has been reaped, or was sent SIGKILL by the destructor.  *)
SweptIsReaped ==
    [][\A p \in Pids : p \in Managed /\ p \notin Managed' =>
          \/ kproc[p] \in {"gone", "foreign"}
          \/ \E t \in Clients : pc'[t] = "destroyed"]_vars

(* However stopProcess() ends, also when it throws because another thread    *)
(* has reaped the process or swept its entry, the process has exited or has  *)
(* been sent SIGKILL.                                                        *)
StopEnds ==
    [][\A t \in Clients : pc[t] \in StopSteps /\ pc'[t] \notin StopSteps =>
          kproc'[cur[t]] # "alive"]_vars

(* Some thread waits for the processes_mutex_ it holds, in the callback.     *)
SelfWait == \E t \in Threads : pc[t] = "asks"

(* Every call returns, whatever the process and the monitoring thread do:    *)
(* unless a callback has called the manager, or the caller chose to wait     *)
(* without timeout for a process that runs.                                  *)
CallsReturn ==
    \A t \in Clients : pc[t] # "idle" ~>
        \/ pc[t] \in {"idle", "destroyed"}
        \/ SelfWait
        \/ pc[t] = "waitPoll" /\ Executing(cur[t])

(* While the monitoring thread runs, an exit is noticed: the entry does not  *)
(* stay RUNNING for ever, also when a query has reaped the process.          *)
ExitNoticed ==
    \A p \in Pids :
        managed_processes_[p] = "RUNNING" /\ ~Executing(p) ~>
            \/ managed_processes_[p] # "RUNNING"
            \/ ~monitoring_active_ \/ should_stop_monitoring_ \/ SelfWait

=============================================================================
