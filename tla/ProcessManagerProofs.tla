------------------------- MODULE ProcessManagerProofs -------------------------
(***************************************************************************)
(* Proofs about ProcessManager for every set of pids and client threads.   *)
(* The safety properties hold together or not at all: the sweep loses no   *)
(* process because entries are marked only for processes that have been    *)
(* reaped, and that rests on stale answers staying true.                   *)
(***************************************************************************)
EXTENDS ProcessManager, TLAPS

(* Steps at which a thread is busy with the process cur. *)
BusySteps == {"insert", "probe", "update", "callback", "asks", "stopTest", "stopTerm", "stopPoll",
              "killCheck", "kill", "term", "waitPoll", "destroyKill"}

Positions ==
    /\ \A t \in Clients : pc[t] \in ClientSteps
    /\ pc[Monitor] \in MonitorSteps
    /\ \A t \in Threads : pc[t] \in BusySteps => cur[t] \in Pids
    /\ \A t \in Threads : pc[t] = "update" => seen[t] \in Statuses

(* Whatever the manager and its threads know of has been forked. *)
Known ==
    /\ \A t \in Threads : cur[t] # NoPid => kproc[cur[t]] # "none"
    /\ \A p \in Managed \cup todo : kproc[p] # "none"

(* A process whose entry is still to be stored is nobody else's business. *)
Inserting ==
    \A t \in Clients : pc[t] = "insert" =>
        /\ cur[t] \notin Managed \cup todo
        /\ \A u \in Threads \ {t} : cur[u] # cur[t]

(* Who holds processes_mutex_, when there is a monitoring thread, and that   *)
(* the destructor is alone.                                                  *)
Locks ==
    /\ \A t \in Threads : pc[t] \in {"callback", "asks", "destroyNext", "destroyKill"} =>
          processes_mutex_ = t
    /\ monitoring_active_ <=> pc[Monitor] # "none"
    /\ \A t \in Clients : pc[t] \in DestroySteps => \A u \in Clients \ {t} : pc[u] = "idle"
    /\ \A t \in Clients : pc[t] \in DestroySteps \ {"destroyJoin"} => pc[Monitor] = "none"

(* An answer that the process does not run stays true until it is stored. *)
Seen ==
    \A t \in Threads : pc[t] = "update" /\ seen[t] # "RUNNING" => kproc[cur[t]] \in {"gone", "foreign"}

(* What the destructor has dealt with is not alive. *)
Dying ==
    \A t \in Clients : pc[t] \in {"destroyNext", "destroyKill"} =>
        \A p \in Pids : kproc[p] = "alive" => p \in todo \/ (pc[t] = "destroyKill" /\ cur[t] = p)

Safe == NoLostProcess /\ ExitReported /\ ExitCodeNeverRead

IInv == TypeOK /\ Positions /\ Known /\ Inserting /\ Locks /\ Seen /\ Dying /\ Safe

LEMMA InitIInv == Init => IInv
<1> SUFFICES ASSUME Init PROVE IInv
  OBVIOUS
<1> USE ProcessManagerAssumption DEF Init, Threads
<1>a. pc \in [Threads -> ClientSteps \cup MonitorSteps]
  BY DEF ClientSteps, MonitorSteps
<1>b. should_stop_monitoring_ \in BOOLEAN /\ monitoring_active_ \in BOOLEAN
  BY Zenon
<1>1. TypeOK
  BY <1>a, <1>b DEF TypeOK, Statuses
<1>2. Positions
  BY DEF Positions, ClientSteps, MonitorSteps, BusySteps, DestroySteps
<1>3. Locks
  BY DEF Locks, DestroySteps
<1>4. Known /\ Inserting /\ Seen /\ Dying
  BY DEF Known, Inserting, Seen, Dying, Managed
<1>5. Safe
  BY DEF Safe, NoLostProcess, ExitReported, ExitCodeNeverRead
<1> QED BY <1>1, <1>2, <1>3, <1>4, <1>5 DEF IInv

(* How the kernel's processes go on, but for fork(). *)
KernelStates == {"none", "alive", "doomed", "zombie", "gone", "foreign"}
Evolves ==
    /\ kproc' \in [Pids -> KernelStates]
    /\ \A p \in Pids : /\ kproc'[p] = "none" <=> kproc[p] = "none"
                       /\ kproc'[p] = "alive" => kproc[p] = "alive"
                       /\ kproc[p] \in {"gone", "foreign"} => kproc'[p] \in {"gone", "foreign"}

LEMMA KernelEvolves ==
    ASSUME TypeOK
    PROVE  /\ UNCHANGED kproc => Evolves
           /\ \A p \in Pids : kproc' = Reap(p) \/ kproc' = Doom(p) => Evolves
           /\ \A p \in Pids : ProcessExit(p) \/ PidRecycled(p) => Evolves
           /\ \A p \in Pids : kproc[p] = "zombie" /\ kproc' = [kproc EXCEPT ![p] = "gone"] => Evolves
BY DEF TypeOK, Evolves, KernelStates, Reap, Doom, ProcessExit, PidRecycled, Executing

(* A step of the kernel only, or of a query. *)
LEMMA KernelIInv ==
    ASSUME IInv, Evolves,
           UNCHANGED <<entryVars, processes_mutex_, exit_callback_, flagVars, threadVars, todo, calls>>
    PROVE  IInv'
<1> USE DEF entryVars, flagVars, threadVars
<1>1. TypeOK' /\ Positions'
  BY DEF IInv, TypeOK, Positions, Evolves, KernelStates
<1>2. Known' /\ Inserting'
  BY DEF IInv, TypeOK, Known, Inserting, Evolves, Managed
<1>3. Locks'
  BY DEF IInv, Locks
<1>4. Seen' /\ Dying'
  BY DEF IInv, TypeOK, Positions, BusySteps, Seen, Dying, Evolves
<1>5. Safe'
  BY DEF IInv, TypeOK, Positions, BusySteps, Safe, NoLostProcess, ExitReported, ExitCodeNeverRead,
         Evolves, Managed
<1> QED BY <1>1, <1>2, <1>3, <1>4, <1>5 DEF IInv

(* A client calls an operation on a process that createProcess() returned. *)
LEMMA CallIInv ==
    ASSUME IInv, NEW t \in Clients, NEW p \in Pids, Returned(p),
           NEW step \in {"probe", "stopTest", "kill", "term", "waitPoll"}, Call(t, p, step),
           UNCHANGED <<entryVars, processes_mutex_, exit_callback_, flagVars, seen, todo, kproc, calls>>
    PROVE  IInv'
<1> USE ProcessManagerAssumption DEF entryVars, flagVars, Call, Goto, Threads
<1>1. TypeOK' /\ Positions'
  BY DEF IInv, TypeOK, Positions, ClientSteps, MonitorSteps, BusySteps
<1>2. Known' /\ Inserting'
  BY DEF IInv, TypeOK, Known, Inserting, Managed, Returned
<1>3. Locks'
  BY DEF IInv, TypeOK, Locks, DestroySteps, Usable
<1>4. Seen' /\ Dying'
  BY DEF IInv, TypeOK, Seen, Dying, Usable, DestroySteps
<1>5. Safe'
  BY DEF IInv, TypeOK, Safe, NoLostProcess, ExitReported, ExitCodeNeverRead, Managed
<1> QED BY <1>1, <1>2, <1>3, <1>4, <1>5 DEF IInv

(* A thread goes on with the same process, or returns; at most the kernel's  *)
(* processes change with it.                                                 *)
LEMMA ContinueIInv ==
    ASSUME IInv, Evolves, NEW t \in Clients,
           pc[t] \in BusySteps \ {"update", "callback", "destroyKill"},
           pc[t] = "insert" => kproc[cur[t]] # "alive",
           NEW step \in {"idle", "stopTerm", "stopPoll", "killCheck", "kill", "probe"},
           Continue(t, step),
           UNCHANGED <<entryVars, processes_mutex_, exit_callback_, flagVars, todo, calls>>
    PROVE  IInv'
<1> USE ProcessManagerAssumption DEF entryVars, flagVars, Continue, Return, Threads
<1>1. TypeOK'
  BY DEF IInv, TypeOK, ClientSteps, Evolves, KernelStates
<1>2. Positions'
  BY DEF IInv, TypeOK, Positions, ClientSteps, MonitorSteps, BusySteps
<1>3. Known' /\ Inserting'
  <2>1. Known'
    BY DEF IInv, TypeOK, Known, Managed, Evolves
  <2>2. Managed' = Managed
    BY DEF Managed
  <2>3. Inserting'
    BY <2>2 DEF IInv, TypeOK, Positions, BusySteps, Inserting
  <2> QED BY <2>1, <2>3
<1>4. Locks'
  BY DEF IInv, TypeOK, Locks, DestroySteps, BusySteps
<1>5. Seen'
  BY Zenon DEF IInv, TypeOK, Positions, BusySteps, Seen, Evolves
<1>6. Dying'
  BY DEF IInv, TypeOK, Dying, Evolves, BusySteps
<1>7. Safe'
  <2>1. NoLostProcess'
    BY DEF IInv, TypeOK, Safe, NoLostProcess, Managed, Evolves, BusySteps
  <2>2. ExitReported'
    BY DEF IInv, TypeOK, Positions, Safe, ExitReported, Evolves, BusySteps
  <2> QED BY <2>1, <2>2 DEF IInv, Safe, ExitCodeNeverRead
<1> QED BY <1>1, <1>2, <1>3, <1>4, <1>5, <1>6, <1>7, Zenon DEF IInv

(* createProcess() forks: the pid is new to everyone. *)
LEMMA ForkIInv ==
    ASSUME IInv, NEW t \in Clients, NEW p \in Pids, Fork(t, p)
    PROVE  IInv'
<1> USE ProcessManagerAssumption DEF entryVars, flagVars, Fork, Call, Goto, Threads
<1>1. TypeOK' /\ Positions'
  BY DEF IInv, TypeOK, Positions, ClientSteps, MonitorSteps, BusySteps
<1>2. Known' /\ Inserting'
  BY DEF IInv, TypeOK, Known, Inserting, Managed
<1>3. Locks'
  BY DEF IInv, TypeOK, Locks, DestroySteps, Usable
<1>4. Seen' /\ Dying'
  BY DEF IInv, TypeOK, Positions, BusySteps, Seen, Dying, Usable, DestroySteps
<1>5. Safe'
  BY DEF IInv, TypeOK, Positions, BusySteps, Safe, NoLostProcess, ExitReported, ExitCodeNeverRead,
         Managed
<1> QED BY <1>1, <1>2, <1>3, <1>4, <1>5, Zenon DEF IInv

(* createProcess() stores the entry. *)
LEMMA InsertIInv ==
    ASSUME IInv, NEW t \in Clients, Insert(t)
    PROVE  IInv'
<1> USE ProcessManagerAssumption DEF entryVars, flagVars, Insert, Continue, Return, Threads
<1>0. cur[t] \in Pids
  BY DEF IInv, Positions, BusySteps
<1>1. TypeOK'
  BY <1>0, Zenon DEF IInv, TypeOK, ClientSteps, Statuses
<1>2. Positions'
  BY DEF IInv, TypeOK, Positions, ClientSteps, MonitorSteps, BusySteps
<1>3. Known' /\ Inserting'
  <2>1. Managed' = Managed \cup {cur[t]}
    BY <1>0 DEF IInv, TypeOK, Managed
  <2>2. Known'
    BY <1>0, <2>1 DEF IInv, TypeOK, Known
  <2>3. Inserting'
    BY <2>1 DEF IInv, TypeOK, Positions, BusySteps, Inserting
  <2> QED BY <2>2, <2>3
<1>4. Locks'
  BY Zenon DEF IInv, TypeOK, Locks, DestroySteps
<1>5. Seen' /\ Dying'
  BY DEF IInv, TypeOK, Seen, Dying
<1>6. Safe'
  BY <1>0 DEF IInv, TypeOK, Safe, NoLostProcess, ExitReported, ExitCodeNeverRead, Managed
<1> QED BY <1>1, <1>2, <1>3, <1>4, <1>5, <1>6 DEF IInv

(* updateProcessStatus() asks the kernel: the answer "not running" is final. *)
LEMMA ProbeIInv ==
    ASSUME IInv, NEW t \in Threads, Probe(t)
    PROVE  IInv'
<1> USE ProcessManagerAssumption DEF entryVars, flagVars, Probe, Goto
<1>0. cur[t] \in Pids /\ kproc[cur[t]] # "none" /\ t \in Clients \cup {Monitor}
  BY DEF IInv, Positions, BusySteps, Known, Threads
<1>1. Evolves
  BY <1>0, KernelEvolves DEF IInv
<1>2. determineProcessStatus(cur[t]) \in Statuses
  BY Zenon DEF determineProcessStatus, Statuses
<1>3. TypeOK'
  BY <1>1, <1>2, Zenon DEF IInv, TypeOK, ClientSteps, Evolves, KernelStates
<1>4. Positions'
  BY <1>0, <1>2, Zenon DEF IInv, TypeOK, Positions, ClientSteps, MonitorSteps, BusySteps, Threads
<1>5. Known' /\ Inserting'
  BY <1>1 DEF IInv, TypeOK, Known, Inserting, Managed, Evolves, Threads
<1>6. Locks'
  BY <1>0 DEF IInv, TypeOK, Locks, DestroySteps, Threads
<1>7. Seen'
  <2>1. determineProcessStatus(cur[t]) # "RUNNING" => kproc'[cur[t]] \in {"gone", "foreign"}
    BY <1>0 DEF IInv, TypeOK, determineProcessStatus, Executing, Reap
  <2>2. SUFFICES ASSUME NEW u \in Threads, pc'[u] = "update", seen'[u] # "RUNNING"
                 PROVE  kproc'[cur[u]] \in {"gone", "foreign"}
    BY DEF Seen
  <2>3. CASE u = t
    BY <2>1, <2>2, <2>3, Zenon DEF IInv, TypeOK
  <2>4. CASE u # t
    BY <1>1, <2>2, <2>4 DEF IInv, TypeOK, Positions, BusySteps, Seen, Evolves
  <2> QED BY <2>3, <2>4
<1>8. Dying'
  BY <1>0, <1>1 DEF IInv, TypeOK, Dying, Evolves, Threads
<1>9. Safe'
  <2>1. NoLostProcess'
    BY <1>1 DEF IInv, TypeOK, Safe, NoLostProcess, Managed, Evolves, Threads
  <2>2. ExitReported'
    BY <1>1 DEF IInv, TypeOK, Positions, BusySteps, Safe, ExitReported, Evolves
  <2> QED BY <2>1, <2>2, Zenon DEF IInv, Safe, ExitCodeNeverRead
<1> QED BY <1>3, <1>4, <1>5, <1>6, <1>7, <1>8, <1>9, Zenon DEF IInv

(* updateProcessStatus() stores the answer, and finds whether it is news. *)
LEMMA UpdateIInv ==
    ASSUME IInv, NEW t \in Threads, Update(t)
    PROVE  IInv'
<1> DEFINE p == cur[t]
           exited == managed_processes_[p] = "RUNNING" /\ seen[t] # "RUNNING"
           step == IF exited THEN "callback" ELSE Return(t)
<1> USE ProcessManagerAssumption DEF entryVars, flagVars
<1>0. /\ p \in Pids /\ t \in Clients \cup {Monitor} /\ seen[t] \in Statuses
      /\ pc[t] = "update" /\ Free
      /\ seen[t] # "RUNNING" => kproc[p] \in {"gone", "foreign"}
      /\ NoThread \notin Threads
  BY Zenon DEF IInv, Positions, BusySteps, Seen, Threads, Update
(* The process has been reaped by the answer, or by another one: the exit    *)
(* code is not there any more.                                               *)
<1>1. /\ UNCHANGED <<exit_code, kproc, exit_callback_, flagVars, todo, calls>>
      /\ Continue(t, step)
      /\ processes_mutex_' = IF exited THEN t ELSE NoThread
      /\ managed_processes_' = IF p \in Managed THEN [managed_processes_ EXCEPT ![p] = seen[t]]
                                                ELSE managed_processes_
  BY <1>0 DEF Update, Reap, Free
<1>2. Managed' = Managed
  BY <1>0, <1>1 DEF IInv, TypeOK, Managed, Statuses
<1>3. pc' = [pc EXCEPT ![t] = step] /\ step \in {"callback", "next", "idle"}
  BY <1>1, Zenon DEF Continue, Return
<1>4. /\ cur' \in [Threads -> Pids \cup {NoPid}]
      /\ cur'[t] = IF exited THEN p ELSE NoPid
      /\ \A u \in Threads \ {t} : cur'[u] = cur[u] /\ seen'[u] = seen[u]
  BY <1>1 DEF IInv, TypeOK, Continue, Return
<1>5. seen' \in [Threads -> Statuses \cup {"none"}]
  BY <1>1 DEF IInv, TypeOK, Continue
<1>6. pc' \in [Threads -> ClientSteps \cup MonitorSteps]
  BY <1>3, Zenon DEF IInv, TypeOK, ClientSteps, MonitorSteps
<1>7. managed_processes_' \in [Pids -> Statuses \cup {"absent"}]
  BY <1>0, <1>1, Zenon DEF IInv, TypeOK
<1>a. TypeOK'
  BY <1>1, <1>4, <1>5, <1>6, <1>7, Zenon DEF IInv, TypeOK
<1>b. Positions'
  BY <1>0, <1>1, <1>3, <1>4 DEF IInv, TypeOK, Positions, ClientSteps, MonitorSteps, BusySteps,
                                Threads, Return
<1>c. Known' /\ Inserting'
  <2>1. Known'
    BY <1>0, <1>1, <1>2, <1>4 DEF IInv, TypeOK, Known
  <2>2. Inserting'
    BY <1>0, <1>1, <1>2, <1>3, <1>4 DEF IInv, TypeOK, Positions, BusySteps, Inserting, Threads
  <2> QED BY <2>1, <2>2, Zenon
<1>d. Locks'
  BY <1>0, <1>1, <1>3 DEF IInv, TypeOK, Locks, DestroySteps, Threads, Free, Return
<1>e. Seen' /\ Dying'
  BY <1>0, <1>1, <1>3, <1>4 DEF IInv, TypeOK, Seen, Dying, Threads
<1>f. Safe'
  <2>1. NoLostProcess'
    BY <1>0, <1>1, <1>2, <1>3, <1>4 DEF IInv, TypeOK, Safe, NoLostProcess, Threads
  <2>2. ASSUME NEW q \in Pids, managed_processes_'[q] \in {"ZOMBIE", "UNKNOWN"}
        PROVE  kproc'[q] \in {"gone", "foreign"}
    BY <1>0, <1>1, <2>2 DEF IInv, TypeOK, Safe, ExitReported
  <2>3. ASSUME NEW q \in Pids, managed_processes_'[q] \in {"ZOMBIE", "UNKNOWN"},
               exit_callback_' = "plain"
        PROVE  calls'[q] > 0 \/ \E u \in Threads : pc'[u] = "callback" /\ cur'[u] = q
    <3>1. CASE q = p /\ exited
      BY <1>3, <1>4, <3>1 DEF IInv, TypeOK
    <3>2. CASE ~(q = p /\ exited)
      <4>1. managed_processes_[q] \in {"ZOMBIE", "UNKNOWN"}
        BY <1>0, <1>1, <2>3, <3>2 DEF IInv, TypeOK, Managed, Statuses
      <4>2. calls[q] > 0 \/ \E u \in Threads : pc[u] = "callback" /\ cur[u] = q
        BY <1>1, <2>3, <4>1 DEF IInv, Safe, ExitReported
      <4> QED BY <1>0, <1>1, <1>3, <1>4, <4>2 DEF IInv, TypeOK
    <3> QED BY <3>1, <3>2, Zenon
  <2>4. ASSUME NEW u \in Threads, pc'[u] \in {"callback", "asks"}
        PROVE  kproc'[cur'[u]] \in {"gone", "foreign"}
    <3>1. CASE u = t
      BY <1>0, <1>1, <1>3, <1>4, <2>4, <3>1 DEF IInv, TypeOK, Return
    <3>2. CASE u # t
      BY <1>1, <1>3, <1>4, <2>4, <3>2 DEF IInv, TypeOK, Safe, ExitReported
    <3> QED BY <3>1, <3>2, Zenon
  <2>5. ExitReported'
    BY <2>2, <2>3, <2>4, Zenon DEF ExitReported
  <2> QED BY <1>1, <2>1, <2>5, Zenon DEF IInv, Safe, ExitCodeNeverRead
<1> QED BY <1>a, <1>b, <1>c, <1>d, <1>e, <1>f, Zenon DEF IInv

(* The exit callback returns. *)
LEMMA CallbackIInv ==
    ASSUME IInv, NEW t \in Threads, Callback(t)
    PROVE  IInv'
<1> USE ProcessManagerAssumption DEF entryVars, flagVars
<1>0. /\ t \in Clients \cup {Monitor} /\ pc[t] = "callback" /\ cur[t] \in Pids
      /\ pc' = [pc EXCEPT ![t] = Return(t)] /\ processes_mutex_' = NoThread
      /\ cur' = [cur EXCEPT ![t] = NoPid] /\ seen' = [seen EXCEPT ![t] = "none"]
      /\ UNCHANGED <<entryVars, exit_callback_, flagVars, todo, kproc>>
  BY Zenon DEF IInv, Positions, BusySteps, Callback, Continue, Threads
<1>1. calls' = IF exit_callback_ = "none" \/ calls[cur[t]] = 2 THEN calls
               ELSE [calls EXCEPT ![cur[t]] = @ + 1]
  BY DEF Callback
<1>2. Return(t) \in {"next", "idle"} /\ (t = Monitor <=> Return(t) = "next")
  BY Zenon DEF Return
<1>3. /\ calls' \in [Pids -> 0..2]
      /\ \A p \in Pids : calls[p] > 0 => calls'[p] > 0
      /\ exit_callback_ = "plain" => calls'[cur[t]] > 0
  BY <1>0, <1>1 DEF IInv, TypeOK
<1>4. TypeOK'
  BY <1>0, <1>2, <1>3, Zenon DEF IInv, TypeOK, ClientSteps, MonitorSteps
<1>5. Positions'
  BY <1>0, <1>2 DEF IInv, TypeOK, Positions, ClientSteps, MonitorSteps, BusySteps, Threads
<1>6. Known'
  BY <1>0 DEF IInv, TypeOK, Known, Managed
<1>7. Inserting'
  BY <1>0, <1>2 DEF IInv, TypeOK, Positions, BusySteps, Inserting, Managed, Threads
<1>8. Locks'
  BY <1>0, <1>2 DEF IInv, TypeOK, Locks, DestroySteps, Threads
<1>9. Seen' /\ Dying'
  BY <1>0, <1>2 DEF IInv, TypeOK, Seen, Dying, Threads
<1>a. NoLostProcess'
  BY <1>0, <1>2, Zenon DEF IInv, TypeOK, Safe, NoLostProcess, Managed, Threads
<1>b. ExitReported'
  BY <1>0, <1>2, <1>3 DEF IInv, TypeOK, Safe, ExitReported
<1>c. ExitCodeNeverRead'
  BY <1>0 DEF IInv, Safe, ExitCodeNeverRead
<1> QED BY <1>4, <1>5, <1>6, <1>7, <1>8, <1>9, <1>a, <1>b, <1>c, Zenon DEF IInv, Safe

(* The exit callback calls the manager. *)
LEMMA CallbackAsksIInv ==
    ASSUME IInv, NEW t \in Threads, CallbackAsks(t)
    PROVE  IInv'
<1> USE ProcessManagerAssumption DEF entryVars, flagVars
<1>0. /\ t \in Clients \cup {Monitor} /\ pc[t] = "callback" /\ cur[t] \in Pids
      /\ pc' = [pc EXCEPT ![t] = "asks"] /\ exit_callback_ = "asks"
      /\ UNCHANGED <<entryVars, processes_mutex_, exit_callback_, flagVars, cur, seen, todo, kproc,
                     calls>>
  BY DEF IInv, TypeOK, Positions, BusySteps, CallbackAsks, Continue, Return, Threads
<1>1. TypeOK' /\ Positions'
  BY <1>0 DEF IInv, TypeOK, Positions, ClientSteps, MonitorSteps, BusySteps, Threads
<1>2. Known' /\ Inserting'
  BY <1>0 DEF IInv, TypeOK, Known, Inserting, Managed, Threads
<1>3. Locks'
  BY <1>0 DEF IInv, TypeOK, Locks, DestroySteps, Threads
<1>4. Seen' /\ Dying'
  BY <1>0 DEF IInv, TypeOK, Seen, Dying, Threads
<1>5. Safe'
  BY <1>0 DEF IInv, TypeOK, Safe, NoLostProcess, ExitReported, ExitCodeNeverRead, Managed, Threads
<1> QED BY <1>1, <1>2, <1>3, <1>4, <1>5, Zenon DEF IInv

(* The callback is installed. *)
LEMMA SetCallbackIInv ==
    ASSUME IInv, NEW callback \in {"plain", "asks"}, setProcessExitCallback(callback)
    PROVE  IInv'
<1> USE DEF setProcessExitCallback, threadVars, entryVars, flagVars
<1>1. TypeOK' /\ Positions' /\ Known' /\ Inserting' /\ Locks' /\ Seen' /\ Dying'
  BY DEF IInv, TypeOK, Positions, Known, Inserting, Locks, Seen, Dying, Managed
<1>2. Safe'
  BY DEF IInv, TypeOK, Safe, NoLostProcess, ExitReported, ExitCodeNeverRead, Managed
<1> QED BY <1>1, <1>2, Zenon DEF IInv

(* The monitoring thread is started, and asked to stop. *)
LEMMA ControlIInv ==
    ASSUME IInv, NEW t \in Clients, startMonitoring(t) \/ stopMonitoring(t)
    PROVE  IInv'
<1> USE ProcessManagerAssumption DEF entryVars, flagVars
<1> DEFINE u == IF startMonitoring(t) THEN Monitor ELSE t
           step == IF startMonitoring(t) THEN "loop" ELSE "join"
<1>1. /\ u \in Clients \cup {Monitor} /\ pc' = [pc EXCEPT ![u] = step]
      /\ step \in {"loop", "join"} /\ (u = Monitor <=> step = "loop")
      /\ \A c \in Clients : pc[c] \notin DestroySteps
      /\ pc[u] = "none" \/ pc[u] = "idle"
      /\ UNCHANGED <<entryVars, processes_mutex_, exit_callback_, cur, seen, todo, kproc, calls>>
  BY DEF startMonitoring, stopMonitoring, Goto, SoleController, Usable, IInv, Locks
<1>2. /\ should_stop_monitoring_' \in BOOLEAN /\ monitoring_active_' \in BOOLEAN
      /\ monitoring_active_' <=> pc'[Monitor] # "none"
  <2>1. CASE startMonitoring(t)
    <3>1. pc'[Monitor] = "loop"
      BY <2>1 DEF startMonitoring, Goto, IInv, TypeOK, Threads
    <3> QED BY <2>1, <3>1, Zenon DEF startMonitoring
  <2>2. CASE stopMonitoring(t)
    <3>1. pc'[Monitor] = pc[Monitor]
      BY <2>2 DEF stopMonitoring, Goto, IInv, TypeOK, Threads
    <3>2. /\ should_stop_monitoring_' = TRUE /\ monitoring_active_' = monitoring_active_
          /\ monitoring_active_ \in BOOLEAN /\ (monitoring_active_ <=> pc[Monitor] # "none")
      BY <2>2, Zenon DEF stopMonitoring, IInv, TypeOK, Locks
    <3> QED BY <3>1, <3>2
  <2> QED BY <2>1, <2>2, Zenon
<1> HIDE DEF u, step
<1>3. TypeOK'
  BY <1>1, <1>2, Zenon DEF IInv, TypeOK, ClientSteps, MonitorSteps
<1>4. Positions'
  BY <1>1 DEF IInv, TypeOK, Positions, ClientSteps, MonitorSteps, BusySteps, Threads
<1>5. Known' /\ Inserting'
  BY <1>1 DEF IInv, TypeOK, Known, Inserting, Managed, Threads
<1>6. Locks'
  BY <1>1, <1>2 DEF IInv, TypeOK, Locks, DestroySteps, Threads
<1>7. Seen' /\ Dying'
  BY <1>1 DEF IInv, TypeOK, Seen, Dying, DestroySteps, Threads
<1>8. Safe'
  BY <1>1 DEF IInv, TypeOK, Safe, NoLostProcess, ExitReported, ExitCodeNeverRead, Managed, Threads
<1> QED BY <1>3, <1>4, <1>5, <1>6, <1>7, <1>8, Zenon DEF IInv

(* The monitoring thread copies the pids and takes them one by one. *)
LEMMA LoopIInv ==
    ASSUME IInv, Snapshot \/ NextPid
    PROVE  IInv'
<1> USE ProcessManagerAssumption DEF entryVars, flagVars
<1> DEFINE step == pc'[Monitor]
<1>1. /\ pc[Monitor] \in {"loop", "next"} /\ pc' = [pc EXCEPT ![Monitor] = step]
      /\ step \in {"done", "next", "sweep", "probe"}
      /\ UNCHANGED <<entryVars, processes_mutex_, exit_callback_, flagVars, seen, kproc, calls>>
  BY DEF Snapshot, NextPid, Goto, IInv, TypeOK, Threads
<1>2. todo' \subseteq Managed \cup todo
  BY Zenon DEF Snapshot, NextPid
<1>3. /\ cur' = [cur EXCEPT ![Monitor] = cur'[Monitor]]
      /\ cur'[Monitor] = cur[Monitor] \/ cur'[Monitor] \in todo
      /\ step = "probe" => cur'[Monitor] \in todo
  BY DEF Snapshot, NextPid, Goto, IInv, TypeOK, Threads
<1> HIDE DEF step
<1>4. TypeOK'
  BY <1>1, <1>2, <1>3 DEF IInv, TypeOK, ClientSteps, MonitorSteps, Managed, Threads
<1>5. Positions'
  BY <1>1, <1>3 DEF IInv, TypeOK, Positions, ClientSteps, MonitorSteps, BusySteps, Threads
<1>6. Managed' = Managed
  BY <1>1, Zenon DEF Managed
<1>7. Known'
  BY <1>1, <1>2, <1>3, <1>6 DEF IInv, TypeOK, Known, Threads
<1>8. Inserting'
  BY <1>1, <1>2, <1>3, <1>6 DEF IInv, TypeOK, Positions, BusySteps, Inserting, Threads
<1>9. Locks'
  BY <1>1 DEF IInv, TypeOK, Locks, DestroySteps, Threads
<1>a. Seen' /\ Dying'
  BY <1>1, <1>3 DEF IInv, TypeOK, Seen, Dying, Locks, DestroySteps, Threads
<1>b. NoLostProcess'
  BY <1>1, <1>3, <1>6 DEF IInv, TypeOK, Safe, NoLostProcess, Threads
<1>c. ExitReported'
  BY <1>1, <1>3 DEF IInv, TypeOK, Safe, ExitReported, Threads
<1>d. ExitCodeNeverRead'
  BY <1>1, Zenon DEF IInv, Safe, ExitCodeNeverRead
<1> QED BY <1>4, <1>5, <1>7, <1>8, <1>9, <1>a, <1>b, <1>c, <1>d, Zenon DEF IInv, Safe

(* The sweep erases entries of processes that have been reaped. *)
LEMMA SweepIInv ==
    ASSUME IInv, Sweep
    PROVE  IInv'
<1> USE ProcessManagerAssumption DEF entryVars, flagVars, Sweep, Goto
<1>1. Managed' \subseteq Managed
  BY Zenon DEF IInv, TypeOK, Managed
<1>2. \A p \in Managed \ Managed' : kproc[p] \in {"gone", "foreign"}
  BY DEF IInv, TypeOK, Statuses, Managed, Safe, ExitReported
<1>3. TypeOK'
  BY DEF IInv, TypeOK, ClientSteps, MonitorSteps, Statuses
<1>4. Positions'
  BY DEF IInv, TypeOK, Positions, ClientSteps, MonitorSteps, BusySteps, Threads
<1>5. Known' /\ Inserting'
  BY <1>1 DEF IInv, TypeOK, Known, Inserting, Threads
<1>6. Locks'
  BY DEF IInv, TypeOK, Locks, DestroySteps, Threads
<1>7. Seen' /\ Dying'
  BY DEF IInv, TypeOK, Seen, Dying, Threads
<1>8. NoLostProcess'
  BY <1>2 DEF IInv, TypeOK, Safe, NoLostProcess, Threads
<1>9. ExitReported' /\ ExitCodeNeverRead'
  BY DEF IInv, TypeOK, Safe, ExitReported, ExitCodeNeverRead, Threads
<1> QED BY <1>3, <1>4, <1>5, <1>6, <1>7, <1>8, <1>9, Zenon DEF IInv, Safe

(* The monitoring thread is joined, and the destructor begins to kill. *)
LEMMA JoinIInv ==
    ASSUME IInv, NEW t \in Clients, Join(t)
    PROVE  IInv'
<1> USE ProcessManagerAssumption DEF entryVars, flagVars
<1> DEFINE step == IF pc[t] = "join" THEN "idle" ELSE "destroyNext"
<1>1. /\ pc[t] \in {"join", "destroyJoin"} /\ pc[Monitor] = "done" /\ t # Monitor
      /\ monitoring_active_' = FALSE
      /\ todo' = IF pc[t] = "join" THEN todo ELSE Managed
      /\ processes_mutex_' = IF pc[t] = "join" THEN processes_mutex_ ELSE t
      /\ UNCHANGED <<entryVars, exit_callback_, should_stop_monitoring_, cur, seen, kproc, calls>>
  BY Zenon DEF Join
<1>2. /\ pc'[Monitor] = "none" /\ pc'[t] = step /\ step \in {"idle", "destroyNext"}
      /\ step = "destroyNext" <=> pc[t] = "destroyJoin"
      /\ \A u \in Clients : u # t => pc'[u] = pc[u]
      /\ pc' \in [Threads -> ClientSteps \cup MonitorSteps]
  BY <1>1 DEF Join, IInv, TypeOK, Threads, ClientSteps, MonitorSteps, DestroySteps
<1> HIDE DEF step
<1>3. pc[t] = "destroyJoin" => \A u \in Clients \ {t} : pc[u] = "idle"
  BY Zenon DEF IInv, Locks, DestroySteps
<1>4. TypeOK'
  BY <1>1, <1>2, Zenon DEF IInv, TypeOK, Managed, Threads
<1>5. Positions'
  BY <1>1, <1>2 DEF IInv, Positions, ClientSteps, MonitorSteps, DestroySteps, BusySteps, Threads
<1>6. Managed' = Managed
  BY <1>1 DEF Managed
<1>7. Known'
  BY <1>1, <1>6, Zenon DEF IInv, Known
<1>8. Inserting'
  BY <1>1, <1>2, <1>6, Zenon DEF IInv, Inserting
<1>9. Locks'
  BY <1>1, <1>2, <1>3 DEF IInv, Locks, DestroySteps, Threads
<1>a. Seen'
  BY <1>1, <1>2, Zenon DEF IInv, Seen, Threads
<1>b. NoLostProcess'
  BY <1>1, <1>2, <1>6 DEF IInv, Safe, NoLostProcess
<1>c. Dying'
  BY <1>1, <1>2, <1>3 DEF IInv, Dying, Safe, NoLostProcess
<1>d. ExitReported' /\ ExitCodeNeverRead'
  BY <1>1, <1>2 DEF IInv, Safe, ExitReported, ExitCodeNeverRead, Threads
<1> QED BY <1>4, <1>5, <1>7, <1>8, <1>9, <1>a, <1>b, <1>c, <1>d, Zenon DEF IInv, Safe

(* The destructor is called: every other thread has left the manager. *)
LEMMA DestroyIInv ==
    ASSUME IInv, NEW t \in Clients, Destroy(t)
    PROVE  IInv'
<1> USE ProcessManagerAssumption DEF entryVars, flagVars
<1> DEFINE step == IF monitoring_active_ THEN "destroyJoin" ELSE "destroyNext"
<1>1. /\ \A u \in Clients : pc[u] = "idle"
      /\ pc' = [pc EXCEPT ![t] = step] /\ step \in {"destroyJoin", "destroyNext"} /\ t # Monitor
      /\ step = "destroyNext" => todo' = Managed /\ processes_mutex_' = t
      /\ step = "destroyJoin" => UNCHANGED <<todo, processes_mutex_>>
      /\ UNCHANGED <<entryVars, exit_callback_, monitoring_active_, cur, seen, kproc, calls>>
  BY Zenon DEF Destroy, Goto
<1>2. should_stop_monitoring_' \in BOOLEAN
  BY Zenon DEF Destroy, IInv, TypeOK
<1>3. step = "destroyNext" => pc[Monitor] = "none"
  BY DEF IInv, TypeOK, Locks
<1> HIDE DEF step
<1>4. /\ pc' \in [Threads -> ClientSteps \cup MonitorSteps] /\ pc'[t] = step
      /\ \A u \in Threads : u # t => pc'[u] = pc[u]
  BY <1>1 DEF IInv, TypeOK, ClientSteps, DestroySteps, Threads
<1>5. TypeOK'
  BY <1>1, <1>2, <1>4 DEF IInv, TypeOK, Managed, Threads
<1>6. Positions'
  BY <1>1, <1>4 DEF IInv, Positions, ClientSteps, DestroySteps, BusySteps, Threads
<1>7. Managed' = Managed
  BY <1>1, Zenon DEF Managed
<1>8. Known' /\ Inserting'
  BY <1>1, <1>4, <1>7 DEF IInv, Known, Inserting, Threads
<1>9. Locks'
  BY <1>1, <1>3, <1>4 DEF IInv, Locks, DestroySteps, Threads
<1>a. Seen' /\ Dying'
  BY <1>1, <1>4 DEF IInv, Seen, Dying, Safe, NoLostProcess, Threads
<1>b. Safe'
  BY <1>1, <1>4, <1>7 DEF IInv, Safe, NoLostProcess, ExitReported, ExitCodeNeverRead, Threads
<1> QED BY <1>5, <1>6, <1>8, <1>9, <1>a, <1>b, Zenon DEF IInv

(* The destructor sends SIGTERM, waits, and sends SIGKILL. *)
LEMMA DestroyLoopIInv ==
    ASSUME IInv, NEW t \in Clients, DestroyNext(t) \/ DestroyKill(t)
    PROVE  IInv'
<1> USE ProcessManagerAssumption DEF entryVars, flagVars
<1>0. /\ pc[t] \in {"destroyNext", "destroyKill"} /\ t # Monitor /\ pc[Monitor] = "none"
      /\ \A u \in Clients \ {t} : pc[u] = "idle"
      /\ processes_mutex_ = t
      /\ UNCHANGED <<exit_code, exit_callback_, flagVars, seen, calls>>
  BY Zenon DEF IInv, Locks, DestroySteps, DestroyNext, DestroyKill, Threads
<1>1. ASSUME NEW p \in Pids, Evolves, NEW step \in {"destroyNext", "destroyKill"},
             pc' = [pc EXCEPT ![t] = step], cur' = [cur EXCEPT ![t] = p], kproc[p] # "none",
             todo' \subseteq todo,
             \A q \in Pids : kproc'[q] = "alive" => q \in todo' \/ (step = "destroyKill" /\ p = q),
             UNCHANGED <<managed_processes_, processes_mutex_>>
      PROVE  IInv'
  <2>1. /\ pc' \in [Threads -> ClientSteps \cup MonitorSteps] /\ pc'[t] = step
        /\ \A u \in Threads : u # t => pc'[u] = pc[u]
    BY <1>1, Zenon DEF IInv, TypeOK, ClientSteps, DestroySteps, Threads
  <2>2. /\ cur' \in [Threads -> Pids \cup {NoPid}] /\ cur'[t] = p
        /\ \A u \in Threads : u # t => cur'[u] = cur[u]
    BY <1>1, Zenon DEF IInv, TypeOK, Threads
  <2>3. TypeOK'
    BY <1>0, <1>1, <2>1, <2>2 DEF IInv, TypeOK, Evolves, KernelStates
  <2>4. Positions'
    BY ZenonT(30), <1>0, <1>1, <2>1, <2>2 DEF IInv, Positions, ClientSteps, DestroySteps, BusySteps, Threads
  <2>5. Managed' = Managed /\ Managed \subseteq Pids
    BY <1>1, Zenon DEF Managed
  <2>6. Known'
    <3>1. ASSUME NEW u \in Threads, cur'[u] # NoPid
          PROVE  kproc'[cur'[u]] # "none"
      <4>1. cur'[u] \in Pids
        BY <2>2, <3>1, Zenon
      <4>2. kproc[cur'[u]] # "none"
        BY <1>1, <2>2, <3>1, Zenon DEF IInv, Known
      <4> QED BY <1>1, <4>1, <4>2, Zenon DEF Evolves
    <3>2. \A q \in Managed' \cup todo' : q \in Pids /\ kproc[q] # "none"
      BY <1>1, <2>5, Zenon DEF IInv, TypeOK, Known
    <3>3. \A q \in Managed' \cup todo' : kproc'[q] # "none"
      BY <1>1, <3>2, Zenon DEF Evolves
    <3> QED BY <3>1, <3>3, Zenon DEF Known
  <2>7. Inserting' /\ Locks'
    BY <1>0, <1>1, <2>1 DEF IInv, Inserting, Locks, DestroySteps, Threads
  <2>8. \A u \in Threads : u # t => pc'[u] \in {"idle", "none"} /\ pc[u] \in {"idle", "none"}
    BY <1>0, <2>1, Zenon DEF Threads
  <2>9. Seen' /\ Dying'
    <3>1. Seen'
      BY <1>1, <2>1, <2>8, Zenon DEF Seen
    <3>2. \A u \in Clients : pc'[u] \in {"destroyNext", "destroyKill"} => u = t
      BY <2>8, Zenon DEF Threads
    <3>3. Dying'
      BY <1>1, <2>1, <2>2, <3>2, Zenon DEF Dying
    <3> QED BY <3>1, <3>3, Zenon
  <2>a. \A u \in Threads : pc'[u] \notin {"insert", "callback", "asks"} /\ pc[u] \notin {"insert", "callback", "asks"}
    BY <1>0, <1>1, <2>1, <2>8, Zenon
  <2>b. NoLostProcess'
    BY <1>1, <2>5, <2>a DEF IInv, Safe, NoLostProcess, Evolves, Threads
  <2>c. ExitReported'
    <3>1. \A q \in Pids : managed_processes_'[q] \in {"ZOMBIE", "UNKNOWN"} =>
            /\ kproc[q] \in {"gone", "foreign"} /\ kproc'[q] \in {"gone", "foreign"}
            /\ exit_callback_' = "plain" => calls'[q] > 0
      BY <1>0, <1>1, <2>a DEF IInv, Safe, ExitReported, Evolves
    <3> QED BY <2>a, <3>1, Zenon DEF ExitReported
  <2>d. ExitCodeNeverRead'
    BY <1>0 DEF IInv, Safe, ExitCodeNeverRead
  <2> QED BY <2>3, <2>4, <2>6, <2>7, <2>9, <2>b, <2>c, <2>d, Zenon DEF IInv, Safe
<1>2. ASSUME pc[t] = "destroyNext", NEW p \in todo, todo' = todo \ {p}, cur' = [cur EXCEPT ![t] = p],
             kproc' = Reap(p), UNCHANGED <<managed_processes_, processes_mutex_>>,
             Goto(t, IF isProcessRunning(p) THEN "destroyKill" ELSE "destroyNext")
      PROVE  IInv'
  <2> DEFINE step == IF isProcessRunning(p) THEN "destroyKill" ELSE "destroyNext"
  <2>1. p \in Pids /\ kproc[p] # "none"
    BY <1>2, Zenon DEF IInv, TypeOK, Known
  <2>2. Evolves
    BY <1>2, <2>1, KernelEvolves, Zenon DEF IInv
  <2>3. \A q \in Pids : kproc'[q] = "alive" => q \in todo' \/ (step = "destroyKill" /\ p = q)
    <3>1. kproc[p] = "alive" => step = "destroyKill"
      BY Zenon DEF isProcessRunning, determineProcessStatus, Executing
    <3>2. \A q \in Pids : kproc'[q] = "alive" => q \in todo
      BY <1>2, <2>2, Zenon DEF Evolves, IInv, Dying
    <3> QED BY <1>2, <2>1, <2>2, <3>1, <3>2 DEF Evolves
  <2>4. step \in {"destroyNext", "destroyKill"} /\ pc' = [pc EXCEPT ![t] = step]
    BY <1>2 DEF Goto
  <2> HIDE DEF step
  <2> QED BY <1>1, <1>2, <2>1, <2>2, <2>3, <2>4
<1>3. ASSUME pc[t] = "destroyNext", todo = {}, managed_processes_' = [p \in Pids |-> "absent"],
             processes_mutex_' = NoThread, Goto(t, "destroyed"), UNCHANGED <<todo, cur, kproc>>
      PROVE  IInv'
  <2>1. /\ pc' \in [Threads -> ClientSteps \cup MonitorSteps] /\ pc'[t] = "destroyed"
        /\ \A u \in Threads : u # t => pc'[u] = pc[u]
    BY <1>3, Zenon DEF IInv, TypeOK, ClientSteps, DestroySteps, Threads, Goto
  <2>2. TypeOK'
    BY <1>0, <1>3, <2>1, Zenon DEF IInv, TypeOK
  <2>3. Positions'
    BY <1>0, <1>3, <2>1 DEF IInv, Positions, ClientSteps, DestroySteps, BusySteps, Threads
  <2>4. Known' /\ Inserting'
    BY <1>0, <1>3, <2>1 DEF IInv, Known, Inserting, Managed, Threads
  <2>5. Locks'
    BY <1>0, <1>3, <2>1 DEF IInv, Locks, DestroySteps, Threads
  <2>6. Seen' /\ Dying'
    BY <1>0, <1>3, <2>1 DEF Seen, Dying, Threads
  <2>7. \A p \in Pids : kproc[p] # "alive"
    BY <1>3, Zenon DEF IInv, Dying
  <2>8. Safe'
    BY <1>0, <1>3, <2>1, <2>7 DEF IInv, Safe, NoLostProcess, ExitReported, ExitCodeNeverRead, Threads
  <2> QED BY <2>2, <2>3, <2>4, <2>5, <2>6, <2>8 DEF IInv
<1>4. CASE DestroyNext(t)
  BY <1>2, <1>3, <1>4, Zenon DEF DestroyNext
<1>5. CASE DestroyKill(t)
  <2>1. cur[t] \in Pids /\ kproc[cur[t]] # "none"
    BY <1>5, Zenon DEF DestroyKill, IInv, Positions, Known, BusySteps, Threads
  <2>2. Evolves
    BY <1>5, <2>1, KernelEvolves, Zenon DEF DestroyKill, IInv
  <2>3. kproc'[cur[t]] # "alive"
    BY <1>5, <2>1 DEF DestroyKill, IInv, TypeOK, Doom, Reap, isProcessRunning, determineProcessStatus,
                      Executing
  <2>4. \A q \in Pids : kproc'[q] = "alive" => q \in todo
    BY <2>2, <2>3, <1>5, Zenon DEF DestroyKill, Evolves, IInv, Dying
  <2>5. cur' = [cur EXCEPT ![t] = cur[t]]
    BY <1>5, Zenon DEF DestroyKill, IInv, TypeOK
  <2>6. pc' = [pc EXCEPT ![t] = "destroyNext"] /\ todo' = todo
        /\ UNCHANGED <<managed_processes_, processes_mutex_>>
    BY <1>5, Zenon DEF DestroyKill, Goto
  <2> QED BY <1>1, <2>1, <2>2, <2>4, <2>5, <2>6, Zenon
<1> QED BY <1>4, <1>5

(* The steps of stopProcess() and waitForProcess(), and a failed create. *)
Polling(t) ==
    \/ CreateFailed(t) \/ StopTest(t) \/ StopTerm(t) \/ StopPoll(t) \/ KillCheck(t)
    \/ KillSend(t) \/ WaitPoll(t)

LEMMA PollingIInv ==
    ASSUME IInv, NEW t \in Clients, Polling(t)
    PROVE  IInv'
<1> USE DEF entryVars, flagVars
<1>0. cur[t] \in Pids
  BY Zenon DEF Polling, CreateFailed, StopTest, StopTerm, StopPoll, KillCheck, KillSend, WaitPoll,
     IInv, Positions, BusySteps, Threads
<1>1. /\ pc[t] \in BusySteps \ {"update", "callback", "destroyKill"}
      /\ pc[t] = "insert" => kproc[cur[t]] # "alive"
      /\ UNCHANGED <<entryVars, processes_mutex_, exit_callback_, flagVars, todo, calls>>
  BY Zenon DEF Polling, CreateFailed, StopTest, StopTerm, StopPoll, KillCheck, KillSend, WaitPoll,
     BusySteps
<1>2. \E step \in {"idle", "stopTerm", "stopPoll", "killCheck", "kill", "probe"} : Continue(t, step)
  BY Zenon DEF Polling, CreateFailed, StopTest, StopTerm, StopPoll, KillCheck, KillSend, WaitPoll
<1>3. Evolves
  BY <1>0, KernelEvolves, Zenon DEF Polling, CreateFailed, StopTest, StopTerm, StopPoll,
     KillCheck, KillSend, WaitPoll, IInv
<1> QED BY <1>1, <1>2, <1>3, ContinueIInv, Zenon

LEMMA NextIInv == IInv /\ [Next]_vars => IInv'
<1> SUFFICES ASSUME IInv, [Next]_vars
             PROVE  IInv'
  BY Zenon
<1>1. CASE UNCHANGED vars
  <2>1. Evolves
    BY <1>1, KernelEvolves, Zenon DEF vars, IInv
  <2> QED BY <1>1, <2>1, KernelIInv, Zenon DEF vars
<1>2. ASSUME NEW t \in Clients, ClientCall(t)
      PROVE  IInv'
  <2>1. CASE startMonitoring(t) \/ stopMonitoring(t) \/ Destroy(t)
    BY <2>1, ControlIInv, DestroyIInv, Zenon
  <2>2. ASSUME NEW p \in Pids, Fork(t, p)
        PROVE  IInv'
    BY <2>2, ForkIInv, Zenon
  <2>3. ASSUME NEW p \in Pids, Returned(p),
               monitorProcess(t, p) \/ stopProcess(t, p) \/ killProcess(t, p) \/ waitForProcess(t, p)
        PROVE  IInv'
    <3>1. \E step \in {"probe", "stopTest", "kill", "term", "waitPoll"} : Call(t, p, step)
      BY <2>3, Zenon DEF monitorProcess, stopProcess, killProcess, waitForProcess
    <3>2. UNCHANGED <<entryVars, processes_mutex_, exit_callback_, flagVars, seen, todo, kproc, calls>>
      BY <2>3, Zenon DEF monitorProcess, stopProcess, killProcess, waitForProcess
    <3> QED BY <2>3, <3>1, <3>2, CallIInv, Zenon
  <2>4. ASSUME NEW p \in Pids, getProcessInfo(t, p) \/ getProcessStatus(t, p)
        PROVE  IInv'
    <3>1. Evolves
      BY <2>4, KernelEvolves, Zenon DEF getProcessInfo, getProcessStatus, IInv
    <3> QED BY <2>4, <3>1, KernelIInv, Zenon DEF getProcessInfo, getProcessStatus
  <2> QED BY <1>2, <2>1, <2>2, <2>3, <2>4, Zenon DEF ClientCall
<1>3. ASSUME NEW t \in Threads, UpdateStep(t)
      PROVE  IInv'
  BY <1>3, ProbeIInv, UpdateIInv, CallbackIInv, CallbackAsksIInv, Zenon DEF UpdateStep
<1>4. ASSUME NEW t \in Clients, ClientStep(t)
      PROVE  IInv'
  BY <1>3, <1>4, InsertIInv, PollingIInv, JoinIInv, DestroyLoopIInv, Zenon DEF ClientStep,
     Polling, Threads
<1>5. CASE MonitorStep
  BY <1>3, <1>5, LoopIInv, SweepIInv, Zenon DEF MonitorStep, Threads
<1>6. ASSUME NEW callback \in {"plain", "asks"}, setProcessExitCallback(callback)
      PROVE  IInv'
  BY <1>6, SetCallbackIInv, Zenon
<1>7. CASE Kernel
  <2>1. PICK p \in Pids : ProcessExit(p) \/ PidRecycled(p)
    BY <1>7, Zenon DEF Kernel
  <2>2. Evolves
    BY <2>1, KernelEvolves DEF IInv
  <2> QED BY <2>1, <2>2, KernelIInv, Zenon DEF ProcessExit, PidRecycled
<1> QED BY <1>1, <1>2, <1>4, <1>5, <1>6, <1>7, Zenon DEF Next

LEMMA Invariance == Spec => []IInv
BY InitIInv, NextIInv, PTL DEF Spec

-----------------------------------------------------------------------------
(* Every variable has its type, for every set of pids and clients.           *)
THEOREM TypeCorrect == Spec => []TypeOK
<1>1. IInv => TypeOK
  BY DEF IInv
<1> QED BY <1>1, Invariance, PTL

(* No child is lost, however many threads query, stop and sweep: a process   *)
(* that runs and was not sent SIGKILL has an entry, or is about to get one.  *)
THEOREM NoProcessLost == Spec => []NoLostProcess
<1>1. IInv => NoLostProcess
  BY DEF IInv, Safe
<1> QED BY <1>1, Invariance, PTL

(* An entry says that its process has exited only if it has exited and been  *)
(* reaped, and the exit callback is then called.                             *)
THEOREM ExitsReported == Spec => []ExitReported
<1>1. IInv => ExitReported
  BY DEF IInv, Safe
<1> QED BY <1>1, Invariance, PTL

(* updateProcessStatus() never stores an exit code, in no interleaving.      *)
THEOREM ExitCodeStaysZero == Spec => []ExitCodeNeverRead
<1>1. IInv => ExitCodeNeverRead
  BY DEF IInv, Safe
<1> QED BY <1>1, Invariance, PTL

(* Whoever erases an entry, no zombie is left behind by it.                  *)
THEOREM SweepLeavesNoZombie == Spec => SweptIsReaped
<1> DEFINE A == \A p \in Pids : p \in Managed /\ p \notin Managed' =>
                  \/ kproc[p] \in {"gone", "foreign"}
                  \/ \E t \in Clients : pc'[t] = "destroyed"
<1>1. IInv /\ [Next]_vars => [A]_vars
  <2> SUFFICES ASSUME IInv, Next, NEW p \in Pids, p \in Managed, p \notin Managed'
               PROVE  \/ kproc[p] \in {"gone", "foreign"}
                      \/ \E t \in Clients : pc'[t] = "destroyed"
    BY Zenon
  <2>1. CASE Sweep
    BY <2>1 DEF Sweep, Managed, IInv, TypeOK, Statuses, Safe, ExitReported
  <2>2. ASSUME NEW t \in Clients, DestroyNext(t)
        PROVE  \E u \in Clients : pc'[u] = "destroyed"
    BY <2>2, Zenon DEF DestroyNext, Managed, Goto, IInv, TypeOK, Threads
  <2>3. ASSUME NEW t \in Threads, UpdateStep(t)
        PROVE  FALSE
    BY <2>3 DEF UpdateStep, Probe, Update, Callback, CallbackAsks, entryVars, Managed, IInv, TypeOK,
                Positions, Statuses, BusySteps
  <2>4. ASSUME NEW t \in Clients, Insert(t)
        PROVE  FALSE
    BY <2>4, Zenon DEF Insert, Managed, IInv, TypeOK
  <2>5. managed_processes_' # managed_processes_
    BY Zenon DEF Managed
  <2>6. ASSUME NEW t \in Clients, ClientCall(t)
        PROVE  FALSE
    BY <2>5, <2>6 DEF ClientCall, Fork, monitorProcess, stopProcess, killProcess, waitForProcess,
       getProcessInfo, getProcessStatus, startMonitoring, stopMonitoring, Destroy, entryVars
  <2>7. ASSUME NEW t \in Clients, Polling(t) \/ Join(t) \/ DestroyKill(t)
        PROVE  FALSE
    BY <2>5, <2>7, Zenon DEF Polling, CreateFailed, StopTest, StopTerm, StopPoll, KillCheck,
       KillSend, WaitPoll, Join, DestroyKill, entryVars
  <2>8. CASE Snapshot \/ NextPid \/ Kernel
    BY <2>5, <2>8, Zenon DEF Snapshot, NextPid, Kernel, ProcessExit, PidRecycled, entryVars
  <2>9. ASSUME NEW callback \in {"plain", "asks"}, setProcessExitCallback(callback)
        PROVE  FALSE
    BY <2>5, <2>9, Zenon DEF setProcessExitCallback, entryVars
  <2> QED BY <2>1, <2>2, <2>3, <2>4, <2>6, <2>7, <2>8, <2>9, Zenon DEF Next, ClientStep,
             MonitorStep, Polling, Threads
<1>2. [][A]_vars => SweptIsReaped
  BY DEF SweptIsReaped
<1> QED BY <1>1, <1>2, Invariance, PTL DEF Spec

(* However stopProcess() ends, its process has exited or is being killed.    *)
THEOREM StopIsFinal == Spec => StopEnds
<1> DEFINE A == \A t \in Clients : pc[t] \in StopSteps /\ pc'[t] \notin StopSteps =>
                  kproc'[cur[t]] # "alive"
<1>1. IInv /\ [Next]_vars => [A]_vars
  <2> SUFFICES ASSUME IInv, Next, NEW t \in Clients, pc[t] \in StopSteps, pc'[t] \notin StopSteps
               PROVE  kproc'[cur[t]] # "alive"
    BY Zenon
  <2>0. cur[t] \in Pids /\ t # Monitor
    BY ProcessManagerAssumption, Zenon DEF IInv, Positions, BusySteps, StopSteps, Threads
  <2>1. CASE StopTest(t) \/ StopPoll(t)
    BY <2>0, <2>1 DEF StopTest, StopPoll, Continue, IInv, TypeOK, Threads, StopSteps, Reap,
                      isProcessRunning, determineProcessStatus, Executing
  <2>2. CASE StopTerm(t)
    BY <2>0, <2>2, Zenon DEF StopTerm, Continue, IInv, TypeOK, Threads, StopSteps
  <2>3. CASE KillSend(t)
    BY <2>0, <2>3 DEF KillSend, IInv, TypeOK, StopSteps, Doom
(* The entry has been swept: the process would otherwise be lost. *)
  <2>4. CASE KillCheck(t)
    <3>1. cur[t] \notin Managed /\ kproc' = kproc /\ pc[t] = "killCheck"
      BY <2>0, <2>4, Zenon DEF KillCheck, Continue, IInv, TypeOK, Threads, StopSteps
    <3>2. ~\E u \in Clients : pc[u] = "insert" /\ cur[u] = cur[t]
      BY <3>1, Zenon DEF IInv, Inserting, Threads
    <3> QED BY <2>0, <3>1, <3>2, Zenon DEF IInv, Safe, NoLostProcess
(* No other step takes t out of stopProcess(). *)
  <2>m. ASSUME NEW u \in Threads, u # t, NEW step, pc' = [pc EXCEPT ![u] = step]
        PROVE  FALSE
    <3>1. pc'[t] = pc[t]
      BY <2>m, Zenon DEF IInv, TypeOK, Threads
    <3> QED BY <3>1, Zenon
  <2> USE DEF Threads, StopSteps
  <2>5. ASSUME NEW u \in Clients, u # t, Polling(u)
        PROVE  FALSE
    <3>1. \E step : pc' = [pc EXCEPT ![u] = step]
      BY <2>5, Zenon DEF Polling, CreateFailed, StopTest, StopTerm, StopPoll, KillCheck, KillSend,
         WaitPoll, Continue, Goto
    <3> QED BY <2>5, <2>m, <3>1, Zenon
  <2>6. CreateFailed(t) \/ WaitPoll(t) => FALSE
    BY Zenon DEF CreateFailed, WaitPoll
  <2>7. ASSUME NEW u \in Threads, UpdateStep(u)
        PROVE  FALSE
    <3>1. u # t /\ \E step : pc' = [pc EXCEPT ![u] = step]
      BY <2>7, Zenon DEF UpdateStep, Probe, Update, Callback, CallbackAsks, Continue, Goto
    <3> QED BY <2>m, <3>1, Zenon
  <2>8. ASSUME NEW u \in Clients, Insert(u) \/ Join(u) \/ DestroyNext(u) \/ DestroyKill(u)
        PROVE  FALSE
    <3>1. CASE Join(u)
      <4>1. /\ u # t
            /\ pc' = [pc EXCEPT ![Monitor] = "none",
                                ![u] = IF pc[u] = "join" THEN "idle" ELSE "destroyNext"]
        BY <3>1, Zenon DEF Join
      <4>2. pc'[t] = pc[t]
        BY <2>0, <4>1, Zenon DEF IInv, TypeOK
      <4> QED BY <4>2, Zenon
    <3>2. CASE Insert(u) \/ DestroyNext(u) \/ DestroyKill(u)
      <4>1. u # t /\ \E step : pc' = [pc EXCEPT ![u] = step]
        BY <3>2, Zenon DEF Insert, DestroyNext, DestroyKill, Continue, Goto
      <4> QED BY <2>m, <4>1, Zenon
    <3> QED BY <2>8, <3>1, <3>2, Zenon
  <2>9. ASSUME NEW u \in Clients, ClientCall(u)
        PROVE  FALSE
    <3>1. CASE Destroy(u)
      BY <3>1, Zenon DEF Destroy
    <3>2. CASE startMonitoring(u)
      BY <2>0, <2>m, <3>2, Zenon DEF startMonitoring, Goto
    <3>3. CASE stopMonitoring(u)
      BY <2>m, <3>3, Zenon DEF stopMonitoring, Goto
    <3>4. ASSUME NEW p \in Pids, getProcessInfo(u, p) \/ getProcessStatus(u, p)
          PROVE  FALSE
      BY <3>4, Zenon DEF getProcessInfo, getProcessStatus, threadVars
    <3>5. ASSUME NEW p \in Pids,
                 \/ Fork(u, p) \/ monitorProcess(u, p) \/ stopProcess(u, p) \/ killProcess(u, p)
                 \/ waitForProcess(u, p)
          PROVE  FALSE
      <4>1. \E step : Call(u, p, step)
        BY <3>5, Zenon DEF Fork, monitorProcess, stopProcess, killProcess, waitForProcess
      <4>2. u # t /\ \E step : pc' = [pc EXCEPT ![u] = step]
        BY <4>1, Zenon DEF Call, Goto
      <4> QED BY <2>m, <4>2, Zenon
    <3> QED BY <2>9, <3>1, <3>2, <3>3, <3>4, <3>5, Zenon DEF ClientCall
  <2>a. CASE Snapshot \/ NextPid \/ Sweep \/ Kernel
    <3>1. pc' = pc \/ \E step : pc' = [pc EXCEPT ![Monitor] = step]
      BY <2>a, Zenon DEF Snapshot, NextPid, Sweep, Kernel, ProcessExit, PidRecycled, Goto,
         threadVars
    <3> QED BY <2>0, <2>m, <3>1
  <2>b. ASSUME NEW callback \in {"plain", "asks"}, setProcessExitCallback(callback)
        PROVE  FALSE
    BY <2>b, Zenon DEF setProcessExitCallback, threadVars
  <2> HIDE DEF IInv, TypeOK, StopSteps
  <2> QED BY <2>1, <2>2, <2>3, <2>4, <2>5, <2>6, <2>7, <2>8, <2>9, <2>a, <2>b
          DEF Next, ClientStep, MonitorStep, Polling
<1>2. [][A]_vars => StopEnds
  BY DEF StopEnds
<1> QED BY <1>1, <1>2, Invariance, PTL DEF Spec

=============================================================================
