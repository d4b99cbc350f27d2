---------------------------- MODULE CgroupManager ----------------------------
(***************************************************************************)
(* CgroupManagerImpl (src/src/cgroup/cgroup_manager.cpp) over the groups   *)
(* of CgroupTree, and the limit the kernel enforces for each controller.   *)
(* There is at most one owned manager per group; other managers of the     *)
(* same path (see ResourceMonitor) come and go.                            *)
(*                                                                         *)
(* A controller stands for its settings, its value for their values.  A    *)
(* write may fail in two ways: the file cannot be opened, and the call     *)
(* throws, or the kernel refuses the value when the buffered stream is     *)
(* closed, which nobody looks at.                                          *)
(***************************************************************************)
EXTENDS CgroupTree

CONSTANTS
    Order,      \* controllers, in the order of applyConfiguration()
    Values,     \* valid settings; 0 stands for unlimited
    Invalid,    \* a setting that the validate functions refuse
    Unlimited   \* "max"

ASSUME CgroupAssumption ==
    /\ Order \in Seq({"cpu", "memory", "io", "pid"})
    /\ 0 \in Values /\ Values \subseteq Nat
    /\ Invalid \notin Values /\ Unlimited \notin Values

VARIABLES
    manager,             \* per group: its owned manager exists
    config_,             \* per group and controller: the manager's config_
    controllers_enabled_,\* per group
    limit,               \* kernel: per group and controller, what was written
    unapplied            \* per group: a write of the manager has failed, or a
                         \* controller was enabled, since all limits were written

managerState == <<manager, config_, controllers_enabled_, unapplied>>
cgroupVars == <<managerState, limit, treeVars>>

Controllers == {Order[i] : i \in DOMAIN Order}
Validated == {"cpu", "pid"}
Settings ==
    {f \in [Controllers -> Values \cup {Invalid}] :
        \A c \in Controllers \ Validated : f[c] # Invalid}

(* The text of a limit: 0 becomes "max", but not in io.max. *)
Written(c, v) == IF v = 0 /\ c # "io" THEN Unlimited ELSE v

NoConfig == [c \in Controllers |-> 0]
NoLimits == [c \in Controllers |-> Unlimited]

ManagerInit ==
    /\ manager = [g \in Groups |-> FALSE]
    /\ config_ = [g \in Groups |-> NoConfig]
    /\ controllers_enabled_ = [g \in Groups |-> {}]
    /\ unapplied = [g \in Groups |-> FALSE]
    /\ limit = [g \in Groups |-> NoLimits]
    /\ TreeInit

-----------------------------------------------------------------------------
(* The constructor stores the configuration, unvalidated. *)
Construct(g, settings, enabled) ==
    /\ ~manager[g]
    /\ manager' = [manager EXCEPT ![g] = TRUE]
    /\ config_' = [config_ EXCEPT ![g] = settings]
    /\ controllers_enabled_' = [controllers_enabled_ EXCEPT ![g] = enabled]
    /\ unapplied' = [unapplied EXCEPT ![g] = dir[g]]
    /\ UNCHANGED <<limit, treeVars>>

(* applyConfiguration() with settings, over the limits old.  It writes the   *)
(* enabled controllers in order and nothing for "io"; it throws at the first *)
(* invalid setting or unwritable file, at position stop, and does not see    *)
(* the writes the kernel refuses.                                            *)
applyConfiguration(g, settings, old) ==
    LET enabled == controllers_enabled_[g] \ {"io"}
        before(stop) == {Order[i] : i \in 1..(stop - 1)} \cap enabled
    IN  \E stop \in 1..(Len(Order) + 1) :
           /\ stop <= Len(Order) => Order[stop] \in enabled
           /\ \A c \in before(stop) : settings[c] # Invalid
           /\ \E done \in SUBSET before(stop) :
                 /\ limit' = [limit EXCEPT ![g] = [c \in Controllers |->
                                IF c \in done THEN Written(c, settings[c]) ELSE old[c]]]
                 /\ unapplied' = [unapplied EXCEPT ![g] = done # enabled]

(* Faulty variant: the limits follow only the first time. *)
createBare(g) ==
    /\ manager[g] /\ MakeGroup(g)
    /\ limit' = [limit EXCEPT ![g] = NoLimits]
    /\ UNCHANGED managerState

(* create(): the directory, then enableControllers(), then the limits.  What *)
(* fails leaves the directory behind.                                        *)
create(g) ==
    /\ manager[g] /\ MakeGroup(g)
    /\ \/ applyConfiguration(g, config_[g], NoLimits)
       \/ /\ limit' = [limit EXCEPT ![g] = NoLimits]
          /\ unapplied' = [unapplied EXCEPT ![g] = TRUE]
    /\ UNCHANGED <<manager, config_, controllers_enabled_>>

(* updateConfig() replaces config_ but not controllers_enabled_. *)
updateConfig(g, settings) ==
    /\ manager[g]
    /\ config_' = [config_ EXCEPT ![g] = settings]
    /\ IF dir[g] THEN applyConfiguration(g, settings, limit[g]) ELSE UNCHANGED <<limit, unapplied>>
    /\ UNCHANGED <<manager, controllers_enabled_, treeVars>>

(* A setter: validate, store, write; the write fails without a directory. *)
setLimit(g, c, v) ==
    /\ manager[g]
    /\ config_' = [config_ EXCEPT ![g][c] = v]
    /\ \/ /\ dir[g]
          /\ limit' = [limit EXCEPT ![g][c] = Written(c, v)]
          /\ UNCHANGED unapplied
       \/ UNCHANGED limit /\ unapplied' = [unapplied EXCEPT ![g] = TRUE]
    /\ UNCHANGED <<manager, controllers_enabled_, treeVars>>

(* enableController() does not write the controller's limits. *)
enableController(g, c) ==
    /\ manager[g] /\ c \notin controllers_enabled_[g]
    /\ controllers_enabled_' = [controllers_enabled_ EXCEPT ![g] = @ \cup {c}]
    /\ unapplied' = [unapplied EXCEPT ![g] = dir[g]]
    /\ UNCHANGED <<manager, config_, limit, treeVars>>

disableController(g, c) ==
    /\ manager[g] /\ c \in controllers_enabled_[g]
    /\ controllers_enabled_' = [controllers_enabled_ EXCEPT ![g] = @ \ {c}]
    /\ UNCHANGED <<manager, config_, unapplied, limit, treeVars>>

-----------------------------------------------------------------------------
(* A directory that goes takes its limits along. *)
RemoveLimits == limit' = [g \in Groups |-> IF dir'[g] THEN limit[g] ELSE NoLimits]

destroy(g) ==
    /\ manager[g] /\ DestroyGroup(g, Members(g))
    /\ RemoveLimits
    /\ UNCHANGED managerState

(* ~CgroupManagerImpl() destroys the group and ignores errors. *)
Destruct(g) ==
    /\ manager[g]
    /\ manager' = [manager EXCEPT ![g] = FALSE]
    /\ config_' = [config_ EXCEPT ![g] = NoConfig]
    /\ controllers_enabled_' = [controllers_enabled_ EXCEPT ![g] = {}]
    /\ unapplied' = [unapplied EXCEPT ![g] = FALSE]
    /\ IF dir[g] THEN DestroyGroup(g, Members(g)) ELSE UNCHANGED treeVars
    /\ RemoveLimits

(* Another manager of the same path is destroyed, perhaps with an old list   *)
(* of processes.                                                             *)
Foreign(g) ==
    /\ \E listed \in SUBSET Procs : DestroyGroup(g, listed)
    /\ RemoveLimits
    /\ UNCHANGED managerState

Processes(g, p) ==
    /\ manager[g] /\ (addProcess(g, p) \/ removeProcess(g, p))
    /\ UNCHANGED <<managerState, limit>>

OwnerStep(g) ==
    \/ \E settings \in Settings, enabled \in SUBSET Controllers :
          Construct(g, settings, enabled)
    \/ create(g) \/ destroy(g) \/ Destruct(g)
    \/ \E settings \in Settings : updateConfig(g, settings)
    \/ \E c \in Controllers :
          \/ enableController(g, c) \/ disableController(g, c)
          \/ \E v \in Values : setLimit(g, c, v)
    \/ \E p \in Procs : Processes(g, p)

ManagerNext == \E g \in Groups : OwnerStep(g) \/ Foreign(g)

ManagerSpec == ManagerInit /\ [][ManagerNext]_cgroupVars

-----------------------------------------------------------------------------
(* Every variable has its type. *)
ManagerTypeOK ==
    /\ manager \in [Groups -> BOOLEAN]
    /\ config_ \in [Groups -> Settings]
    /\ controllers_enabled_ \in [Groups -> SUBSET Controllers]
    /\ unapplied \in [Groups -> BOOLEAN]
    /\ dir \in [Groups -> BOOLEAN]
    /\ limit \in [Groups -> [Controllers -> Values \cup {Unlimited}]]
    /\ member \in [Procs -> Groups \cup {Root}]

(* The kernel enforces what getConfig() reports, for every enabled controller*)
(* but "io", after any sequence of calls in which no write has failed since  *)
(* the limits were last all written: also after the group was destroyed, by  *)
(* whomever, and created again.  For "io", applyConfiguration() writes       *)
(* nothing, whatever the configuration says.                                 *)
LimitsInForce ==
    \A g \in Groups : manager[g] /\ dir[g] /\ ~unapplied[g] =>
        \A c \in controllers_enabled_[g] \ {"io"} :
            limit[g][c] = IF config_[g][c] = 0 THEN Unlimited ELSE config_[g][c]

=============================================================================
