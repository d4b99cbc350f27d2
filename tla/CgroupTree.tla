------------------------------ MODULE CgroupTree ------------------------------
(***************************************************************************)
(* The part of the cgroup file system the managers of                      *)
(* src/src/cgroup/cgroup_manager.cpp act on: which groups have a           *)
(* directory, and which group each process is in.  Any number of managers  *)
(* may exist for a path, and each of them does to the tree what is below.  *)
(***************************************************************************)
EXTENDS Naturals, Sequences, FiniteSets

CONSTANTS
    Groups,     \* cgroup paths, below the mount point
    Procs,
    Root        \* the parent group

ASSUME TreeAssumption == Root \notin Groups

VARIABLES
    dir,        \* the directory exists
    member      \* the group of each process

treeVars == <<dir, member>>

TreeInit ==
    /\ dir = [g \in Groups |-> FALSE]
    /\ member = [p \in Procs |-> Root]

Members(g) == {p \in Procs : member[p] = g}

(* create() makes the directory, unless there is one. *)
MakeGroup(g) ==
    /\ ~dir[g]
    /\ dir' = [dir EXCEPT ![g] = TRUE]
    /\ UNCHANGED member

addProcess(g, p) ==
    /\ dir[g]
    /\ member' = [member EXCEPT ![p] = g]
    /\ UNCHANGED dir

(* The process is moved to the parent, whatever group it is in. *)
removeProcess(g, p) ==
    /\ dir[g]
    /\ member' = [member EXCEPT ![p] = Root]
    /\ UNCHANGED dir

(* destroy(): the processes listed are moved to the parent, but for failures,*)
(* and the directory is removed, which may fail as well; the kernel refuses  *)
(* to remove a group that has members.                                       *)
DestroyGroup(g, listed) ==
    /\ dir[g]
    /\ \E moved \in SUBSET listed :
          member' = [p \in Procs |-> IF p \in moved THEN Root ELSE member[p]]
    /\ \/ UNCHANGED dir
       \/ /\ \A p \in Procs : member'[p] # g
          /\ dir' = [dir EXCEPT ![g] = FALSE]

TreeNext ==
    \E g \in Groups :
        \/ MakeGroup(g)
        \/ \E p \in Procs : addProcess(g, p) \/ removeProcess(g, p)
        \/ \E listed \in SUBSET Procs : DestroyGroup(g, listed)

=============================================================================
