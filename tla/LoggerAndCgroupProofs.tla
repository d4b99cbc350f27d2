------------------------ MODULE LoggerAndCgroupProofs -------------------------
(***************************************************************************)
(* Proofs about Logger, for any number of threads, files and sinks, and    *)
(* about CgroupManager, for every set of groups, processes and settings    *)
(* and every order of the controllers.                                     *)
(***************************************************************************)
EXTENDS TLAPS, CgroupManager, Logger

(***************************************************************************)
(* CgroupManager                                                           *)
(***************************************************************************)

ManagerIInv == ManagerTypeOK /\ LimitsInForce

(* The configurations and limits of a new manager and a new group have their *)
(* types, and what is written for a valid setting is a limit.                *)
LEMMA Typing ==
    /\ NoConfig \in Settings /\ NoLimits \in [Controllers -> Values \cup {Unlimited}]
    /\ \A c, v : v \in Values => Written(c, v) \in Values \cup {Unlimited}
BY CgroupAssumption DEF NoConfig, NoLimits, Settings, Written

LEMMA ManagerInitIInv == ManagerInit => ManagerIInv
BY Typing DEF ManagerInit, TreeInit, ManagerIInv, ManagerTypeOK, LimitsInForce

(* Removing directories and moving processes to the parent keep the types,  *)
(* and touch no limit of a directory that stays.                            *)
LEMMA Removal ==
    ASSUME ManagerIInv, NEW g \in Groups, NEW pids \in SUBSET Procs,
           DestroyGroup(g, pids), RemoveLimits
    PROVE  /\ dir' \in [Groups -> BOOLEAN] /\ member' \in [Procs -> Groups \cup {Root}]
           /\ limit' \in [Groups -> [Controllers -> Values \cup {Unlimited}]]
           /\ \A h \in Groups : dir'[h] => dir[h] /\ limit'[h] = limit[h]
<1>1. dir' \in [Groups -> BOOLEAN] /\ \A h \in Groups : dir'[h] => dir[h]
  BY Zenon DEF DestroyGroup, ManagerIInv, ManagerTypeOK
<1>2. member' \in [Procs -> Groups \cup {Root}]
  BY DEF DestroyGroup, ManagerIInv, ManagerTypeOK
<1> QED BY <1>1, <1>2, Typing DEF RemoveLimits, ManagerIInv, ManagerTypeOK

(* applyConfiguration() writes limits of its group only; unless it leaves    *)
(* the group marked, the limits of all enabled controllers are written.      *)
LEMMA Applied ==
    ASSUME ManagerIInv, NEW g \in Groups, NEW settings \in Settings,
           NEW old \in [Controllers -> Values \cup {Unlimited}],
           applyConfiguration(g, settings, old)
    PROVE  /\ unapplied' \in [Groups -> BOOLEAN]
           /\ limit' \in [Groups -> [Controllers -> Values \cup {Unlimited}]]
           /\ \A h \in Groups \ {g} : limit'[h] = limit[h] /\ unapplied'[h] = unapplied[h]
           /\ ~unapplied'[g] =>
                 \A c \in controllers_enabled_[g] \ {"io"} : limit'[g][c] = Written(c, settings[c])
<1> DEFINE enabled == controllers_enabled_[g] \ {"io"}
<1> DEFINE before(stop) == {Order[i] : i \in 1..(stop - 1)} \cap enabled
<1>0. PICK stop \in 1..(Len(Order) + 1) :
        /\ \A c \in before(stop) : settings[c] # Invalid
        /\ \E done \in SUBSET before(stop) :
              /\ limit' = [limit EXCEPT ![g] = [c \in Controllers |->
                             IF c \in done THEN Written(c, settings[c]) ELSE old[c]]]
              /\ unapplied' = [unapplied EXCEPT ![g] = done # enabled]
  BY Zenon DEF applyConfiguration
<1>1. PICK done \in SUBSET before(stop) :
        /\ limit' = [limit EXCEPT ![g] = [c \in Controllers |->
                       IF c \in done THEN Written(c, settings[c]) ELSE old[c]]]
        /\ unapplied' = [unapplied EXCEPT ![g] = done # enabled]
  BY <1>0, Zenon
<1>2. \A c \in done : settings[c] # Invalid
  BY <1>0, <1>1
<1>3. enabled \subseteq Controllers /\ done \subseteq enabled
  BY <1>1 DEF ManagerIInv, ManagerTypeOK
<1>4. \A c \in done : Written(c, settings[c]) \in Values \cup {Unlimited}
  BY <1>2, <1>3, Typing DEF Settings
<1> HIDE DEF before
<1> DEFINE new == [c \in Controllers |-> IF c \in done THEN Written(c, settings[c]) ELSE old[c]]
<1>5. new \in [Controllers -> Values \cup {Unlimited}]
  BY <1>4
<1>6. done = enabled => \A c \in enabled : new[c] = Written(c, settings[c])
  BY <1>3
<1> HIDE DEF new, enabled
<1>7. /\ limit' = [limit EXCEPT ![g] = new]
      /\ unapplied' = [unapplied EXCEPT ![g] = done # enabled]
  BY <1>1 DEF new
<1>8. /\ unapplied' \in [Groups -> BOOLEAN]
      /\ limit' \in [Groups -> [Controllers -> Values \cup {Unlimited}]]
      /\ \A h \in Groups \ {g} : limit'[h] = limit[h] /\ unapplied'[h] = unapplied[h]
      /\ limit'[g] = new /\ (unapplied'[g] <=> done # enabled)
  BY <1>5, <1>7, Zenon DEF ManagerIInv, ManagerTypeOK
<1> QED BY <1>6, <1>8 DEF enabled

(* One step per operation, and in it one for the types and one for the limits. *)
LEMMA ManagerNextIInv == ManagerIInv /\ [ManagerNext]_cgroupVars => ManagerIInv'
<1> SUFFICES ASSUME ManagerIInv, [ManagerNext]_cgroupVars PROVE ManagerTypeOK' /\ LimitsInForce'
  BY DEF ManagerIInv
<1> USE DEF managerState, treeVars
<1>a. \A c, v : c # "io" => Written(c, v) = IF v = 0 THEN Unlimited ELSE v
  BY DEF Written
<1>1. ASSUME NEW g \in Groups, NEW settings \in Settings, NEW enabled \in SUBSET Controllers,
             Construct(g, settings, enabled)
      PROVE  ManagerTypeOK' /\ LimitsInForce'
  <2>1. ManagerTypeOK'
    BY <1>1 DEF Construct, ManagerIInv, ManagerTypeOK
  <2>2. LimitsInForce'
    BY <1>1 DEF Construct, ManagerIInv, ManagerTypeOK, LimitsInForce
  <2> QED BY <2>1, <2>2
<1>2. ASSUME NEW g \in Groups, create(g) PROVE ManagerTypeOK' /\ LimitsInForce'
  <2>1. /\ dir' \in [Groups -> BOOLEAN]
        /\ UNCHANGED <<member, manager, config_, controllers_enabled_>>
        /\ \A h \in Groups \ {g} : dir'[h] = dir[h]
    BY <1>2 DEF create, MakeGroup, ManagerIInv, ManagerTypeOK
  <2>2. CASE applyConfiguration(g, config_[g], NoLimits)
    <3>1. config_[g] \in Settings /\ NoLimits \in [Controllers -> Values \cup {Unlimited}]
      BY Typing DEF ManagerIInv, ManagerTypeOK
    <3>2. /\ unapplied' \in [Groups -> BOOLEAN]
          /\ limit' \in [Groups -> [Controllers -> Values \cup {Unlimited}]]
          /\ \A h \in Groups \ {g} : limit'[h] = limit[h] /\ unapplied'[h] = unapplied[h]
          /\ ~unapplied'[g] =>
                \A c \in controllers_enabled_[g] \ {"io"} : limit'[g][c] = Written(c, config_[g][c])
      BY <2>2, <3>1, Applied
    <3>3. ManagerTypeOK'
      BY <2>1, <3>2, Zenon DEF ManagerIInv, ManagerTypeOK
    <3>4. LimitsInForce'
      BY <1>a, <2>1, <3>2 DEF ManagerIInv, LimitsInForce
    <3> QED BY <3>3, <3>4
  <2>3. CASE /\ limit' = [limit EXCEPT ![g] = NoLimits]
             /\ unapplied' = [unapplied EXCEPT ![g] = TRUE]
    <3>1. ManagerTypeOK'
      BY <2>1, <2>3, Typing DEF ManagerIInv, ManagerTypeOK
    <3>2. LimitsInForce'
      BY <2>1, <2>3 DEF ManagerIInv, ManagerTypeOK, LimitsInForce
    <3> QED BY <3>1, <3>2
  <2> QED BY <1>2, <2>2, <2>3 DEF create
<1>3. ASSUME NEW g \in Groups, NEW settings \in Settings, updateConfig(g, settings)
      PROVE  ManagerTypeOK' /\ LimitsInForce'
  <2>1. /\ config_' = [config_ EXCEPT ![g] = settings] /\ config_' \in [Groups -> Settings]
        /\ UNCHANGED <<manager, controllers_enabled_, dir, member>>
    BY <1>3 DEF updateConfig, ManagerIInv, ManagerTypeOK
  <2>2. CASE dir[g]
    <3>1. limit[g] \in [Controllers -> Values \cup {Unlimited}]
      BY Zenon DEF ManagerIInv, ManagerTypeOK
    <3>2. /\ unapplied' \in [Groups -> BOOLEAN]
          /\ limit' \in [Groups -> [Controllers -> Values \cup {Unlimited}]]
          /\ \A h \in Groups \ {g} : limit'[h] = limit[h] /\ unapplied'[h] = unapplied[h]
          /\ ~unapplied'[g] =>
                \A c \in controllers_enabled_[g] \ {"io"} : limit'[g][c] = Written(c, settings[c])
      BY <1>3, <2>2, <3>1, Applied DEF updateConfig
    <3>3. ManagerTypeOK'
      BY <2>1, <3>2, Zenon DEF ManagerIInv, ManagerTypeOK
    <3>4. \A h \in Groups \ {g} : config_'[h] = config_[h]
      BY <2>1 DEF ManagerIInv, ManagerTypeOK
    <3>5. config_'[g] = settings
      BY <2>1 DEF ManagerIInv, ManagerTypeOK
    <3>6. LimitsInForce'
      BY <1>a, <2>1, <3>2, <3>4, <3>5 DEF ManagerIInv, LimitsInForce
    <3> QED BY <3>3, <3>6
  <2>3. CASE ~dir[g]
    <3>1. UNCHANGED <<limit, unapplied>>
      BY <1>3, <2>3 DEF updateConfig
    <3>2. ManagerTypeOK'
      BY <2>1, <3>1 DEF ManagerIInv, ManagerTypeOK
    <3>3. LimitsInForce'
      BY <2>1, <2>3, <3>1 DEF ManagerIInv, ManagerTypeOK, LimitsInForce
    <3> QED BY <3>2, <3>3
  <2> QED BY <2>2, <2>3
<1>4. ASSUME NEW g \in Groups, NEW c \in Controllers, NEW v \in Values, setLimit(g, c, v)
      PROVE  ManagerTypeOK' /\ LimitsInForce'
  <2>1. [config_[g] EXCEPT ![c] = v] \in Settings
    BY CgroupAssumption DEF ManagerIInv, ManagerTypeOK, Settings
  <2>2. /\ config_' = [config_ EXCEPT ![g] = [config_[g] EXCEPT ![c] = v]]
        /\ config_' \in [Groups -> Settings]
    BY <1>4, <2>1 DEF setLimit, ManagerIInv, ManagerTypeOK
  <2>3. Written(c, v) \in Values \cup {Unlimited}
    BY Typing, Zenon
  <2>4. ManagerTypeOK'
    <3>1. limit' = limit \/ limit' = [limit EXCEPT ![g] = [limit[g] EXCEPT ![c] = Written(c, v)]]
      BY <1>4 DEF setLimit
    <3>2. [limit[g] EXCEPT ![c] = Written(c, v)] \in [Controllers -> Values \cup {Unlimited}]
      BY <2>3 DEF ManagerIInv, ManagerTypeOK
    <3>3. limit' \in [Groups -> [Controllers -> Values \cup {Unlimited}]]
      BY <3>1, <3>2, Zenon DEF ManagerIInv, ManagerTypeOK
    <3>4. unapplied' \in [Groups -> BOOLEAN]
      BY <1>4, Zenon DEF setLimit, ManagerIInv, ManagerTypeOK
    <3> QED BY <1>4, <2>2, <3>3, <3>4 DEF setLimit, ManagerIInv, ManagerTypeOK
  <2>5. LimitsInForce'
    <3>1. /\ \A h \in Groups \ {g} : config_'[h] = config_[h]
          /\ \A d \in Controllers : config_'[g][d] = IF d = c THEN v ELSE config_[g][d]
      BY <2>2, Zenon DEF ManagerIInv, ManagerTypeOK, Settings
    <3>2. CASE unapplied' = [unapplied EXCEPT ![g] = TRUE] /\ UNCHANGED limit
      BY <1>4, <3>1, <3>2 DEF setLimit, ManagerIInv, ManagerTypeOK, LimitsInForce
    <3>3. CASE UNCHANGED unapplied /\ limit' = [limit EXCEPT ![g][c] = Written(c, v)]
      <4>1. /\ \A h \in Groups \ {g} : limit'[h] = limit[h]
            /\ \A d \in Controllers : limit'[g][d] = IF d = c THEN Written(c, v) ELSE limit[g][d]
        BY <3>3 DEF ManagerIInv, ManagerTypeOK
      <4>2. UNCHANGED <<manager, controllers_enabled_, dir, unapplied>>
        BY <1>4, <3>3 DEF setLimit
      <4> SUFFICES ASSUME NEW h \in Groups, manager[h] /\ dir[h] /\ ~unapplied[h],
                          NEW d \in controllers_enabled_[h] \ {"io"}
                   PROVE  limit'[h][d] = IF config_'[h][d] = 0 THEN Unlimited ELSE config_'[h][d]
        BY <4>2 DEF LimitsInForce
      <4>3. d \in Controllers /\ limit[h][d] = IF config_[h][d] = 0 THEN Unlimited ELSE config_[h][d]
        BY DEF ManagerIInv, ManagerTypeOK, LimitsInForce
      <4> QED BY <1>a, <3>1, <4>1, <4>3
    <3> QED BY <1>4, <3>2, <3>3 DEF setLimit
  <2> QED BY <2>4, <2>5
<1>5. ASSUME NEW g \in Groups, NEW c \in Controllers, enableController(g, c)
      PROVE  ManagerTypeOK' /\ LimitsInForce'
  <2>1. ManagerTypeOK'
    BY <1>5 DEF enableController, ManagerIInv, ManagerTypeOK
  <2>2. LimitsInForce'
    BY <1>5 DEF enableController, ManagerIInv, ManagerTypeOK, LimitsInForce
  <2> QED BY <2>1, <2>2
<1>6. ASSUME NEW g \in Groups, NEW c \in Controllers, disableController(g, c)
      PROVE  ManagerTypeOK' /\ LimitsInForce'
  <2>1. ManagerTypeOK'
    BY <1>6 DEF disableController, ManagerIInv, ManagerTypeOK
  <2>2. LimitsInForce'
    BY <1>6 DEF disableController, ManagerIInv, ManagerTypeOK, LimitsInForce
  <2> QED BY <2>1, <2>2
<1>7. ASSUME NEW g \in Groups, NEW pids \in SUBSET Procs, DestroyGroup(g, pids), RemoveLimits,
             UNCHANGED managerState
      PROVE  ManagerTypeOK' /\ LimitsInForce'
  <2>1. ManagerTypeOK'
    BY <1>7, Removal, Zenon DEF ManagerIInv, ManagerTypeOK
  <2>2. LimitsInForce'
    BY <1>7, Removal DEF ManagerIInv, LimitsInForce
  <2> QED BY <2>1, <2>2, Zenon
<1>8. ASSUME NEW g \in Groups, destroy(g) \/ Foreign(g) PROVE ManagerTypeOK' /\ LimitsInForce'
  <2>1. Members(g) \in SUBSET Procs
    BY DEF Members
  <2> QED BY <1>7, <1>8, <2>1 DEF destroy, Foreign
<1>9. ASSUME NEW g \in Groups, Destruct(g) PROVE ManagerTypeOK' /\ LimitsInForce'
  <2>1. /\ manager' = [manager EXCEPT ![g] = FALSE] /\ manager' \in [Groups -> BOOLEAN]
        /\ config_' = [config_ EXCEPT ![g] = NoConfig] /\ config_' \in [Groups -> Settings]
        /\ controllers_enabled_' = [controllers_enabled_ EXCEPT ![g] = {}]
        /\ controllers_enabled_' \in [Groups -> SUBSET Controllers]
        /\ unapplied' = [unapplied EXCEPT ![g] = FALSE] /\ unapplied' \in [Groups -> BOOLEAN]
    BY <1>9, Typing, Zenon DEF Destruct, ManagerIInv, ManagerTypeOK
  <2>2. /\ dir' \in [Groups -> BOOLEAN] /\ member' \in [Procs -> Groups \cup {Root}]
        /\ limit' \in [Groups -> [Controllers -> Values \cup {Unlimited}]]
        /\ \A h \in Groups : dir'[h] => dir[h] /\ limit'[h] = limit[h]
    <3>1. CASE dir[g]
      <4>1. Members(g) \in SUBSET Procs
        BY DEF Members
      <4> QED BY <1>9, <3>1, <4>1, Removal, Zenon DEF Destruct
    <3>2. CASE ~dir[g]
      BY <1>9, <3>2, Typing, Zenon DEF Destruct, RemoveLimits, ManagerIInv, ManagerTypeOK
    <3> QED BY <3>1, <3>2, Zenon
  <2>3. ManagerTypeOK'
    BY <2>1, <2>2, Zenon DEF ManagerTypeOK
  <2>4. LimitsInForce'
    BY <2>1, <2>2 DEF ManagerIInv, ManagerTypeOK, LimitsInForce
  <2> QED BY <2>3, <2>4
<1>10. ASSUME NEW g \in Groups, NEW p \in Procs, Processes(g, p)
       PROVE  ManagerTypeOK' /\ LimitsInForce'
  <2>1. ManagerTypeOK'
    BY <1>10 DEF Processes, addProcess, removeProcess, ManagerIInv, ManagerTypeOK
  <2>2. LimitsInForce'
    BY <1>10 DEF Processes, addProcess, removeProcess, ManagerIInv, LimitsInForce
  <2> QED BY <2>1, <2>2
<1>11. CASE UNCHANGED cgroupVars
  <2>1. ManagerTypeOK'
    BY <1>11 DEF cgroupVars, ManagerIInv, ManagerTypeOK
  <2>2. LimitsInForce'
    BY <1>11 DEF cgroupVars, ManagerIInv, LimitsInForce
  <2> QED BY <2>1, <2>2
<1> QED BY <1>1, <1>2, <1>3, <1>4, <1>5, <1>6, <1>8, <1>9, <1>10, <1>11 DEF ManagerNext, OwnerStep

LEMMA ManagerSpecIInv == ManagerSpec => []ManagerIInv
BY ManagerInitIInv, ManagerNextIInv, PTL DEF ManagerSpec

(* The managers' state keeps its type: the kernel is never given a setting   *)
(* that the validate functions refuse.                                       *)
THEOREM ManagersTyped == ManagerSpec => []ManagerTypeOK
<1>1. ManagerIInv => ManagerTypeOK
  BY DEF ManagerIInv
<1> QED BY <1>1, ManagerSpecIInv, PTL

(* For any groups, settings and order of the controllers, the kernel         *)
(* enforces the configuration once it has been written without failure.      *)
THEOREM LimitsEnforced == ManagerSpec => []LimitsInForce
<1>1. ManagerIInv => LimitsInForce
  BY DEF ManagerIInv
<1> QED BY <1>1, ManagerSpecIInv, PTL

-----------------------------------------------------------------------------
(***************************************************************************)
(* Logger                                                                  *)
(***************************************************************************)

Sink == [id : {0}, target : Targets, level : Levels]

Steps == {"idle", "addSink", "addFileSink", "addFileSinkPush", "removeFileSink", "removeStream",
          "clearSinks", "clearStreams", "flush", "log", "deliver"}

HoldsSinks == {"removeStream", "clearStreams", "deliver"}

Logging == {"log", "deliver"}

(* The argument of a call has the fields that its steps read. *)
Argument(t) ==
    /\ pc[t] = "addSink" => arg[t] \in Sink /\ arg[t].target = Custom
    /\ pc[t] \in {"addFileSink", "addFileSinkPush"} => arg[t] \in Sink /\ arg[t].target \in Files
    /\ pc[t] \in {"removeFileSink", "removeStream"} => arg[t].target \in Files
    /\ pc[t] \in Logging => arg[t].id \in 1..logs /\ arg[t].level \in Levels

Types ==
    /\ level_ \in Levels /\ logs \in Nat
    /\ sinks_ \in Seq(Sink)
    /\ file_sinks_ \in [Files -> {"none", "open", "closed"}]
    /\ written \in [Targets -> Seq(Nat)]
    /\ \A f \in Targets : \A i \in 1..Len(written[f]) : written[f][i] \in 1..logs
    /\ pc \in [Threads -> Steps]
    /\ arg = [t \in Threads |-> arg[t]]
    /\ left \in [Threads -> Seq(Sink)]
    /\ \A t \in Threads : Argument(t)

(* Who owns which mutex is told by the steps the threads are at. *)
Locks ==
    /\ sinks_mutex_ \in Threads \cup {NoThread}
    /\ file_sinks_mutex_ \in Threads \cup {NoThread}
    /\ \A t \in Threads : pc[t] \in HoldsSinks <=> sinks_mutex_ = t
    /\ \A t \in Threads : pc[t] = "addFileSinkPush" <=> file_sinks_mutex_ = t

(* A sink is pushed when its stream exists, and streams are erased when there *)
(* is no sink.                                                               *)
Streams ==
    /\ SinkHasStream
    /\ \A t \in Threads : pc[t] = "addFileSinkPush" => file_sinks_[arg[t].target] # "none"
    /\ \A t \in Threads : pc[t] \in {"removeStream", "clearStreams"} => sinks_ = <<>>

(* What a log() has still to call is the rest of sinks_. *)
Rest ==
    \A t \in Threads : pc[t] = "deliver" =>
        /\ Len(left[t]) <= Len(sinks_)
        /\ \A i \in 1..Len(left[t]) : left[t][i] = sinks_[Len(sinks_) - Len(left[t]) + i]

(* Every call of log() has an id of its own, nobody has a message that is not *)
(* being delivered yet, and nobody has anything after the one that is.       *)
Fresh ==
    /\ \A t, u \in Threads :
          t # u /\ pc[t] \in Logging /\ pc[u] \in Logging => arg[t].id # arg[u].id
    /\ \A t \in Threads : pc[t] = "log" =>
          \A f \in Targets : \A i \in 1..Len(written[f]) : written[f][i] # arg[t].id
    /\ \A t \in Threads : pc[t] = "deliver" =>
          \A f \in Targets : \A i, j \in 1..Len(written[f]) :
              i < j /\ written[f][i] = arg[t].id => written[f][j] = arg[t].id

IInv == Types /\ Locks /\ Streams /\ Rest /\ Delivered /\ Fresh /\ SameOrder

-----------------------------------------------------------------------------
LEMMA InitIInv == Init => IInv
<1> SUFFICES ASSUME Init PROVE IInv
  OBVIOUS
<1> USE DEF Init
<1>1. Types
  BY LoggerAssumption DEF Types, Argument, Steps, Logging
<1>2. Locks
  BY LoggerAssumption DEF Locks, HoldsSinks
<1>3. Streams
  BY DEF Streams, SinkHasStream
<1>4. Rest /\ Delivered /\ Fresh
  BY DEF Rest, Delivered, Fresh, Logging
<1>5. SameOrder
  BY DEF SameOrder
<1> QED BY <1>1, <1>2, <1>3, <1>4, <1>5, Zenon DEF IInv

(* The order of the messages is a matter of the files alone. *)
LEMMA OrderKept ==
    ASSUME SameOrder, written' = written
    PROVE  SameOrder'
BY DEF SameOrder

(* A step that leaves the targets' logs alone, and the messages being logged, *)
(* leaves their order alone.                                                 *)
LEMMA QuietOrder ==
    ASSUME Fresh, SameOrder, UNCHANGED written,
           \A u \in Threads : pc'[u] \in Logging => pc'[u] = pc[u] /\ arg'[u] = arg[u]
    PROVE  Fresh' /\ SameOrder'
<1>1. Fresh'
  BY DEF Fresh, Logging
<1> QED BY <1>1, OrderKept, Zenon

(* A step that leaves alone the sinks, and the streams they write to, spoils  *)
(* no delivery.                                                              *)
LEMMA QuietDelivery ==
    ASSUME Types, Rest, Delivered, UNCHANGED written,
           \A u \in Threads : pc'[u] = "deliver" =>
               /\ pc[u] = "deliver" /\ arg'[u] = arg[u] /\ left'[u] = left[u]
               /\ UNCHANGED sinks_
               /\ \A i \in 1..Len(sinks_) :
                     sinks_[i].target \in Files =>
                         file_sinks_'[sinks_[i].target] = file_sinks_[sinks_[i].target]
    PROVE  Rest' /\ Delivered'
<1>1. Rest'
  <2> SUFFICES ASSUME NEW t \in Threads, pc'[t] = "deliver"
               PROVE  /\ Len(left'[t]) <= Len(sinks_')
                      /\ \A i \in 1..Len(left'[t]) :
                            left'[t][i] = sinks_'[Len(sinks_') - Len(left'[t]) + i]
    BY Zenon DEF Rest
  <2>1. pc[t] = "deliver" /\ left'[t] = left[t] /\ sinks_' = sinks_
    BY Zenon
  <2> QED BY <2>1, Zenon DEF Rest
<1>2. Delivered'
  <2> SUFFICES ASSUME NEW t \in Threads, pc'[t] = "deliver",
                      NEW i \in 1..(Len(sinks_') - Len(left'[t])), Takes(sinks_[i], arg[t])'
               PROVE  \E k \in 1..Len(written'[sinks_'[i].target]) :
                          written'[sinks_'[i].target][k] = arg'[t].id
    BY Zenon DEF Delivered
  <2>1. /\ pc[t] = "deliver" /\ arg'[t] = arg[t] /\ left'[t] = left[t] /\ sinks_' = sinks_
        /\ Len(left[t]) \in Nat /\ Len(sinks_) \in Nat
    BY DEF Types
  <2>2. i \in 1..Len(sinks_) /\ sinks_[i] \in Sink
    BY <2>1 DEF Types
  <2>3. Takes(sinks_[i], arg[t])
    BY <2>1, <2>2 DEF Takes, Sink, Targets
  <2> QED BY <2>1, <2>3 DEF Delivered
<1> QED BY <1>1, <1>2

-----------------------------------------------------------------------------
(* The steps that begin a call. *)

LEMMA CallIInv ==
    ASSUME IInv, NEW t \in Threads, NEW step, NEW a, Call(t, step, a),
           \/ step = "addSink" /\ a \in Sink /\ a.target = Custom
           \/ step = "addFileSink" /\ a \in Sink /\ a.target \in Files
           \/ step = "removeFileSink" /\ a.target \in Files
           \/ step \in {"clearSinks", "flush"}
    PROVE  IInv'
<1> USE DEF IInv
<1>0. /\ pc[t] = "idle" /\ pc' = [pc EXCEPT ![t] = step] /\ arg' = [arg EXCEPT ![t] = a]
      /\ UNCHANGED <<level_, sinks_, file_sinks_, lockVars, written, left, logs>>
  BY Zenon DEF Call, Goto
<1>f. /\ pc'[t] = step /\ arg'[t] = a
      /\ \A u \in Threads \ {t} : pc'[u] = pc[u] /\ arg'[u] = arg[u]
      /\ UNCHANGED <<sinks_mutex_, file_sinks_mutex_>>
  BY <1>0, Zenon DEF Types, lockVars
<1>1. Types'
  <2>1. pc' \in [Threads -> Steps] /\ arg' = [u \in Threads |-> arg'[u]]
    BY <1>0, Zenon DEF Types, Steps
  <2>2. \A u \in Threads : Argument(u)'
    BY <1>0, <1>f DEF Types, Argument, Logging
  <2> QED BY <1>0, <2>1, <2>2, Zenon DEF Types
<1>2. Locks'
  BY <1>0, <1>f, LoggerAssumption DEF Locks, HoldsSinks
<1>3. Streams'
  BY <1>0, <1>f DEF Streams, SinkHasStream
<1>4. Rest' /\ Delivered'
  BY <1>0, <1>f, QuietDelivery
<1>5. Fresh' /\ SameOrder'
  BY <1>0, <1>f, QuietOrder DEF Logging
<1> QED BY <1>1, <1>2, <1>3, <1>4, <1>5

LEMMA logCallIInv ==
    ASSUME IInv, NEW t \in Threads, NEW l \in Levels, logCall(t, l)
    PROVE  IInv'
<1> USE DEF IInv
<1>0. /\ pc[t] = "idle" /\ pc' = [pc EXCEPT ![t] = "log"] /\ logs' = logs + 1
      /\ arg' = [arg EXCEPT ![t] = [id |-> logs + 1, level |-> l]]
      /\ UNCHANGED <<level_, sinks_, file_sinks_, lockVars, written, left>>
  BY DEF logCall, Goto
<1>f. /\ pc'[t] = "log" /\ arg'[t].id = logs + 1 /\ arg'[t].level = l
      /\ \A u \in Threads \ {t} : pc'[u] = pc[u] /\ arg'[u] = arg[u]
      /\ UNCHANGED <<sinks_mutex_, file_sinks_mutex_>>
  BY <1>0, Zenon DEF Types, lockVars
<1>1. Types'
  <2>1. pc' \in [Threads -> Steps] /\ arg' = [u \in Threads |-> arg'[u]]
    BY <1>0, Zenon DEF Types, Steps
  <2>2. \A u \in Threads : Argument(u)'
    BY <1>0, <1>f DEF Types, Argument, Logging
  <2>3. \A f \in Targets : \A i \in 1..Len(written'[f]) : written'[f][i] \in 1..logs'
    BY <1>0 DEF Types
  <2> QED BY <1>0, <2>1, <2>2, <2>3 DEF Types
<1>2. Locks'
  BY <1>0, <1>f, LoggerAssumption, Zenon DEF Locks, HoldsSinks
<1>3. Streams'
  BY <1>0, <1>f, Zenon DEF Streams, SinkHasStream
<1>4. Rest' /\ Delivered'
  BY <1>0, <1>f, QuietDelivery, Zenon
<1>5. Fresh'
  <2>1. \A u \in Threads : pc[u] \in Logging => arg[u].id # logs + 1
    BY DEF Types, Argument
  <2>2. \A f \in Targets : \A i \in 1..Len(written[f]) : written[f][i] # logs + 1
    BY DEF Types
  <2>3. \A u \in Threads : pc'[u] \in Logging => u = t \/ pc[u] \in Logging
    BY <1>f, Zenon
  <2>4. \A u, v \in Threads :
          u # v /\ pc'[u] \in Logging /\ pc'[v] \in Logging => arg'[u].id # arg'[v].id
    BY <1>f, <2>1, <2>3 DEF Fresh
  <2>5. written' = written
    BY <1>0, Zenon
  <2>6. \A u \in Threads : pc'[u] = "log" =>
          \A f \in Targets : \A i \in 1..Len(written'[f]) : written'[f][i] # arg'[u].id
    BY <1>f, <2>2, <2>5 DEF Fresh
  <2>7. \A u \in Threads : pc'[u] = "deliver" =>
          \A f \in Targets : \A i, j \in 1..Len(written'[f]) :
              i < j /\ written'[f][i] = arg'[u].id => written'[f][j] = arg'[u].id
    BY <1>f, <2>5 DEF Fresh
  <2> QED BY <2>4, <2>6, <2>7, Zenon DEF Fresh
<1>6. SameOrder'
  <2>1. written' = written
    BY <1>0
  <2> QED BY <2>1, OrderKept, Zenon
<1> QED BY <1>1, <1>2, <1>3, <1>4, <1>5, <1>6, Zenon

LEMMA setLevelIInv ==
    ASSUME IInv, NEW t \in Threads, NEW l \in Levels, setLevel(t, l)
    PROVE  IInv'
<1> USE DEF IInv
<1>0. /\ level_' = l
      /\ UNCHANGED <<sinks_, file_sinks_, sinks_mutex_, file_sinks_mutex_, written, pc, arg, left, logs>>
  BY Zenon DEF setLevel, lockVars, threadVars
<1>1. Types'
  BY <1>0, Zenon DEF Types, Argument
<1>2. Locks' /\ Streams'
  BY <1>0, Zenon DEF Locks, Streams, SinkHasStream
<1>3. Rest' /\ Delivered'
  BY <1>0, QuietDelivery, Zenon
<1>4. Fresh' /\ SameOrder'
  BY <1>0, QuietOrder, Zenon
<1> QED BY <1>1, <1>2, <1>3, <1>4, Zenon

LEMMA resetInstanceIInv ==
    ASSUME IInv, resetInstance
    PROVE  IInv'
<1> USE DEF IInv
<1>0. /\ \A t \in Threads : pc[t] = "idle"
      /\ level_' = INFO /\ sinks_' = <<>> /\ file_sinks_' = [f \in Files |-> "none"]
      /\ UNCHANGED <<sinks_mutex_, file_sinks_mutex_, written, pc, arg, left, logs>>
  BY Zenon DEF resetInstance, lockVars, threadVars
<1>1. Types'
  BY <1>0, LoggerAssumption DEF Types, Argument
<1>2. Locks'
  BY <1>0, Zenon DEF Locks
<1>3. Streams'
  BY <1>0 DEF Streams, SinkHasStream
<1>4. Rest' /\ Delivered'
  BY <1>0, QuietDelivery, Zenon
<1>5. Fresh' /\ SameOrder'
  BY <1>0, QuietOrder, Zenon
<1> QED BY <1>1, <1>2, <1>3, <1>4, <1>5, Zenon

-----------------------------------------------------------------------------
(* The steps that change the sinks. *)

(* What the threads' variables are after a call has returned. *)
LEMMA Returned ==
    ASSUME Types, NEW t \in Threads, Return(t), UNCHANGED logs
    PROVE  /\ pc'[t] = "idle"
           /\ \A u \in Threads \ {t} : pc'[u] = pc[u] /\ arg'[u] = arg[u] /\ left'[u] = left[u]
           /\ pc' \in [Threads -> Steps] /\ arg' = [u \in Threads |-> arg'[u]]
           /\ left' \in [Threads -> Seq(Sink)]
           /\ \A u \in Threads : Argument(u)'
<1> USE DEF Return, Goto
<1>1. pc' = [pc EXCEPT ![t] = "idle"] /\ arg' = [arg EXCEPT ![t] = Nothing]
      /\ left' = [left EXCEPT ![t] = <<>>]
  BY Zenon
<1>2. /\ pc'[t] = "idle"
      /\ \A u \in Threads \ {t} : pc'[u] = pc[u] /\ arg'[u] = arg[u] /\ left'[u] = left[u]
  BY <1>1, Zenon DEF Types
<1>3. pc' \in [Threads -> Steps]
  BY <1>1, Zenon DEF Types, Steps
<1>4. arg' = [u \in Threads |-> arg'[u]]
  BY <1>1, Zenon DEF Types
<1>5. left' \in [Threads -> Seq(Sink)]
  BY <1>1 DEF Types
<1>6. \A u \in Threads : Argument(u)'
  BY <1>2 DEF Types, Argument, Logging
<1> QED BY <1>2, <1>3, <1>4, <1>5, <1>6, Zenon

(* A sink is appended, with nobody delivering, if its stream exists. *)
LEMMA AppendSink ==
    ASSUME Types, Locks, SinkHasStream, NEW a \in Sink, sinks_' = Append(sinks_, a),
           UNCHANGED file_sinks_, a.target \in Files => file_sinks_[a.target] # "none"
    PROVE  sinks_' \in Seq(Sink) /\ SinkHasStream'
<1>1. /\ sinks_' \in Seq(Sink) /\ Len(sinks_) \in Nat /\ Len(sinks_') = Len(sinks_) + 1
      /\ sinks_'[Len(sinks_) + 1] = a
      /\ \A i \in 1..Len(sinks_) : sinks_'[i] = sinks_[i]
  BY DEF Types
<1>2. SinkHasStream'
  <2> SUFFICES ASSUME NEW i \in 1..Len(sinks_'), sinks_'[i].target \in Files
               PROVE  file_sinks_'[sinks_'[i].target] # "none"
    BY Zenon DEF SinkHasStream
  <2>1. CASE i = Len(sinks_) + 1
    BY <1>1, <2>1, Zenon
  <2>2. CASE i \in 1..Len(sinks_)
    BY <1>1, <2>2, Zenon DEF SinkHasStream
  <2> QED BY <1>1, <2>1, <2>2
<1> QED BY <1>1, <1>2

LEMMA addSinkIInv ==
    ASSUME IInv, NEW t \in Threads, addSink(t)
    PROVE  IInv'
<1> USE DEF IInv
<1>0. /\ pc[t] = "addSink" /\ sinks_mutex_ = NoThread
      /\ sinks_' = Append(sinks_, arg[t]) /\ Return(t)
      /\ UNCHANGED <<level_, file_sinks_, sinks_mutex_, file_sinks_mutex_, written, logs>>
  BY Zenon DEF addSink, lockVars
<1>f. /\ pc'[t] = "idle"
      /\ \A u \in Threads \ {t} : pc'[u] = pc[u] /\ arg'[u] = arg[u] /\ left'[u] = left[u]
      /\ pc' \in [Threads -> Steps] /\ arg' = [u \in Threads |-> arg'[u]]
      /\ left' \in [Threads -> Seq(Sink)]
      /\ \A u \in Threads : Argument(u)'
  BY <1>0, Returned, Zenon
<1>n. \A u \in Threads : pc[u] \notin HoldsSinks
  BY <1>0, LoggerAssumption, Zenon DEF Locks
<1>a. arg[t] \in Sink /\ arg[t].target \notin Files
  BY <1>0, LoggerAssumption, Zenon DEF Types, Argument
<1>s. sinks_' \in Seq(Sink) /\ SinkHasStream'
  BY <1>0, <1>a, AppendSink, Zenon DEF Streams
<1>1. Types'
  BY <1>0, <1>f, <1>s, Zenon DEF Types
<1>2. Locks'
  BY <1>0, <1>f, LoggerAssumption, Zenon DEF Locks, HoldsSinks
<1>3. Streams'
  BY <1>0, <1>f, <1>s, <1>n, ZenonT(30) DEF Streams, HoldsSinks
<1>4. Rest' /\ Delivered'
  BY <1>0, <1>f, <1>n, QuietDelivery DEF HoldsSinks
<1>5. Fresh' /\ SameOrder'
  BY <1>0, <1>f, QuietOrder, Zenon DEF Logging
<1> QED BY <1>1, <1>2, <1>3, <1>4, <1>5, Zenon

LEMMA addFileSinkPushIInv ==
    ASSUME IInv, NEW t \in Threads, addFileSinkPush(t)
    PROVE  IInv'
<1> USE DEF IInv
<1>0. /\ pc[t] = "addFileSinkPush" /\ sinks_mutex_ = NoThread /\ sinks_' = Append(sinks_, arg[t])
      /\ file_sinks_mutex_' = NoThread /\ Return(t)
      /\ UNCHANGED <<level_, file_sinks_, sinks_mutex_, written, logs>>
  BY Zenon DEF addFileSinkPush
<1>f. /\ pc'[t] = "idle"
      /\ \A u \in Threads \ {t} : pc'[u] = pc[u] /\ arg'[u] = arg[u] /\ left'[u] = left[u]
      /\ pc' \in [Threads -> Steps] /\ arg' = [u \in Threads |-> arg'[u]]
      /\ left' \in [Threads -> Seq(Sink)]
      /\ \A u \in Threads : Argument(u)'
  BY <1>0, Returned, Zenon
<1>n. \A u \in Threads : pc[u] \notin HoldsSinks
  BY <1>0, LoggerAssumption, Zenon DEF Locks
<1>a. arg[t] \in Sink /\ file_sinks_[arg[t].target] # "none"
  BY <1>0, Zenon DEF Types, Argument, Streams
<1>s. sinks_' \in Seq(Sink) /\ SinkHasStream'
  BY <1>0, <1>a, AppendSink, Zenon DEF Streams
<1>1. Types'
  BY <1>0, <1>f, <1>s, Zenon DEF Types
<1>2. Locks'
  BY <1>0, <1>f, LoggerAssumption, Zenon DEF Locks, HoldsSinks
<1>3. Streams'
  BY <1>0, <1>f, <1>s, <1>n, ZenonT(30) DEF Streams, HoldsSinks
<1>4. Rest' /\ Delivered'
  BY <1>0, <1>f, <1>n, QuietDelivery DEF HoldsSinks
<1>5. Fresh' /\ SameOrder'
  BY <1>0, <1>f, QuietOrder, Zenon DEF Logging
<1> QED BY <1>1, <1>2, <1>3, <1>4, <1>5

(* A call returns that has opened no stream but one that did not exist. *)
LEMMA AbortIInv ==
    ASSUME IInv, NEW t \in Threads, pc[t] \notin HoldsSinks, pc[t] # "addFileSinkPush", Return(t),
           file_sinks_' \in [Files -> {"none", "open", "closed"}],
           \A f \in Files : file_sinks_[f] # "none" => file_sinks_'[f] = file_sinks_[f],
           UNCHANGED <<level_, sinks_, sinks_mutex_, file_sinks_mutex_, written, logs>>
    PROVE  IInv'
<1> USE DEF IInv
<1>0. Return(t) /\ UNCHANGED logs
  BY Zenon
<1>f. /\ pc'[t] = "idle"
      /\ \A u \in Threads \ {t} : pc'[u] = pc[u] /\ arg'[u] = arg[u] /\ left'[u] = left[u]
      /\ pc' \in [Threads -> Steps] /\ arg' = [u \in Threads |-> arg'[u]]
      /\ left' \in [Threads -> Seq(Sink)]
      /\ \A u \in Threads : Argument(u)'
  BY <1>0, Returned, Zenon
<1>1. Types'
  BY <1>f, Zenon DEF Types
<1>2. Locks'
  BY <1>f, Zenon DEF Locks, HoldsSinks
<1>3. Streams'
  <2>1. \A u \in Threads :
          pc'[u] = "addFileSinkPush" =>
              pc[u] = "addFileSinkPush" /\ arg'[u] = arg[u] /\ arg[u].target \in Files
    BY <1>f DEF Types, Argument
  <2>2. \A u \in Threads : pc'[u] \in {"removeStream", "clearStreams"} => pc'[u] = pc[u]
    BY <1>f
  <2> QED BY <2>1, <2>2 DEF Streams, SinkHasStream
<1>4. Rest' /\ Delivered'
  BY <1>f, QuietDelivery DEF Streams, SinkHasStream
<1>5. Fresh' /\ SameOrder'
  BY <1>f, QuietOrder DEF Logging
<1> QED BY <1>1, <1>2, <1>3, <1>4, <1>5, Zenon

LEMMA addFileSinkIInv ==
    ASSUME IInv, NEW t \in Threads, addFileSink(t)
    PROVE  IInv'
<1> USE DEF IInv
<1> DEFINE f == arg[t].target
<1>0. /\ pc[t] = "addFileSink" /\ file_sinks_mutex_ = NoThread
      /\ UNCHANGED <<level_, sinks_, sinks_mutex_, written, logs>>
  BY Zenon DEF addFileSink
<1>a. f \in Files /\ arg[t] \in Sink
  BY <1>0, Zenon DEF Types, Argument
<1>1. CASE Return(t) /\ UNCHANGED <<file_sinks_, file_sinks_mutex_>>
  BY <1>0, <1>1, AbortIInv, Zenon DEF HoldsSinks, Types
<1>2. CASE /\ file_sinks_[f] = "none" /\ file_sinks_' = [file_sinks_ EXCEPT ![f] = "closed"]
           /\ Return(t) /\ UNCHANGED file_sinks_mutex_
  <2>1. /\ file_sinks_' \in [Files -> {"none", "open", "closed"}]
        /\ \A g \in Files : file_sinks_[g] # "none" => file_sinks_'[g] = file_sinks_[g]
    BY <1>2, <1>a DEF Types
  <2> QED BY <1>0, <1>2, <2>1, AbortIInv DEF HoldsSinks
<1>3. CASE /\ file_sinks_' = [file_sinks_ EXCEPT ![f] = IF @ = "none" THEN "open" ELSE @]
           /\ file_sinks_mutex_' = t /\ Goto(t, "addFileSinkPush") /\ UNCHANGED <<arg, left>>
  <2>1. /\ pc' \in [Threads -> Steps] /\ pc'[t] = "addFileSinkPush"
        /\ \A u \in Threads \ {t} : pc'[u] = pc[u]
    BY <1>3, Zenon DEF Goto, Types, Steps
  <2>2. /\ file_sinks_' \in [Files -> {"none", "open", "closed"}] /\ file_sinks_'[f] # "none"
        /\ \A g \in Files : file_sinks_[g] # "none" => file_sinks_'[g] = file_sinks_[g]
    BY <1>3, <1>a, Zenon DEF Types
  <2>3. Types'
    <3>1. \A u \in Threads : Argument(u)'
      BY <1>0, <1>3, <1>a, <2>1, Zenon DEF Types, Argument, Logging
    <3> QED BY <1>0, <1>3, <2>1, <2>2, <3>1, Zenon DEF Types
  <2>4. Locks'
    BY <1>0, <1>3, <2>1, LoggerAssumption, Zenon DEF Locks, HoldsSinks
  <2>5. Streams'
    <3>1. \A u \in Threads :
            pc'[u] = "addFileSinkPush" => u = t
      BY <1>0, <2>1, LoggerAssumption, Zenon DEF Locks
    <3>2. \A u \in Threads : pc'[u] \in {"removeStream", "clearStreams"} => pc'[u] = pc[u]
      BY <2>1, Zenon
    <3> QED BY <1>0, <1>3, <2>2, <3>1, <3>2, Zenon DEF Streams, SinkHasStream
  <2>6. Rest' /\ Delivered'
    BY <1>0, <1>3, <2>1, <2>2, QuietDelivery, Zenon DEF Streams, SinkHasStream
  <2>7. Fresh' /\ SameOrder'
    BY <1>0, <1>3, <2>1, QuietOrder, Zenon DEF Logging
  <2> QED BY <2>3, <2>4, <2>5, <2>6, <2>7
<1> QED BY <1>1, <1>2, <1>3, Zenon DEF addFileSink

LEMMA flushIInv ==
    ASSUME IInv, NEW t \in Threads, flush(t)
    PROVE  IInv'
BY AbortIInv, Zenon DEF flush, HoldsSinks, lockVars, IInv, Types

LEMMA ClearSinksIInv ==
    ASSUME IInv, NEW t \in Threads, NEW step, NEW next, ClearSinks(t, step, next),
           \/ step = "removeFileSink" /\ next = "removeStream"
           \/ step = "clearSinks" /\ next = "clearStreams"
    PROVE  IInv'
<1> USE DEF IInv
<1>0. /\ pc[t] = step /\ sinks_mutex_ = NoThread /\ sinks_mutex_' = t /\ sinks_' = <<>>
      /\ pc' = [pc EXCEPT ![t] = next]
      /\ UNCHANGED <<level_, file_sinks_, file_sinks_mutex_, written, arg, left, logs>>
  BY Zenon DEF ClearSinks, Goto
<1>f. /\ pc' \in [Threads -> Steps] /\ pc'[t] = next
      /\ \A u \in Threads \ {t} : pc'[u] = pc[u]
  BY <1>0, Zenon DEF Types, Steps
<1>n. \A u \in Threads : pc[u] \notin HoldsSinks
  BY <1>0, LoggerAssumption, Zenon DEF Locks
<1>1. Types'
  <2>1. \A u \in Threads : Argument(u)'
    BY <1>0, <1>f, Zenon DEF Types, Argument, Logging
  <2> QED BY <1>0, <1>f, <2>1 DEF Types
<1>2. Locks'
  BY <1>0, <1>f, <1>n, LoggerAssumption, Zenon DEF Locks, HoldsSinks
<1>3. Streams'
  BY <1>0, <1>f DEF Streams, SinkHasStream
<1>4. Rest' /\ Delivered'
  BY <1>0, <1>f, <1>n, QuietDelivery, Zenon DEF HoldsSinks
<1>5. Fresh' /\ SameOrder'
  BY <1>0, <1>f, QuietOrder, Zenon DEF Logging
<1> QED BY <1>1, <1>2, <1>3, <1>4, <1>5

LEMMA EraseStreamsIInv ==
    ASSUME IInv, NEW t \in Threads, NEW step \in {"removeStream", "clearStreams"}, NEW files,
           EraseStreams(t, step, files)
    PROVE  IInv'
<1> USE DEF IInv
<1>0. /\ pc[t] = step /\ file_sinks_mutex_ = NoThread /\ sinks_mutex_' = NoThread /\ Return(t)
      /\ file_sinks_' = [f \in Files |-> IF f \in files THEN "none" ELSE file_sinks_[f]]
      /\ UNCHANGED <<level_, sinks_, file_sinks_mutex_, written, logs>>
  BY Zenon DEF EraseStreams
<1>f. /\ pc'[t] = "idle"
      /\ \A u \in Threads \ {t} : pc'[u] = pc[u] /\ arg'[u] = arg[u] /\ left'[u] = left[u]
      /\ pc' \in [Threads -> Steps] /\ arg' = [u \in Threads |-> arg'[u]]
      /\ left' \in [Threads -> Seq(Sink)]
      /\ \A u \in Threads : Argument(u)'
  BY <1>0, Returned, Zenon
<1>n. \A u \in Threads \ {t} : pc[u] \notin HoldsSinks
  BY <1>0, Zenon DEF Locks, HoldsSinks
<1>1. Types'
  BY <1>0, <1>f, Zenon DEF Types
<1>2. Locks'
  BY <1>0, <1>f, <1>n, LoggerAssumption, ZenonT(30) DEF Locks, HoldsSinks
<1>3. Streams'
  <2>1. sinks_' = <<>>
    BY <1>0, Zenon DEF Streams
  <2>2. \A u \in Threads : pc'[u] # "addFileSinkPush"
    BY <1>0, <1>f, LoggerAssumption, Zenon DEF Locks
  <2> QED BY <2>1, <2>2 DEF Streams, SinkHasStream
<1>4. Rest' /\ Delivered'
  BY <1>0, <1>f, <1>n, QuietDelivery DEF HoldsSinks
<1>5. Fresh' /\ SameOrder'
  BY <1>0, <1>f, QuietOrder DEF Logging
<1> QED BY <1>1, <1>2, <1>3, <1>4, <1>5, Zenon

-----------------------------------------------------------------------------
(* The steps of log(). *)

LEMMA LogEndIInv ==
    ASSUME IInv, NEW t \in Threads, LogEnd(t)
    PROVE  IInv'
<1> USE DEF IInv
<1>0. /\ pc[t] = "deliver" /\ sinks_mutex_' = NoThread /\ Return(t)
      /\ UNCHANGED <<level_, sinks_, file_sinks_, file_sinks_mutex_, written, logs>>
  BY DEF LogEnd
<1>f. /\ pc'[t] = "idle"
      /\ \A u \in Threads \ {t} : pc'[u] = pc[u] /\ arg'[u] = arg[u] /\ left'[u] = left[u]
      /\ pc' \in [Threads -> Steps] /\ arg' = [u \in Threads |-> arg'[u]]
      /\ left' \in [Threads -> Seq(Sink)]
      /\ \A u \in Threads : Argument(u)'
  BY <1>0, Returned, Zenon
<1>n. \A u \in Threads \ {t} : pc[u] \notin HoldsSinks
  BY <1>0, Zenon DEF Locks, HoldsSinks
<1>1. Types'
  BY <1>0, <1>f, Zenon DEF Types
<1>2. Locks'
  BY <1>0, <1>f, <1>n, LoggerAssumption, Zenon DEF Locks, HoldsSinks
<1>3. Streams'
  BY <1>0, <1>f, Zenon DEF Streams, SinkHasStream
<1>4. Rest' /\ Delivered'
  BY <1>0, <1>f, <1>n, QuietDelivery DEF HoldsSinks
<1>5. Fresh' /\ SameOrder'
  BY <1>0, <1>f, QuietOrder, Zenon DEF Logging
<1> QED BY <1>1, <1>2, <1>3, <1>4, <1>5

LEMMA LogLockIInv ==
    ASSUME IInv, NEW t \in Threads, LogLock(t)
    PROVE  IInv'
<1> USE DEF IInv
<1>0. /\ pc[t] = "log" /\ sinks_mutex_ = NoThread /\ sinks_mutex_' = t
      /\ left' = [left EXCEPT ![t] = sinks_] /\ pc' = [pc EXCEPT ![t] = "deliver"]
      /\ UNCHANGED <<level_, sinks_, file_sinks_, file_sinks_mutex_, written, arg, logs>>
  BY Zenon DEF LogLock, Goto
<1>f. /\ pc' \in [Threads -> Steps] /\ pc'[t] = "deliver"
      /\ left' \in [Threads -> Seq(Sink)] /\ left'[t] = sinks_
      /\ \A u \in Threads \ {t} : pc'[u] = pc[u]
  BY <1>0, Zenon DEF Types, Steps
<1>n. \A u \in Threads : pc[u] \notin HoldsSinks
  BY <1>0, LoggerAssumption DEF Locks
<1>d. \A u \in Threads : pc'[u] = "deliver" => u = t
  BY <1>f, <1>n, Zenon DEF HoldsSinks
<1>1. Types'
  <2>1. \A u \in Threads : Argument(u)'
    BY <1>0, <1>f, Zenon DEF Types, Argument, Logging
  <2> QED BY <1>0, <1>f, <2>1, Zenon DEF Types
<1>2. Locks'
  BY <1>0, <1>f, <1>n, LoggerAssumption, Zenon DEF Locks, HoldsSinks
<1>3. Streams'
  BY <1>0, <1>f, Zenon DEF Streams, SinkHasStream
<1>4. Rest' /\ Delivered'
  <2>1. Len(sinks_) \in Nat /\ sinks_' = sinks_
    BY <1>0 DEF Types
  <2>2. Rest'
    BY <1>f, <1>d, <2>1 DEF Rest
  <2>3. Delivered'
    BY <1>f, <1>d, <2>1 DEF Delivered
  <2> QED BY <2>2, <2>3, Zenon
<1>5. Fresh'
  <2>1. \A f \in Targets : \A i \in 1..Len(written[f]) : written[f][i] # arg[t].id
    BY <1>0 DEF Fresh
  <2>2. \A u \in Threads : pc'[u] \in Logging => pc[u] \in Logging
    BY <1>0, <1>f DEF Logging
  <2>3. \A u \in Threads : pc'[u] = "log" => pc[u] = "log"
    BY <1>0, <1>f
  <2>4. written' = written /\ arg' = arg
    BY <1>0, Zenon
  <2>5. \A u, v \in Threads :
          u # v /\ pc'[u] \in Logging /\ pc'[v] \in Logging => arg'[u].id # arg'[v].id
    BY <2>2, <2>4 DEF Fresh
  <2>6. \A u \in Threads : pc'[u] = "log" =>
          \A f \in Targets : \A i \in 1..Len(written'[f]) : written'[f][i] # arg'[u].id
    BY <2>3, <2>4 DEF Fresh
  <2>7. \A u \in Threads : pc'[u] = "deliver" =>
          \A f \in Targets : \A i, j \in 1..Len(written'[f]) :
              i < j /\ written'[f][i] = arg'[u].id => written'[f][j] = arg'[u].id
    BY <1>d, <2>1, <2>4
  <2> QED BY <2>5, <2>6, <2>7, Zenon DEF Fresh
<1>6. SameOrder'
  <2>1. written' = written
    BY <1>0
  <2> QED BY <2>1, OrderKept, Zenon
<1> QED BY <1>1, <1>2, <1>3, <1>4, <1>5, <1>6, Zenon

(* A target's log grows by the message that is being delivered, which is the  *)
(* last one everywhere: the targets still agree on the order.                *)
LEMMA AppendOrder ==
    ASSUME Types, SameOrder, NEW m \in Nat, NEW g \in Targets,
           \A f \in Targets : \A i, j \in 1..Len(written[f]) :
               i < j /\ written[f][i] = m => written[f][j] = m,
           written' = [written EXCEPT ![g] = Append(@, m)]
    PROVE  /\ SameOrder'
           /\ \A f \in Targets : \A i, j \in 1..Len(written'[f]) :
                 i < j /\ written'[f][i] = m => written'[f][j] = m
<1>1. /\ Len(written[g]) \in Nat /\ Len(written'[g]) = Len(written[g]) + 1
      /\ written'[g][Len(written[g]) + 1] = m
      /\ \A i \in 1..Len(written[g]) : written'[g][i] = written[g][i]
      /\ \A f \in Targets \ {g} : written'[f] = written[f]
      /\ \A f \in Targets : Len(written[f]) \in Nat
  BY DEF Types
(* An entry of a new log is one of the old log, or m at its end. *)
<1>2. \A f \in Targets : \A i \in 1..Len(written'[f]) :
        \/ i \in 1..Len(written[f]) /\ written'[f][i] = written[f][i]
        \/ /\ f = g /\ i = Len(written[g]) + 1 /\ written'[f][i] = m
           /\ \A j \in 1..Len(written'[f]) : j <= i
  BY <1>1
<1>3. \A f \in Targets : \A i, j \in 1..Len(written'[f]) :
        i < j /\ written'[f][i] = m => written'[f][j] = m
  BY <1>1, <1>2
<1>4. SameOrder'
  <2> SUFFICES ASSUME NEW e \in Targets, NEW f \in Targets
               PROVE  \A i, j \in 1..Len(written'[e]) : \A k, l \in 1..Len(written'[f]) :
                        i < j /\ written'[e][i] # written'[e][j]
                           /\ written'[e][i] = written'[f][k] /\ written'[e][j] = written'[f][l]
                        => k < l
    BY Zenon DEF SameOrder
  <2> TAKE i, j \in 1..Len(written'[e])
  <2> TAKE k, l \in 1..Len(written'[f])
  <2> HAVE i < j /\ written'[e][i] # written'[e][j]
             /\ written'[e][i] = written'[f][k] /\ written'[e][j] = written'[f][l]
  <2>1. k \in Nat /\ l \in Nat /\ k # l /\ i \in Nat /\ j \in Nat
    BY <1>1
  <2>2. written'[e][i] # m
    BY <1>3, Zenon
  <2>3. i \in 1..Len(written[e]) /\ written'[e][i] = written[e][i]
    BY <1>2, <2>2, Zenon
  <2>4. k \in 1..Len(written[f]) /\ written'[f][k] = written[f][k]
    BY <1>2, <2>2, Zenon
  <2>5. CASE written'[e][j] = m
    <3>1. l < k => written'[f][k] = m
      BY <1>3, <2>5, Zenon
    <3>2. ~(l < k)
      BY <2>2, <3>1, Zenon
    <3> QED BY <2>1, <3>2
  <2>6. CASE written'[e][j] # m
    <3>1. j \in 1..Len(written[e]) /\ written'[e][j] = written[e][j]
      BY <1>2, <2>6, Zenon
    <3>2. l \in 1..Len(written[f]) /\ written'[f][l] = written[f][l]
      BY <1>2, <2>6, Zenon
    <3> QED BY <2>3, <2>4, <3>1, <3>2 DEF SameOrder
  <2> QED BY <2>5, <2>6, Zenon
<1> QED BY <1>3, <1>4, Zenon

(* What log() takes from the front of the sinks it has still to call. *)
LEMMA HeadAndTail ==
    ASSUME NEW S, NEW s \in Seq(S), s # <<>>
    PROVE  /\ Len(s) \in Nat \ {0} /\ Tail(s) \in Seq(S) /\ Len(Tail(s)) = Len(s) - 1
           /\ \A i \in 1..Len(Tail(s)) : Tail(s)[i] = s[i + 1]
           /\ Head(s) = s[1] /\ Head(s) \in S
OBVIOUS

LEMMA DeliverIInv ==
    ASSUME IInv, NEW t \in Threads, Deliver(t)
    PROVE  IInv'
<1> USE DEF IInv
<1> DEFINE sink == Head(left[t])
           n == Len(sinks_) - Len(left[t]) + 1
           m == arg[t].id
<1>0. /\ pc[t] = "deliver" /\ left[t] # <<>> /\ left' = [left EXCEPT ![t] = Tail(@)]
      /\ written' = IF Takes(sink, arg[t])
                    THEN [written EXCEPT ![sink.target] = Append(@, m)] ELSE written
      /\ UNCHANGED <<level_, sinks_, file_sinks_, sinks_mutex_, file_sinks_mutex_, pc, arg, logs>>
  BY Zenon DEF Deliver, lockVars
<1>d. \A u \in Threads : pc[u] = "deliver" => u = t
  BY <1>0, Zenon DEF Locks, HoldsSinks
<1>m. m \in 1..logs /\ m \in Nat
  BY <1>0 DEF Types, Argument, Logging
<1>l. /\ left[t] \in Seq(Sink) /\ Len(left[t]) \in Nat \ {0} /\ Len(sinks_) \in Nat
      /\ left' \in [Threads -> Seq(Sink)] /\ left'[t] = Tail(left[t])
      /\ Len(left'[t]) = Len(left[t]) - 1
      /\ \A i \in 1..Len(left'[t]) : left'[t][i] = left[t][i + 1]
      /\ sink = left[t][1] /\ sink \in Sink
  <2>1. /\ left[t] \in Seq(Sink) /\ Len(sinks_) \in Nat
        /\ left' \in [Threads -> Seq(Sink)] /\ left'[t] = Tail(left[t])
    <3>1. left \in [Threads -> Seq(Sink)] /\ sinks_ \in Seq(Sink)
      BY Zenon DEF Types
    <3>2. left[t] \in Seq(Sink) /\ left[t] # <<>>
      BY <1>0, <3>1, Zenon
    <3>3. Tail(left[t]) \in Seq(Sink)
      BY <3>2, HeadAndTail, Zenon
    <3>4. left' = [left EXCEPT ![t] = Tail(left[t])]
      BY <1>0, Zenon
    <3>5. left' \in [Threads -> Seq(Sink)] /\ left'[t] = Tail(left[t])
      BY <3>1, <3>3, <3>4, Zenon
    <3>6. Len(sinks_) \in Nat
      BY <3>1
    <3> QED BY <3>2, <3>5, <3>6, Zenon
  <2>2. left[t] # <<>>
    BY <1>0, Zenon
  <2> QED BY <2>1, <2>2, HeadAndTail, Zenon
<1>k. /\ Len(left[t]) \in Nat /\ Len(left'[t]) \in Nat /\ Len(sinks_) \in Nat
      /\ Len(left'[t]) = Len(left[t]) - 1 /\ Len(left[t]) <= Len(sinks_)
  <2>1. Len(left[t]) <= Len(sinks_)
    BY <1>0, Zenon DEF Rest
  <2> QED BY <1>l, <2>1
<1>s. sink = sinks_[n] /\ n \in 1..Len(sinks_) /\ sink.target \in Targets
  <2>1. \A i \in 1..Len(left[t]) : left[t][i] = sinks_[Len(sinks_) - Len(left[t]) + i]
    BY <1>0, Zenon DEF Rest
  <2>2. 1 \in 1..Len(left[t]) /\ n \in 1..Len(sinks_)
    BY <1>k, <1>l
  <2>3. sink.target \in Targets
    BY <1>l, Zenon DEF Sink
  <2> QED BY <1>l, <2>1, <2>2, <2>3, Zenon
<1> HIDE DEF sink, n, m
<1>w. /\ written' \in [Targets -> Seq(Nat)]
      /\ \A f \in Targets :
            /\ Len(written[f]) \in Nat /\ Len(written'[f]) \in Nat
            /\ Len(written[f]) <= Len(written'[f])
            /\ \A i \in 1..Len(written[f]) : written'[f][i] = written[f][i]
            /\ \A i \in 1..Len(written'[f]) : i \in 1..Len(written[f]) \/ written'[f][i] = m
      /\ Takes(sink, arg[t]) =>
            \E k \in 1..Len(written'[sink.target]) : written'[sink.target][k] = m
  <2>1. CASE Takes(sink, arg[t])
    <3>1. written' = [written EXCEPT ![sink.target] = Append(@, m)]
      BY <1>0, <2>1, Zenon DEF m
    <3>2. written' \in [Targets -> Seq(Nat)]
      BY <1>s, <1>m, <3>1 DEF Types
    <3>3. /\ Len(written'[sink.target]) = Len(written[sink.target]) + 1
          /\ Len(written[sink.target]) \in Nat
          /\ written'[sink.target][Len(written[sink.target]) + 1] = m
          /\ \A i \in 1..Len(written[sink.target]) :
                written'[sink.target][i] = written[sink.target][i]
          /\ \A f \in Targets \ {sink.target} : written'[f] = written[f]
          /\ \A f \in Targets : Len(written[f]) \in Nat
      BY <1>s, <1>m, <3>1 DEF Types
    <3>4. \A f \in Targets :
            /\ Len(written[f]) \in Nat /\ Len(written'[f]) \in Nat
            /\ Len(written[f]) <= Len(written'[f])
            /\ \A i \in 1..Len(written[f]) : written'[f][i] = written[f][i]
            /\ \A i \in 1..Len(written'[f]) : i \in 1..Len(written[f]) \/ written'[f][i] = m
      <4> TAKE f \in Targets
      <4>1. CASE f = sink.target
        BY <3>3, <4>1
      <4>2. CASE f # sink.target
        BY <3>3, <4>2
      <4> QED BY <4>1, <4>2, Zenon
    <3>5. Len(written[sink.target]) + 1 \in 1..Len(written'[sink.target])
      BY <3>3
    <3> QED BY <3>2, <3>3, <3>4, <3>5, Zenon
  <2>2. CASE ~ Takes(sink, arg[t])
    <3>1. written' = written
      BY <1>0, <2>2, Zenon
    <3> QED BY <2>2, <3>1 DEF Types
  <2> QED BY <2>1, <2>2
<1>1. Types'
  <2>1. \A f \in Targets : \A i \in 1..Len(written'[f]) : written'[f][i] \in 1..logs'
    BY <1>0, <1>m, <1>w, SMTT(20) DEF Types
  <2>2. \A u \in Threads : Argument(u)'
    BY <1>0 DEF Types, Argument
  <2> QED BY <1>0, <1>l, <1>w, <2>1, <2>2, Zenon DEF Types
<1>2. Locks'
  BY <1>0, Zenon DEF Locks
<1>3. Streams'
  BY <1>0, Zenon DEF Streams, SinkHasStream
<1>4. Rest'
  <2>2. \A i \in 1..Len(left'[t]) : left'[t][i] = sinks_[Len(sinks_) - Len(left'[t]) + i]
    <3> TAKE i \in 1..Len(left'[t])
    <3>1. i + 1 \in 1..Len(left[t]) /\ left'[t][i] = left[t][i + 1]
      BY <1>l
    <3>2. left[t][i + 1] = sinks_[Len(sinks_) - Len(left[t]) + (i + 1)]
      BY <1>0, <3>1, Zenon DEF Rest
    <3>3. Len(sinks_) - Len(left[t]) + (i + 1) = Len(sinks_) - Len(left'[t]) + i
      BY <1>k
    <3> QED BY <3>1, <3>2, <3>3, Zenon
  <2>3. Len(left'[t]) <= Len(sinks_)
    BY <1>k
  <2> QED BY <1>0, <1>d, <2>2, <2>3, Zenon DEF Rest
<1>5. Delivered'
  <2>a. UNCHANGED <<sinks_, file_sinks_, arg>> /\ \A u \in Threads : pc'[u] = "deliver" => u = t
    BY <1>0, <1>d
  <2>b. ASSUME \A i \in 1..(Len(sinks_) - Len(left'[t])) : Takes(sinks_[i], arg[t]) =>
                 \E k \in 1..Len(written'[sinks_[i].target]) :
                    written'[sinks_[i].target][k] = m
        PROVE  Delivered'
    <3> HIDE DEF IInv
    <3> QED BY <2>a, <2>b DEF Delivered, Takes, m
  <2> SUFFICES ASSUME NEW i \in 1..(Len(sinks_) - Len(left'[t])), Takes(sinks_[i], arg[t])
               PROVE  \E k \in 1..Len(written'[sinks_[i].target]) :
                          written'[sinks_[i].target][k] = m
    BY <2>b, Zenon
  <2>1. CASE i = n
    BY <1>s, <1>w, <2>1, Zenon
  <2>2. CASE i \in 1..(Len(sinks_) - Len(left[t]))
    <3>1. PICK k \in 1..Len(written[sinks_[i].target]) : written[sinks_[i].target][k] = m
      BY <1>0, <2>2 DEF Delivered, m
    <3>2. i \in 1..Len(sinks_)
      BY <1>k, <2>2
    <3>3. sinks_[i] \in Sink
      BY <3>2 DEF Types
    <3>4. sinks_[i].target \in Targets
      BY <3>3, Zenon DEF Sink
    <3> DEFINE g == sinks_[i].target
    <3>5. k \in 1..Len(written'[g]) /\ written'[g][k] = m
      <4> HIDE DEF g
      <4>1. g \in Targets /\ k \in 1..Len(written[g]) /\ written[g][k] = m
        BY <3>1, <3>4, Zenon DEF g
      <4>2. /\ Len(written[g]) \in Nat /\ Len(written'[g]) \in Nat
            /\ Len(written[g]) <= Len(written'[g]) /\ written'[g][k] = written[g][k]
        BY <1>w, <4>1, Zenon
      <4> QED BY <4>1, <4>2
    <3> QED BY <3>5, Zenon
  <2>3. i = n \/ i \in 1..(Len(sinks_) - Len(left[t]))
    BY <1>k DEF n
  <2> QED BY <2>1, <2>2, <2>3
<1>6. Fresh' /\ SameOrder'
  <2>1. \A f \in Targets : \A i, j \in 1..Len(written[f]) :
          i < j /\ written[f][i] = m => written[f][j] = m
    BY <1>0, Zenon DEF Fresh, m
  <2>2. /\ SameOrder'
        /\ \A f \in Targets : \A i, j \in 1..Len(written'[f]) :
              i < j /\ written'[f][i] = m => written'[f][j] = m
    <3>1. CASE Takes(sink, arg[t])
      <4>1. written' = [written EXCEPT ![sink.target] = Append(@, m)]
        BY <1>0, <3>1 DEF m
      <4> QED BY <1>m, <1>s, <2>1, <4>1, AppendOrder, Zenon
    <3>2. CASE ~ Takes(sink, arg[t])
      <4>1. written' = written
        BY <1>0, <3>2
      <4>2. SameOrder'
        BY <4>1, OrderKept, Zenon
      <4> QED BY <2>1, <4>1, <4>2
    <3> QED BY <3>1, <3>2
  <2>3. \A u \in Threads : pc[u] = "log" => arg[u].id # m
    BY <1>0 DEF Fresh, Logging, m
  <2>4. \A u \in Threads : pc[u] = "log" =>
          \A f \in Targets : \A i \in 1..Len(written'[f]) : written'[f][i] # arg[u].id
    BY <1>w, <2>3 DEF Fresh
  <2>5. \A u \in Threads : pc[u] = "deliver" => arg[u].id = m
    BY <1>d DEF m
  <2>6. Fresh'
    <3>1. pc' = pc /\ arg' = arg
      BY <1>0, Zenon
    <3>2. \A u, v \in Threads :
            u # v /\ pc'[u] \in Logging /\ pc'[v] \in Logging => arg'[u].id # arg'[v].id
      BY <3>1, Zenon DEF Fresh
    <3>3. \A u \in Threads : pc'[u] = "log" =>
            \A f \in Targets : \A i \in 1..Len(written'[f]) : written'[f][i] # arg'[u].id
      BY <2>4, <3>1, Zenon
    <3>4. \A u \in Threads : pc'[u] = "deliver" =>
            \A f \in Targets : \A i, j \in 1..Len(written'[f]) :
                i < j /\ written'[f][i] = arg'[u].id => written'[f][j] = arg'[u].id
      BY <2>2, <2>5, <3>1
    <3> QED BY <3>2, <3>3, <3>4, Zenon DEF Fresh
  <2> QED BY <2>2, <2>6, Zenon
<1> QED BY <1>1, <1>2, <1>3, <1>4, <1>5, <1>6, Zenon

-----------------------------------------------------------------------------
LEMMA NextIInv == IInv /\ [Next]_vars => IInv'
<1> SUFFICES ASSUME IInv, [Next]_vars PROVE IInv'
  OBVIOUS
<1>1. CASE resetInstance
  BY <1>1, resetInstanceIInv, Zenon
<1>2. ASSUME NEW t \in Threads, ClientCall(t) PROVE IInv'
  <2>1. ASSUME NEW l \in Levels, setLevel(t, l) \/ logCall(t, l) PROVE IInv'
    BY <2>1, setLevelIInv, logCallIInv, Zenon
  <2>2. ASSUME NEW l \in Levels, Call(t, "addSink", [id |-> 0, target |-> Custom, level |-> l])
        PROVE  IInv'
    <3> DEFINE a == [id |-> 0, target |-> Custom, level |-> l]
    <3>1. a \in Sink /\ a.target = Custom
      BY DEF Sink, Targets
    <3> HIDE DEF a
    <3> QED BY <2>2, <3>1, CallIInv, Zenon DEF a
  <2>3. ASSUME NEW l \in Levels, NEW f \in Files,
               Call(t, "addFileSink", [id |-> 0, target |-> f, level |-> l])
        PROVE  IInv'
    <3> DEFINE a == [id |-> 0, target |-> f, level |-> l]
    <3>1. a \in Sink /\ a.target \in Files
      BY DEF Sink, Targets
    <3> HIDE DEF a
    <3>2. Call(t, "addFileSink", a)
      BY <2>3, Zenon DEF a
    <3> QED BY <3>1, <3>2, CallIInv, Zenon
  <2>4. ASSUME NEW f \in Files, Call(t, "removeFileSink", [id |-> 0, target |-> f])
        PROVE  IInv'
    BY <2>4, CallIInv
  <2>5. CASE Call(t, "clearSinks", Nothing) \/ Call(t, "flush", Nothing)
    BY <2>5, CallIInv
  <2> QED BY <1>2, <2>1, <2>2, <2>3, <2>4, <2>5, Zenon DEF ClientCall
<1>3. ASSUME NEW t \in Threads, Step(t) PROVE IInv'
  <2>1. CASE addSink(t) \/ addFileSink(t) \/ addFileSinkPush(t)
    BY <2>1, addSinkIInv, addFileSinkIInv, addFileSinkPushIInv, Zenon
  <2>2. CASE removeFileSink(t) \/ clearSinks(t)
    BY <2>2, ClearSinksIInv, EraseStreamsIInv DEF removeFileSink, clearSinks
  <2>3. CASE flush(t) \/ LogLock(t) \/ Deliver(t) \/ LogEnd(t)
    BY <2>3, flushIInv, LogLockIInv, DeliverIInv, LogEndIInv
  <2> QED BY <1>3, <2>1, <2>2, <2>3, Zenon DEF Step
<1>4. CASE UNCHANGED vars
  <2>0. UNCHANGED <<level_, sinks_, file_sinks_, sinks_mutex_, file_sinks_mutex_, written, pc, arg,
                    left, logs>>
    BY <1>4, Zenon DEF vars, lockVars, threadVars
  <2>1. Types' /\ Locks' /\ Streams'
    BY <2>0, Zenon DEF IInv, Types, Argument, Locks, Streams, SinkHasStream
  <2>2. Rest' /\ Delivered'
    BY <2>0, QuietDelivery, Zenon DEF IInv
  <2>3. Fresh' /\ SameOrder'
    BY <2>0, QuietOrder, Zenon DEF IInv
  <2> QED BY <2>1, <2>2, <2>3 DEF IInv
<1> QED BY <1>1, <1>2, <1>3, <1>4 DEF Next

LEMMA Invariance == Spec => []IInv
BY InitIInv, NextIInv, PTL DEF Spec

(* Every variable of the logger has its type, and a mutex has an owner only   *)
(* while that thread is at a step that holds it.                             *)
THEOREM TypeCorrect == Spec => []TypeOK
<1>1. IInv => TypeOK
  <2> SUFFICES ASSUME IInv PROVE TypeOK
    BY Zenon
  <2> USE DEF IInv
  <2>1. \A i \in 1..Len(sinks_) : sinks_[i].target \in Targets /\ sinks_[i].level \in Levels
    <3> TAKE i \in 1..Len(sinks_)
    <3>1. sinks_[i] \in Sink
      BY DEF Types
    <3> QED BY <3>1 DEF Sink
  <2>2. /\ sinks_mutex_ # NoThread => pc[sinks_mutex_] \in {"removeStream", "clearStreams", "deliver"}
        /\ file_sinks_mutex_ # NoThread => pc[file_sinks_mutex_] = "addFileSinkPush"
    BY Zenon DEF Locks, HoldsSinks
  <2>3. \A f \in Targets : written[f] \in Seq(1..logs)
    <3> TAKE f \in Targets
    <3>1. /\ Len(written[f]) \in Nat /\ written[f] = [i \in 1..Len(written[f]) |-> written[f][i]]
          /\ \A i \in 1..Len(written[f]) : written[f][i] \in 1..logs
      BY DEF Types
    <3>2. [i \in 1..Len(written[f]) |-> written[f][i]] \in Seq(1..logs)
      BY <3>1
    <3> QED BY <3>1, <3>2, Zenon
  <2> QED BY <2>1, <2>2, <2>3 DEF TypeOK, Types
<1> QED BY <1>1, Invariance, PTL

(* All targets are given the messages they share in the same order, whatever *)
(* the threads that log them: log() keeps sinks_mutex_ until its last sink.  *)
THEOREM TargetsAgree == Spec => []SameOrder
<1>1. IInv => SameOrder
  BY DEF IInv
<1> QED BY <1>1, Invariance, PTL

(* The stream of a file sink is in the map of streams as long as the sink is  *)
(* in the list of sinks, although two mutexes guard the two.                 *)
THEOREM StreamsExist == Spec => []SinkHasStream
<1>1. IInv => SinkHasStream
  BY DEF IInv, Streams
<1> QED BY <1>1, Invariance, PTL

(* log() passes over no sink that takes the message. *)
THEOREM NoSinkPassedOver == Spec => []Delivered
<1>1. IInv => Delivered
  BY DEF IInv
<1> QED BY <1>1, Invariance, PTL

===============================================================================
