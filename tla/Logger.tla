------------------------------- MODULE Logger -------------------------------
(***************************************************************************)
(* One Logger (src/src/core/logger.cpp) used by several threads: sinks are *)
(* added and removed while messages are delivered.  A sink is named by     *)
(* what it writes to: a file, or Custom for a function of the caller's.    *)
(*                                                                         *)
(* addFileSink() locks file_sinks_mutex_ and then sinks_mutex_, everything *)
(* else that takes both locks them the other way round.                    *)
(***************************************************************************)
EXTENDS Naturals, Sequences, FiniteSets

CONSTANTS
    Threads, NoThread,
    Files,          \* paths of log files
    Custom,         \* the target of addSink()
    Levels,         \* of messages and sinks
    INFO,           \* the level of a new logger
    MaxSinks,       \* bound: sinks of the logger
    MaxLogs         \* bound: calls of log()

ASSUME LoggerAssumption ==
    /\ NoThread \notin Threads /\ Custom \notin Files
    /\ Levels \subseteq Nat /\ INFO \in Levels
    /\ MaxSinks \in Nat /\ MaxLogs \in Nat

VARIABLES
    level_,
    sinks_,             \* sequence of [target, level]
    file_sinks_,        \* per file: none, open, or closed (the open failed)
    sinks_mutex_, file_sinks_mutex_,    \* their owners
    written,            \* per target: the messages it was given, in order
    pc, arg,            \* per thread: its step and the argument of its call
    left,               \* per thread in log(): the sinks it has still to call
    logs                \* calls of log() so far; the messages are 1..logs

Targets == Files \cup {Custom}

lockVars == <<sinks_mutex_, file_sinks_mutex_>>
threadVars == <<pc, arg, left>>
vars == <<level_, sinks_, file_sinks_, lockVars, written, threadVars, logs>>

Nothing == [id |-> 0]

Init ==
    /\ level_ = INFO
    /\ sinks_ = <<>>
    /\ file_sinks_ = [f \in Files |-> "none"]
    /\ sinks_mutex_ = NoThread /\ file_sinks_mutex_ = NoThread
    /\ written = [f \in Targets |-> <<>>]
    /\ pc = [t \in Threads |-> "idle"]
    /\ arg = [t \in Threads |-> Nothing]
    /\ left = [t \in Threads |-> <<>>]
    /\ logs = 0

Goto(t, step) == pc' = [pc EXCEPT ![t] = step]

Return(t) ==
    /\ Goto(t, "idle")
    /\ arg' = [arg EXCEPT ![t] = Nothing]
    /\ left' = [left EXCEPT ![t] = <<>>]

(* The call has begun and waits for its first mutex. *)
Call(t, step, a) ==
    /\ pc[t] = "idle"
    /\ Goto(t, step)
    /\ arg' = [arg EXCEPT ![t] = a]
    /\ UNCHANGED <<level_, sinks_, file_sinks_, lockVars, written, left, logs>>

setLevel(t, l) ==
    /\ pc[t] = "idle"
    /\ level_' = l
    /\ UNCHANGED <<sinks_, file_sinks_, lockVars, written, threadVars, logs>>

-----------------------------------------------------------------------------
(* Sinks *)

addSink(t) ==
    /\ pc[t] = "addSink" /\ sinks_mutex_ = NoThread
    /\ sinks_' = Append(sinks_, arg[t])
    /\ Return(t)
    /\ UNCHANGED <<level_, file_sinks_, lockVars, written, logs>>

(* Faulty variant: the stream is made only when the first message comes. *)
addFileSinkLazily(t) ==
    /\ pc[t] = "addFileSink" /\ file_sinks_mutex_ = NoThread
    /\ file_sinks_mutex_' = t /\ Goto(t, "addFileSinkPush")
    /\ UNCHANGED <<level_, sinks_, file_sinks_, sinks_mutex_, written, arg, left, logs>>

(* The call throws if the directory cannot be made.  A stream is opened      *)
(* unless the map has one; if the open fails, the closed stream stays in the *)
(* map and the call throws.                                                  *)
addFileSink(t) ==
    /\ pc[t] = "addFileSink" /\ file_sinks_mutex_ = NoThread
    /\ \/ /\ Return(t)
          /\ UNCHANGED <<file_sinks_, file_sinks_mutex_>>
       \/ /\ file_sinks_[arg[t].target] = "none"
          /\ file_sinks_' = [file_sinks_ EXCEPT ![arg[t].target] = "closed"]
          /\ Return(t)
          /\ UNCHANGED file_sinks_mutex_
       \/ /\ file_sinks_' = [file_sinks_ EXCEPT ![arg[t].target] =
                                IF @ = "none" THEN "open" ELSE @]
          /\ file_sinks_mutex_' = t /\ Goto(t, "addFileSinkPush")
          /\ UNCHANGED <<arg, left>>
    /\ UNCHANGED <<level_, sinks_, sinks_mutex_, written, logs>>

(* addSink(), with file_sinks_mutex_ held. *)
addFileSinkPush(t) ==
    /\ pc[t] = "addFileSinkPush" /\ sinks_mutex_ = NoThread
    /\ sinks_' = Append(sinks_, arg[t])
    /\ file_sinks_mutex_' = NoThread
    /\ Return(t)
    /\ UNCHANGED <<level_, file_sinks_, sinks_mutex_, written, logs>>

(* removeFileSink() and clearSinks(): all sinks go ... *)
ClearSinks(t, step, next) ==
    /\ pc[t] = step /\ sinks_mutex_ = NoThread
    /\ sinks_mutex_' = t
    /\ sinks_' = <<>>
    /\ Goto(t, next)
    /\ UNCHANGED <<level_, file_sinks_, file_sinks_mutex_, written, arg, left, logs>>

(* ... and then the stream of one file, or all streams. *)
EraseStreams(t, step, files) ==
    /\ pc[t] = step /\ file_sinks_mutex_ = NoThread
    /\ file_sinks_' = [f \in Files |-> IF f \in files THEN "none" ELSE file_sinks_[f]]
    /\ sinks_mutex_' = NoThread
    /\ Return(t)
    /\ UNCHANGED <<level_, sinks_, file_sinks_mutex_, written, logs>>

removeFileSink(t) ==
    \/ ClearSinks(t, "removeFileSink", "removeStream")
    \/ EraseStreams(t, "removeStream", {arg[t].target})

clearSinks(t) ==
    \/ ClearSinks(t, "clearSinks", "clearStreams")
    \/ EraseStreams(t, "clearStreams", Files)

(* flush() visits every stream with the mutex held. *)
flush(t) ==
    /\ pc[t] = "flush" /\ file_sinks_mutex_ = NoThread
    /\ Return(t)
    /\ UNCHANGED <<level_, sinks_, file_sinks_, lockVars, written, logs>>

(* resetInstance() destroys the logger, which nobody may be using any more;  *)
(* the next getInstance() makes a new one.                                   *)
resetInstance ==
    /\ \A t \in Threads : pc[t] = "idle"
    /\ level_' = INFO /\ sinks_' = <<>>
    /\ file_sinks_' = [f \in Files |-> "none"]
    /\ UNCHANGED <<lockVars, written, threadVars, logs>>

-----------------------------------------------------------------------------
(* log() *)

Enabled(l) == l >= level_

logCall(t, l) ==
    /\ pc[t] = "idle" /\ logs < MaxLogs /\ Enabled(l)
    /\ logs' = logs + 1
    /\ arg' = [arg EXCEPT ![t] = [id |-> logs + 1, level |-> l]]
    /\ Goto(t, "log")
    /\ UNCHANGED <<level_, sinks_, file_sinks_, lockVars, written, left>>

(* Faulty variant: the sinks are called without the mutex. *)
LogLockCopies(t) ==
    /\ pc[t] = "log" /\ sinks_mutex_ = NoThread
    /\ left' = [left EXCEPT ![t] = sinks_]
    /\ Goto(t, "deliver")
    /\ UNCHANGED <<level_, sinks_, file_sinks_, lockVars, written, arg, logs>>

LogLock(t) ==
    /\ pc[t] = "log" /\ sinks_mutex_ = NoThread
    /\ sinks_mutex_' = t
    /\ left' = [left EXCEPT ![t] = sinks_]
    /\ Goto(t, "deliver")
    /\ UNCHANGED <<level_, sinks_, file_sinks_, file_sinks_mutex_, written, arg, logs>>

(* The sink takes the message: logToFile() does if it finds an open stream. *)
Takes(sink, message) ==
    /\ message.level >= sink.level
    /\ sink.target = Custom \/ file_sinks_[sink.target] = "open"

(* The next sink.  logToFile() needs file_sinks_mutex_. *)
Deliver(t) ==
    /\ pc[t] = "deliver" /\ left[t] # <<>>
    /\ LET sink == Head(left[t])
       IN  /\ sink.target \in Files /\ arg[t].level >= sink.level =>
                 file_sinks_mutex_ = NoThread
           /\ written' = IF Takes(sink, arg[t])
                         THEN [written EXCEPT ![sink.target] = Append(@, arg[t].id)]
                         ELSE written
    /\ left' = [left EXCEPT ![t] = Tail(@)]
    /\ UNCHANGED <<level_, sinks_, file_sinks_, lockVars, pc, arg, logs>>

(* Faulty variant: the mutex is not released. *)
LogEndKeeps(t) ==
    /\ pc[t] = "deliver" /\ left[t] = <<>>
    /\ Return(t)
    /\ UNCHANGED <<level_, sinks_, file_sinks_, lockVars, written, logs>>

LogEnd(t) ==
    /\ pc[t] = "deliver" /\ left[t] = <<>>
    /\ sinks_mutex_' = NoThread
    /\ Return(t)
    /\ UNCHANGED <<level_, sinks_, file_sinks_, file_sinks_mutex_, written, logs>>

-----------------------------------------------------------------------------
Step(t) ==
    \/ addSink(t) \/ addFileSink(t) \/ addFileSinkPush(t)
    \/ removeFileSink(t) \/ clearSinks(t) \/ flush(t)
    \/ LogLock(t) \/ Deliver(t) \/ LogEnd(t)

Adding == {t \in Threads : pc[t] \in {"addSink", "addFileSink", "addFileSinkPush"}}

ClientCall(t) ==
    \/ \E l \in Levels :
          \/ setLevel(t, l) \/ logCall(t, l)
          \/ /\ Len(sinks_) + Cardinality(Adding) < MaxSinks
             /\ \/ Call(t, "addSink", [id |-> 0, target |-> Custom, level |-> l])
                \/ \E f \in Files : Call(t, "addFileSink", [id |-> 0, target |-> f, level |-> l])
    \/ \E f \in Files : Call(t, "removeFileSink", [id |-> 0, target |-> f])
    \/ Call(t, "clearSinks", Nothing) \/ Call(t, "flush", Nothing)

Next ==
    \/ \E t \in Threads : ClientCall(t) \/ Step(t)
    \/ resetInstance

Spec == Init /\ [][Next]_vars

FairSpec == Spec /\ \A t \in Threads : SF_vars(Step(t))

-----------------------------------------------------------------------------
(* Every variable has its type, and there is a mutex owner only while its    *)
(* call is at a step that holds it.                                          *)
TypeOK ==
    /\ level_ \in Levels
    /\ file_sinks_ \in [Files -> {"none", "open", "closed"}]
    /\ \A i \in 1..Len(sinks_) : sinks_[i].target \in Targets /\ sinks_[i].level \in Levels
    /\ sinks_mutex_ # NoThread =>
          pc[sinks_mutex_] \in {"removeStream", "clearStreams", "deliver"}
    /\ file_sinks_mutex_ # NoThread => pc[file_sinks_mutex_] = "addFileSinkPush"
    /\ \A f \in Targets : written[f] \in Seq(1..logs)

(* All targets are given the messages they share in the same order, whatever *)
(* the threads: log() keeps sinks_mutex_ while it calls the sinks.           *)
SameOrder ==
    \A f, g \in Targets :
        \A i, j \in 1..Len(written[f]) : \A k, l \in 1..Len(written[g]) :
            i < j /\ written[f][i] # written[f][j]
               /\ written[f][i] = written[g][k] /\ written[f][j] = written[g][l] => k < l

(* A file sink has a stream in the map, also while sinks are added, removed  *)
(* and called.                                                               *)
SinkHasStream ==
    \A i \in 1..Len(sinks_) :
        sinks_[i].target \in Files => file_sinks_[sinks_[i].target] # "none"

(* log() passes over no sink: one it has called has the message, if it takes *)
(* messages of that level and its stream is open, even if streams were       *)
(* opened since.                                                             *)
Delivered ==
    \A t \in Threads : pc[t] = "deliver" =>
        \A i \in 1..(Len(sinks_) - Len(left[t])) :
            Takes(sinks_[i], arg[t]) =>
                \E k \in 1..Len(written[sinks_[i].target]) :
                    written[sinks_[i].target][k] = arg[t].id

(* The one way in which the threads wait for each other: one that adds a     *)
(* file sink holds file_sinks_mutex_, and one that holds sinks_mutex_ needs  *)
(* it for its next step.                                                     *)
NeedsFileMutex(t) ==
    \/ pc[t] \in {"removeStream", "clearStreams"}
    \/ /\ pc[t] = "deliver" /\ left[t] # <<>>
       /\ Head(left[t]).target \in Files /\ arg[t].level >= Head(left[t]).level

LockOrderDeadlock ==
    \E t, u \in Threads :
        /\ file_sinks_mutex_ = t /\ pc[t] = "addFileSinkPush"
        /\ sinks_mutex_ = u /\ NeedsFileMutex(u)

(* Every call returns, unless addFileSink() and another call hold one mutex  *)
(* each and need the other's.                                                *)
CallsReturn ==
    \A t \in Threads : pc[t] # "idle" ~> (pc[t] = "idle" \/ LockOrderDeadlock)

=============================================================================
