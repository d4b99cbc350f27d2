----------------------------- MODULE EventManager -----------------------------
(***************************************************************************)
(* core::EventManager (src/src/core/event.cpp): clients publish into a     *)
(* priority queue that one processing thread empties; batched types are    *)
(* collected per type and delivered by whichever thread finds them due.    *)
(*                                                                         *)
(* event_queue_mutex_, subscriptions_mutex_ and stats_mutex_ protect short *)
(* sections, which are single steps; only between testing the condition    *)
(* and blocking on queue_condition_ is event_queue_mutex_ held across two. *)
(* batches_mutex_ is held while listeners run, so it has an owner.         *)
(***************************************************************************)
EXTENDS Naturals, Sequences, FiniteSets, Functions

CONSTANTS
    Events,        \* event ids, in the order in which Event objects are made
    TypeOf,        \* [Events -> Types]
    PriorityOf,    \* [Events -> Nat]
    ClientOf,      \* [Events -> Clients]: the thread that makes and publishes it
    Types,
    Listeners,     \* one subscription each
    Pattern,       \* [Listeners -> SUBSET Types]: the types its pattern matches
    Clients,       \* threads that call the manager
    NoThread,
    MaxQueueSize, MaxBatchSize,
    Batchable,     \* the types for which clients turn batching on
    Calls          \* which of the optional calls clients make

ASSUME EventManagerAssumption ==
    /\ Events \subseteq Nat
    /\ TypeOf \in [Events -> Types]
    /\ PriorityOf \in [Events -> Nat]
    /\ ClientOf \in [Events -> Clients]
    /\ Pattern \in [Listeners -> SUBSET Types]
    /\ MaxQueueSize \in Nat /\ MaxBatchSize \in Nat \ {0}
    /\ {"proc", "batch", "main", NoThread} \cap Clients = {}
    /\ NoThread \notin {"proc", "batch", "main"}
    /\ Batchable \subseteq Types
    /\ Calls \subseteq {"unsubscribe", "enable again", "disable", "flush", "reset"}

Threads == {"proc", "batch", "main"} \cup Clients

VARIABLES
    subscriptions_,  \* [Listeners -> {"new", "active", "ended"}]
    event_queue_,    \* the events in the priority queue
    batch_configs_,  \* type -> pending_events, for the types with batching
    batches_mutex_,  \* its owner
    waiters,         \* the threads blocked on queue_condition_
    should_stop_,
    stats_,
    pc,              \* per thread
    todo,            \* per thread: types for which processBatch is still to be called
    hand,            \* per thread: events it has taken and not finished delivering
    calls,           \* per thread: listeners still to be called for Head(hand)
    attempted,       \* history: events passed to publish()
    done,            \* history: events whose listeners have all been called
    lost,            \* history: events dropped by publish() or enableBatching()
    delivered,       \* history: [Listeners -> Seq(Events)]
    before           \* history: the events attempted when a listener unsubscribed

workVars == <<todo, hand, calls>>
historyVars == <<attempted, done, lost, delivered, before>>
vars == <<subscriptions_, event_queue_, batch_configs_, batches_mutex_, waiters,
          should_stop_, stats_, pc, workVars, historyVars>>

(* Faulty variant: unsubscribe() forgets the entry it has deactivated. *)
ActiveOrEnded == {l \in Listeners : subscriptions_[l] # "new"}

Active == {l \in Listeners : subscriptions_[l] = "active"}
Pending(ty) == IF ty \in DOMAIN batch_configs_ THEN batch_configs_[ty] ELSE <<>>
NonEmpty == {ty \in DOMAIN batch_configs_ : batch_configs_[ty] # <<>>}

Goto(t, step) == pc' = [pc EXCEPT ![t] = step]

(* event_queue_mutex_ is free: nobody is about to block on the condition.   *)
QueueFree == \A t \in Threads : pc[t] \notin {"sleep", "flushSleep"}
BatchesFree == batches_mutex_ = NoThread

(* Faulty variant: newest first. *)
BeforeLifo(e, f) ==
    PriorityOf[e] > PriorityOf[f] \/ (PriorityOf[e] = PriorityOf[f] /\ e > f)

(* The comparator: higher priority first, then the older event. *)
Before(e, f) ==
    PriorityOf[e] > PriorityOf[f] \/ (PriorityOf[e] = PriorityOf[f] /\ e < f)

-----------------------------------------------------------------------------
(* getInstance(): the processing thread runs, the batch thread does not.    *)
Init ==
    /\ subscriptions_ = [l \in Listeners |-> "new"]
    /\ event_queue_ = {}
    /\ batch_configs_ = << >>
    /\ batches_mutex_ = NoThread
    /\ waiters = {}
    /\ should_stop_ = FALSE
    /\ stats_ = [published |-> 0, processed |-> 0, pending |-> 0]
    /\ pc = [t \in Threads |-> CASE t = "proc" -> "loop" [] t = "batch" -> "off" [] OTHER -> "idle"]
    /\ todo = [t \in Threads |-> {}]
    /\ hand = [t \in Threads |-> <<>>]
    /\ calls = [t \in Threads |-> {}]
    /\ attempted = {} /\ done = {} /\ lost = {}
    /\ delivered = [l \in Listeners |-> <<>>]
    /\ before = [l \in Listeners |-> {}]

(* Clients use the manager until resetInstance() is called. *)
MayCall(c) == pc[c] = "idle" /\ pc["main"] = "idle"

-----------------------------------------------------------------------------
(* subscribe, unsubscribe *)

subscribe(c, l) ==
    /\ MayCall(c)
    /\ subscriptions_[l] = "new"
    /\ subscriptions_' = [subscriptions_ EXCEPT ![l] = "active"]
    /\ UNCHANGED <<event_queue_, batch_configs_, batches_mutex_, waiters, should_stop_,
                   stats_, pc, workVars, historyVars>>

unsubscribe(c, l) ==
    /\ "unsubscribe" \in Calls /\ MayCall(c)
    /\ subscriptions_[l] = "active"
    /\ subscriptions_' = [subscriptions_ EXCEPT ![l] = "ended"]
    /\ before' = [before EXCEPT ![l] = attempted]
    /\ UNCHANGED <<event_queue_, batch_configs_, batches_mutex_, waiters, should_stop_,
                   stats_, pc, workVars, attempted, done, lost, delivered>>

-----------------------------------------------------------------------------
(* publish: push under the lock, then notify_one without it *)

(* Faulty variant: the queue may grow one past its limit. *)
publishOffByOne(c, e) ==
    /\ MayCall(c) /\ QueueFree
    /\ e \notin attempted /\ ClientOf[e] = c
    /\ \A f \in Events : ClientOf[f] = c /\ f < e => f \in attempted
    /\ attempted' = attempted \cup {e}
    /\ IF Cardinality(event_queue_) > MaxQueueSize
       THEN /\ lost' = lost \cup {e}
            /\ stats_' = [stats_ EXCEPT !.published = @ + 1]
            /\ UNCHANGED <<event_queue_, pc>>
       ELSE /\ event_queue_' = event_queue_ \cup {e}
            /\ stats_' = [stats_ EXCEPT !.published = @ + 1,
                                        !.pending = Cardinality(event_queue_) + 1]
            /\ Goto(c, "notifyOne")
            /\ UNCHANGED lost
    /\ UNCHANGED <<subscriptions_, batch_configs_, batches_mutex_, waiters, should_stop_,
                   workVars, done, delivered, before>>

publish(c, e) ==
    /\ MayCall(c) /\ QueueFree
    /\ e \notin attempted /\ ClientOf[e] = c
    /\ \A f \in Events : ClientOf[f] = c /\ f < e => f \in attempted
    /\ attempted' = attempted \cup {e}
    /\ IF Cardinality(event_queue_) >= MaxQueueSize
       THEN /\ lost' = lost \cup {e}
            /\ stats_' = [stats_ EXCEPT !.published = @ + 1]
            /\ UNCHANGED <<event_queue_, pc>>
       ELSE /\ event_queue_' = event_queue_ \cup {e}
            /\ stats_' = [stats_ EXCEPT !.published = @ + 1,
                                        !.pending = Cardinality(event_queue_) + 1]
            /\ Goto(c, "notifyOne")
            /\ UNCHANGED lost
    /\ UNCHANGED <<subscriptions_, batch_configs_, batches_mutex_, waiters, should_stop_,
                   workVars, done, delivered, before>>

(* Faulty variant: the notification is forgotten. *)
NotifyNobody(c) ==
    /\ pc[c] = "notifyOne"
    /\ Goto(c, "idle")
    /\ UNCHANGED <<subscriptions_, event_queue_, batch_configs_, batches_mutex_, waiters,
                   should_stop_, stats_, workVars, historyVars>>

(* notify_one() wakes any one of the waiters, if there is one. *)
NotifyOne(c) ==
    /\ pc[c] = "notifyOne"
    /\ waiters' \in IF waiters = {} THEN {{}} ELSE {waiters \ {w} : w \in waiters}
    /\ Goto(c, "idle")
    /\ UNCHANGED <<subscriptions_, event_queue_, batch_configs_, batches_mutex_,
                   should_stop_, stats_, workVars, historyVars>>

-----------------------------------------------------------------------------
(* The processing thread *)

(* A thread that is not, or no longer, blocked on the condition. *)
Awake(t, start, blocked) == pc[t] = start \/ (pc[t] = blocked /\ t \notin waiters)

(* The loop test, the condition and, when there is an event, top() and pop(). *)
ProcCheck ==
    /\ Awake("proc", "loop", "waiting") /\ QueueFree
    /\ IF should_stop_
       THEN Goto("proc", "exit") /\ UNCHANGED <<event_queue_, hand>>
       ELSE IF event_queue_ = {}
       THEN Goto("proc", "sleep") /\ UNCHANGED <<event_queue_, hand>>
       ELSE \E e \in event_queue_ :
              /\ \A f \in event_queue_ \ {e} : Before(e, f)
              /\ event_queue_' = event_queue_ \ {e}
              /\ hand' = [hand EXCEPT !["proc"] = <<e>>]
              /\ Goto("proc", "route")
    /\ UNCHANGED <<subscriptions_, batch_configs_, batches_mutex_, waiters, should_stop_,
                   stats_, todo, calls, historyVars>>

(* should_stop_ is stored without the mutex, so resetInstance() can store it *)
(* and notify between the test of the condition and this step.               *)
ProcBlock ==
    /\ pc["proc"] = "sleep"
    /\ waiters' = waiters \cup {"proc"}
    /\ Goto("proc", "waiting")
    /\ UNCHANGED <<subscriptions_, event_queue_, batch_configs_, batches_mutex_,
                   should_stop_, stats_, workVars, historyVars>>

(* processEvent: add to the batch and perhaps flush it, or keep               *)
(* batches_mutex_ and deliver.  Time is not modelled: a batch may be due.     *)
ProcRoute ==
    LET e == Head(hand["proc"])
        ty == TypeOf[e] IN
    /\ pc["proc"] = "route" /\ BatchesFree
    /\ IF ty \in DOMAIN batch_configs_
       THEN /\ batch_configs_' = [batch_configs_ EXCEPT ![ty] = Append(@, e)]
            /\ hand' = [hand EXCEPT !["proc"] = <<>>]
            /\ \/ todo' = [todo EXCEPT !["proc"] = {ty}] /\ Goto("proc", "take")
               \/ /\ Len(batch_configs_[ty]) + 1 < MaxBatchSize
                  /\ Goto("proc", "stat") /\ UNCHANGED todo
            /\ UNCHANGED batches_mutex_
       ELSE /\ batches_mutex_' = "proc"
            /\ Goto("proc", "dispatch")
            /\ UNCHANGED <<batch_configs_, hand, todo>>
    /\ UNCHANGED <<subscriptions_, event_queue_, waiters, should_stop_, stats_, calls,
                   historyVars>>

ProcStat ==
    /\ pc["proc"] = "stat"
    /\ stats_' = [stats_ EXCEPT !.processed = @ + 1, !.pending = Cardinality(event_queue_)]
    /\ Goto("proc", "loop")
    /\ UNCHANGED <<subscriptions_, event_queue_, batch_configs_, batches_mutex_, waiters,
                   should_stop_, workVars, historyVars>>

-----------------------------------------------------------------------------
(* processBatch, on any thread *)

(* Faulty variant: the batch is copied, not moved. *)
TakeBatchCopy(t) ==
    /\ pc[t] = "take" /\ BatchesFree
    /\ \E ty \in todo[t] :
         /\ todo' = [todo EXCEPT ![t] = @ \ {ty}]
         /\ hand' = [hand EXCEPT ![t] = Pending(ty)]
    /\ Goto(t, "dispatch")
    /\ UNCHANGED <<subscriptions_, event_queue_, batch_configs_, batches_mutex_, waiters,
                   should_stop_, stats_, calls, historyVars>>

(* Takes batches_mutex_, which the caller must not own. *)
TakeBatch(t) ==
    /\ pc[t] = "take" /\ BatchesFree
    /\ \E ty \in todo[t] :
         /\ todo' = [todo EXCEPT ![t] = @ \ {ty}]
         /\ hand' = [hand EXCEPT ![t] = Pending(ty)]
         /\ batch_configs_' = [k \in DOMAIN batch_configs_ |->
                                 IF k = ty THEN <<>> ELSE batch_configs_[k]]
    /\ Goto(t, "dispatch")
    /\ UNCHANGED <<subscriptions_, event_queue_, batches_mutex_, waiters, should_stop_,
                   stats_, calls, historyVars>>

AfterBatches(t) == CASE t = "proc" -> "stat" [] t = "batch" -> "test" [] OTHER -> "idle"

(* The active subscriptions that match are copied under their lock ... *)
Dispatch(t) ==
    /\ pc[t] = "dispatch"
    /\ IF hand[t] # <<>>
       THEN /\ calls' = [calls EXCEPT ![t] =
                           {l \in Active : TypeOf[Head(hand[t])] \in Pattern[l]}]
            /\ Goto(t, "notify")
            /\ UNCHANGED batches_mutex_
       ELSE /\ Goto(t, IF todo[t] # {} THEN "take" ELSE AfterBatches(t))
            /\ batches_mutex_' = IF batches_mutex_ = t THEN NoThread ELSE batches_mutex_
            /\ UNCHANGED calls
    /\ UNCHANGED <<subscriptions_, event_queue_, batch_configs_, waiters, should_stop_,
                   stats_, todo, hand, historyVars>>

(* ... and called one by one without it. *)
Notify(t) ==
    /\ pc[t] = "notify"
    /\ \/ \E l \in calls[t] :
            /\ calls' = [calls EXCEPT ![t] = @ \ {l}]
            /\ delivered' = [delivered EXCEPT ![l] = Append(@, Head(hand[t]))]
            /\ UNCHANGED <<pc, hand, done>>
       \/ /\ calls[t] = {}
          /\ done' = done \cup {Head(hand[t])}
          /\ hand' = [hand EXCEPT ![t] = Tail(@)]
          /\ Goto(t, "dispatch")
          /\ UNCHANGED <<calls, delivered>>
    /\ UNCHANGED <<subscriptions_, event_queue_, batch_configs_, batches_mutex_, waiters,
                   should_stop_, stats_, todo, attempted, lost, before>>

-----------------------------------------------------------------------------
(* Batching *)

(* Faulty variant: the batch thread is never started. *)
enableBatchingNoThread(c, ty) ==
    /\ MayCall(c) /\ BatchesFree
    /\ ty \notin DOMAIN batch_configs_
    /\ batch_configs_' = [k \in DOMAIN batch_configs_ \cup {ty} |->
                            IF k = ty THEN <<>> ELSE batch_configs_[k]]
    /\ UNCHANGED <<subscriptions_, event_queue_, batches_mutex_, waiters, should_stop_,
                   stats_, pc, workVars, historyVars>>

(* A type that already has a configuration loses what is pending in it. *)
enableBatching(c, ty) ==
    /\ MayCall(c) /\ BatchesFree
    /\ ty \in DOMAIN batch_configs_ => "enable again" \in Calls
    /\ lost' = lost \cup Range(Pending(ty))
    /\ batch_configs_' = [k \in DOMAIN batch_configs_ \cup {ty} |->
                            IF k = ty THEN <<>> ELSE batch_configs_[k]]
    /\ pc' = [pc EXCEPT !["batch"] = IF @ = "off" THEN "test" ELSE @]
    /\ UNCHANGED <<subscriptions_, event_queue_, batches_mutex_, waiters, should_stop_,
                   stats_, workVars, attempted, done, delivered, before>>

(* With events pending it calls processBatch with batches_mutex_ locked. *)
disableBatching(c, ty) ==
    /\ "disable" \in Calls /\ MayCall(c) /\ BatchesFree
    /\ ty \in DOMAIN batch_configs_
    /\ IF Pending(ty) = <<>>
       THEN /\ batch_configs_' = [k \in DOMAIN batch_configs_ \ {ty} |-> batch_configs_[k]]
            /\ UNCHANGED <<batches_mutex_, pc, todo>>
       ELSE /\ batches_mutex_' = c
            /\ todo' = [todo EXCEPT ![c] = {ty}]
            /\ Goto(c, "take")
            /\ UNCHANGED batch_configs_
    /\ UNCHANGED <<subscriptions_, event_queue_, waiters, should_stop_, stats_, hand,
                   calls, historyVars>>

(* Faulty variant: the batch thread does not look at should_stop_. *)
BatchTestForever ==
    /\ pc["batch"] = "test"
    /\ Goto("batch", "scan")
    /\ UNCHANGED <<subscriptions_, event_queue_, batch_configs_, batches_mutex_, waiters,
                   should_stop_, stats_, workVars, historyVars>>

(* The loop test of the batch thread, before it sleeps for 10 ms. *)
BatchTest ==
    /\ pc["batch"] = "test"
    /\ Goto("batch", IF should_stop_ THEN "exit" ELSE "scan")
    /\ UNCHANGED <<subscriptions_, event_queue_, batch_configs_, batches_mutex_, waiters,
                   should_stop_, stats_, workVars, historyVars>>

(* Its round: full batches are due, others if their interval has elapsed. *)
BatchScan(due) ==
    /\ pc["batch"] = "scan" /\ BatchesFree
    /\ {ty \in NonEmpty : Len(batch_configs_[ty]) >= MaxBatchSize} \subseteq due
    /\ todo' = [todo EXCEPT !["batch"] = due]
    /\ Goto("batch", IF due = {} THEN "test" ELSE "take")
    /\ UNCHANGED <<subscriptions_, event_queue_, batch_configs_, batches_mutex_, waiters,
                   should_stop_, stats_, hand, calls, historyVars>>

-----------------------------------------------------------------------------
(* flush: waits on the condition the processing thread waits on, at most     *)
(* 100 ms, and then calls processBatch with batches_mutex_ locked.           *)

FlushCheck(c) ==
    /\ \/ "flush" \in Calls /\ MayCall(c)
       \/ pc[c] = "flushWait" /\ c \notin waiters
    /\ QueueFree
    /\ Goto(c, IF event_queue_ = {} THEN "flushBatches" ELSE "flushSleep")
    /\ UNCHANGED <<subscriptions_, event_queue_, batch_configs_, batches_mutex_, waiters,
                   should_stop_, stats_, workVars, historyVars>>

FlushBlock(c) ==
    /\ pc[c] = "flushSleep"
    /\ waiters' = waiters \cup {c}
    /\ Goto(c, "flushWait")
    /\ UNCHANGED <<subscriptions_, event_queue_, batch_configs_, batches_mutex_,
                   should_stop_, stats_, workVars, historyVars>>

FlushTimeout(c) ==
    /\ pc[c] = "flushWait"
    /\ waiters' = waiters \ {c}
    /\ Goto(c, "flushBatches")
    /\ UNCHANGED <<subscriptions_, event_queue_, batch_configs_, batches_mutex_,
                   should_stop_, stats_, workVars, historyVars>>

FlushBatches(c) ==
    /\ pc[c] = "flushBatches" /\ BatchesFree
    /\ IF NonEmpty = {}
       THEN Goto(c, "idle") /\ UNCHANGED <<batches_mutex_, todo>>
       ELSE /\ batches_mutex_' = c
            /\ todo' = [todo EXCEPT ![c] = NonEmpty]
            /\ Goto(c, "take")
    /\ UNCHANGED <<subscriptions_, event_queue_, batch_configs_, waiters, should_stop_,
                   stats_, hand, calls, historyVars>>

-----------------------------------------------------------------------------
(* resetInstance: by a thread that knows that no client is using the manager *)

ResetStop ==
    /\ "reset" \in Calls
    /\ pc["main"] = "idle" /\ \A c \in Clients : pc[c] = "idle"
    /\ should_stop_' = TRUE
    /\ Goto("main", "notifyAll")
    /\ UNCHANGED <<subscriptions_, event_queue_, batch_configs_, batches_mutex_, waiters,
                   stats_, workVars, historyVars>>

ResetNotify ==
    /\ pc["main"] = "notifyAll"
    /\ waiters' = {}
    /\ Goto("main", "join")
    /\ UNCHANGED <<subscriptions_, event_queue_, batch_configs_, batches_mutex_,
                   should_stop_, stats_, workVars, historyVars>>

(* Faulty variant: the processing thread is not joined. *)
ResetJoinBatchOnly ==
    /\ pc["main"] = "join" /\ pc["batch"] \in {"off", "exit"}
    /\ Goto("main", "gone")
    /\ UNCHANGED <<subscriptions_, event_queue_, batch_configs_, batches_mutex_, waiters,
                   should_stop_, stats_, workVars, historyVars>>

(* Both join() calls, and the deletion of the instance. *)
ResetJoin ==
    /\ pc["main"] = "join"
    /\ pc["proc"] = "exit" /\ pc["batch"] \in {"off", "exit"}
    /\ Goto("main", "gone")
    /\ UNCHANGED <<subscriptions_, event_queue_, batch_configs_, batches_mutex_, waiters,
                   should_stop_, stats_, workVars, historyVars>>

-----------------------------------------------------------------------------
ProcStep == ProcCheck \/ ProcBlock \/ ProcRoute \/ ProcStat
Deliver(t) == TakeBatch(t) \/ Dispatch(t) \/ Notify(t)
ClientStep(c) ==
    NotifyOne(c) \/ FlushBlock(c) \/ FlushTimeout(c) \/ FlushBatches(c)
ResetStep == ResetNotify \/ ResetJoin

Next ==
    \/ ProcStep \/ BatchTest \/ ResetStop \/ ResetStep
    \/ \E due \in SUBSET NonEmpty : BatchScan(due)
    \/ \E t \in Threads : Deliver(t)
    \/ \E c \in Clients :
         \/ ClientStep(c) \/ FlushCheck(c)
         \/ \E l \in Listeners : subscribe(c, l) \/ unsubscribe(c, l)
         \/ \E e \in Events : publish(c, e)
         \/ \E ty \in Batchable : enableBatching(c, ty) \/ disableBatching(c, ty)

Spec == Init /\ [][Next]_vars

(* Threads keep running, timed waits end and a thread that tries to lock       *)
(* event_queue_mutex_ again and again gets it; a batch that is looked at again *)
(* and again is due once its interval has elapsed.                           *)
FairSpec ==
    /\ Spec
    /\ WF_vars(ProcStep \/ Deliver("proc")) /\ SF_vars(ProcCheck) /\ WF_vars(ResetStep)
    /\ WF_vars(BatchTest \/ Deliver("batch")) /\ SF_vars(BatchScan(NonEmpty))
    /\ \A c \in Clients :
         WF_vars(ClientStep(c) \/ Deliver(c) \/ (FlushCheck(c) /\ pc[c] # "idle"))

-----------------------------------------------------------------------------
ThreadSteps == {"idle", "off", "exit", "loop", "sleep", "waiting", "route", "stat", "take",
                "dispatch", "notify", "test", "scan", "notifyOne", "flushSleep", "flushWait",
                "flushBatches", "notifyAll", "join", "gone"}

(* Every variable has its type. *)
TypeOK ==
    /\ subscriptions_ \in [Listeners -> {"new", "active", "ended"}]
    /\ event_queue_ \subseteq Events /\ Cardinality(event_queue_) <= MaxQueueSize
    /\ DOMAIN batch_configs_ \subseteq Types
    /\ \A ty \in DOMAIN batch_configs_ : batch_configs_[ty] \in Seq({e \in Events : TypeOf[e] = ty})
    /\ batches_mutex_ \in Threads \cup {NoThread}
    /\ waiters \subseteq Threads
    /\ should_stop_ \in BOOLEAN
    /\ stats_ \in [published : Nat, processed : Nat, pending : Nat]
    /\ pc \in [Threads -> ThreadSteps]
    /\ todo \in [Threads -> SUBSET Types]
    /\ hand \in [Threads -> Seq(Events)]
    /\ calls \in [Threads -> SUBSET Listeners]
    /\ attempted \subseteq Events /\ done \subseteq Events /\ lost \subseteq Events
    /\ delivered \in [Listeners -> Seq(Events)]
    /\ before \in [Listeners -> SUBSET Events]

(* The places an event is in. *)
PlacesOf(e) ==
    {<<"shared", p>> : p \in {q \in {"queue", "done", "lost"} :
                               \/ q = "queue" /\ e \in event_queue_
                               \/ q = "done" /\ e \in done
                               \/ q = "lost" /\ e \in lost}}
      \cup {<<"thread", t>> : t \in {u \in Threads : e \in Range(hand[u])}}
      \cup {<<"batch", ty>> : ty \in {k \in Types : e \in Range(Pending(k))}}

(* Nothing is lost or processed twice between the queue, the batches and the *)
(* three threads that may deliver a batch: a published event is in exactly   *)
(* one place, was dropped only by a full queue or a repeated                 *)
(* enableBatching(), and is delivered to a listener at most once.  When the  *)
(* processing thread is blocked the statistics account for all events,       *)
(* although they are computed without event_queue_mutex_.                    *)
Conservation ==
    /\ \A e \in Events : Cardinality(PlacesOf(e)) = IF e \in attempted THEN 1 ELSE 0
    /\ \A t \in Threads : IsInjective(hand[t])
    /\ \A ty \in Types : IsInjective(Pending(ty))
    /\ \A l \in Listeners : IsInjective(delivered[l])
    /\ stats_.published = Cardinality(attempted)
    /\ pc["proc"] \in {"sleep", "waiting"} =>
         /\ stats_.pending = Cardinality(event_queue_)
         /\ stats_.processed + Cardinality(event_queue_) <= stats_.published

(* A listener sees the events one client published in the order in which the *)
(* client published them, if they have the same priority and their type was  *)
(* never batched.                                                            *)
OrderPreserved ==
    \A l \in Listeners : \A i, j \in 1..Len(delivered[l]) :
        LET e == delivered[l][i] f == delivered[l][j] IN
        i < j /\ ClientOf[e] = ClientOf[f] /\ PriorityOf[e] = PriorityOf[f]
          /\ {TypeOf[e], TypeOf[f]} \cap Batchable = {} => e < f

(* An event published after unsubscribe() returned never reaches the         *)
(* listener, although the processing thread works on copies of subscriptions.*)
UnsubscribedIsSilent ==
    \A l \in Listeners :
        subscriptions_[l] = "ended" => Range(delivered[l]) \subseteq before[l]

(* After resetInstance() no listener of the old instance is called.          *)
ResetSilences == [][pc["main"] = "gone" => UNCHANGED delivered]_vars

(* The processing thread sleeps, and nobody is about to wake it. *)
Stranded ==
    /\ event_queue_ # {} /\ "proc" \in waiters
    /\ \A c \in Clients : pc[c] # "notifyOne"

(* The processing thread is left asleep over a queue with events only by a   *)
(* notify_one() of publish() that wakes, in its place, a thread that waits   *)
(* in flush() on the same condition variable.                                *)
OnlyFlushStrands ==
    [][~Stranded /\ Stranded'
         => \E c \in Clients : c \in waiters \ waiters' /\ pc[c] = "flushWait"]_vars

(* disableBatching() or flush() calls processBatch() with batches_mutex_.    *)
SelfLocked == \E c \in Clients : pc[c] = "take" /\ batches_mutex_ = c

(* should_stop_ and its notification fell between the test and the wait of   *)
(* the processing thread, which resetInstance() joins.                       *)
MissedStop == pc["main"] = "join" /\ "proc" \in waiters

(* Every accepted event, batched or not, reaches every listener subscribed   *)
(* by then, unless a second enableBatching() discards it, the manager is     *)
(* reset, or one of the two ways in which flush() and disableBatching()      *)
(* block a thread happens.                                                   *)
EventuallyDelivered ==
    \A e \in Events, l \in Listeners :
        e \in event_queue_ /\ l \in Active /\ TypeOf[e] \in Pattern[l] ~>
            \/ e \in Range(delivered[l]) \/ l \notin Active
            \/ e \in lost \/ should_stop_ \/ Stranded \/ SelfLocked

(* resetInstance() returns, unless the processing thread has missed the      *)
(* notification.                                                             *)
ResetReturns == pc["main"] # "idle" ~> pc["main"] = "gone" \/ MissedStop

=============================================================================
