-------------------------- MODULE EventManagerSteps ---------------------------
(***************************************************************************)
(* What a step of EventManager does, for every set of events, types,       *)
(* listeners and client threads: where the threads can be and what they    *)
(* hold there, and the effect of each operation on the places an event can *)
(* be in.                                                                  *)
(***************************************************************************)
EXTENDS EventManager, TLAPS

(* The events a thread is delivering, and those pending in a batch. *)
Held(t) == Range(hand[t])
Batched(ty) == Range(Pending(ty))

DeliverySteps == {"take", "dispatch", "notify"}
ProcSteps == DeliverySteps \cup {"loop", "sleep", "waiting", "route", "stat", "exit"}
BatchSteps == DeliverySteps \cup {"off", "test", "scan", "exit"}
MainSteps == {"idle", "notifyAll", "join", "gone"}
ClientSteps ==
    DeliverySteps \cup {"idle", "notifyOne", "flushSleep", "flushWait", "flushBatches"}

(* Which thread can be where.  A reset begins when the clients are idle, and *)
(* keeps them so; only threads that wait are in the wait set.                *)
Positions ==
    /\ pc["proc"] \in ProcSteps /\ pc["batch"] \in BatchSteps /\ pc["main"] \in MainSteps
    /\ \A c \in Clients : pc[c] \in ClientSteps
    /\ pc["main"] # "idle" => \A c \in Clients : pc[c] = "idle"
    /\ pc["main"] = "gone" => pc["proc"] = "exit" /\ pc["batch"] \in {"off", "exit"}
    /\ \A t \in waiters : \/ t = "proc" /\ pc[t] = "waiting"
                          \/ t \in Clients /\ pc[t] = "flushWait"
    /\ pc["proc"] = "sleep" => event_queue_ = {}

(* What a thread holds, by its step. *)
Hands ==
    \A t \in Threads :
        /\ hand[t] # <<>> => pc[t] \in {"route", "dispatch", "notify"}
        /\ pc[t] = "notify" => hand[t] # <<>>
        /\ pc[t] = "route" => t = "proc" /\ \E e \in Events : hand[t] = <<e>>
        /\ calls[t] # {} => pc[t] = "notify"

-----------------------------------------------------------------------------
(* The elements of a sequence, and that they are distinct. *)

LEMMA SetOfSeq ==
    ASSUME NEW S, NEW s \in Seq(S) PROVE Range(s) \subseteq S
BY DEF Range

LEMMA SetOfEmpty == Range(<<>>) = {} /\ IsInjective(<<>>)
BY DEF Range, IsInjective

LEMMA SetOfOne ==
    ASSUME NEW e PROVE Range(<<e>>) = {e} /\ IsInjective(<<e>>)
BY DEF Range, IsInjective

LEMMA SetOfAppend ==
    ASSUME NEW S, NEW s \in Seq(S), NEW e \in S
    PROVE  /\ Append(s, e) \in Seq(S)
           /\ Range(Append(s, e)) = Range(s) \cup {e}
           /\ IsInjective(s) /\ e \notin Range(s) => IsInjective(Append(s, e))
<1> DEFINE t == Append(s, e)
<1>1. t \in Seq(S) /\ Len(t) = Len(s) + 1 /\ t[Len(s) + 1] = e
      /\ \A i \in 1..Len(s) : t[i] = s[i]
  OBVIOUS
<1>2. Range(t) = Range(s) \cup {e}
  <2>1. DOMAIN s = 1..Len(s) /\ DOMAIN t = 1..(Len(s) + 1) /\ Len(s) \in Nat
    BY <1>1
  <2>2. ASSUME NEW x \in Range(t) PROVE x \in Range(s) \cup {e}
    BY <1>1, <2>1, <2>2 DEF Range
  <2>3. ASSUME NEW x \in Range(s) PROVE x \in Range(t)
    BY <1>1, <2>1, <2>3 DEF Range
  <2>4. e \in Range(t)
    BY <1>1, <2>1 DEF Range
  <2> HIDE DEF t
  <2> QED BY <2>2, <2>3, <2>4
<1>3. ASSUME IsInjective(s), e \notin Range(s) PROVE IsInjective(t)
  <2>1. DOMAIN s = 1..Len(s) /\ DOMAIN t = 1..(Len(s) + 1) /\ Len(s) \in Nat
    BY <1>1
  <2>2. \A i \in 1..Len(s) : s[i] # e
    BY <1>3, <2>1 DEF Range
  <2>3. \A i, j \in 1..Len(s) : s[i] = s[j] => i = j
    BY <1>3, <2>1 DEF IsInjective
  <2> HIDE DEF t
  <2>4. \A i, j \in 1..(Len(s) + 1) : t[i] = t[j] => i = j
    BY <1>1, <2>1, <2>2, <2>3
  <2> QED BY <2>1, <2>4 DEF IsInjective
<1> QED BY <1>1, <1>2, <1>3

LEMMA SetOfTail ==
    ASSUME NEW S, NEW s \in Seq(S), s # <<>>
    PROVE  /\ Head(s) \in S /\ Tail(s) \in Seq(S)
           /\ Range(s) = {Head(s)} \cup Range(Tail(s))
           /\ IsInjective(s) => IsInjective(Tail(s)) /\ Head(s) \notin Range(Tail(s))
<1> DEFINE t == Tail(s)
<1>1. /\ Head(s) = s[1] /\ Head(s) \in S /\ t \in Seq(S)
      /\ Len(s) \in Nat \ {0} /\ DOMAIN s = 1..Len(s) /\ DOMAIN t = 1..(Len(s) - 1)
      /\ \A i \in 1..(Len(s) - 1) : t[i] = s[i + 1]
  OBVIOUS
<1> HIDE DEF t
<1>2. Range(s) = {Head(s)} \cup Range(t)
  <2>1. ASSUME NEW x \in Range(s) PROVE x \in {Head(s)} \cup Range(t)
    <3>1. PICK i \in 1..Len(s) : x = s[i]
      BY <1>1, <2>1 DEF Range
    <3>2. CASE i = 1
      BY <1>1, <3>1, <3>2
    <3>3. CASE i # 1
      <4>1. i - 1 \in 1..(Len(s) - 1) /\ i = (i - 1) + 1
        BY <1>1, <3>3
      <4>2. t[i - 1] = x
        BY <1>1, <3>1, <4>1
      <4> QED BY <1>1, <4>1, <4>2, Zenon DEF Range
    <3> QED BY <3>2, <3>3
  <2>2. ASSUME NEW x \in Range(t) PROVE x \in Range(s)
    BY <1>1, <2>2 DEF Range
  <2>3. Head(s) \in Range(s)
    BY <1>1 DEF Range
  <2> QED BY <2>1, <2>2, <2>3
<1>3. ASSUME IsInjective(s) PROVE IsInjective(t) /\ Head(s) \notin Range(t)
  <2>1. \A i, j \in 1..Len(s) : s[i] = s[j] => i = j
    BY <1>1, <1>3, Zenon DEF IsInjective
  <2>2. \A i, j \in 1..(Len(s) - 1) : t[i] = t[j] => i = j
    BY <1>1, <2>1
  <2>3. \A i \in 1..(Len(s) - 1) : t[i] # Head(s)
    BY <1>1, <2>1
  <2> QED BY <1>1, <2>2, <2>3 DEF IsInjective, Range
<1> QED BY <1>1, <1>2, <1>3 DEF t

(* The processing thread, the batch thread and resetInstance()'s are not clients. *)
LEMMA ThreadNames ==
    /\ "proc" \in Threads /\ "batch" \in Threads /\ "main" \in Threads
    /\ Clients \subseteq Threads
    /\ \A c \in Clients : c # "proc" /\ c # "batch" /\ c # "main" /\ c # NoThread
    /\ \A t \in Threads : t \in {"proc", "batch", "main"} \/ t \in Clients
BY EventManagerAssumption DEF Threads

(* What is pending in a batch. *)
LEMMA PendingType ==
    ASSUME TypeOK, NEW ty
    PROVE  Pending(ty) \in Seq(Events) /\ \A e \in Batched(ty) : e \in Events /\ TypeOf[e] = ty
<1>1. CASE ty \in DOMAIN batch_configs_
  <2>1. batch_configs_[ty] \in Seq({e \in Events : TypeOf[e] = ty})
    BY <1>1 DEF TypeOK
  <2>2. Range(batch_configs_[ty]) \subseteq {e \in Events : TypeOf[e] = ty}
    BY <2>1, SetOfSeq
  <2>3. batch_configs_[ty] \in Seq(Events)
    BY <2>1
  <2> QED BY <1>1, <2>2, <2>3 DEF Pending, Batched
<1>2. CASE ty \notin DOMAIN batch_configs_
  <2>1. Pending(ty) = <<>>
    BY <1>2 DEF Pending
  <2>2. Batched(ty) = {}
    BY <2>1, SetOfEmpty DEF Batched
  <2> QED BY <2>1, <2>2
<1> QED BY <1>1, <1>2

-----------------------------------------------------------------------------
(* The types, but for the queue's *)

LEMMA DeliverTypeOK ==
    ASSUME TypeOK, Hands, NEW t \in Threads, Deliver(t)
    PROVE  TypeOK'
<1>1. CASE TakeBatch(t)
  <2>0. todo[t] \subseteq Types
    BY DEF TypeOK
  <2>1. PICK ty \in Types :
          /\ todo' = [todo EXCEPT ![t] = @ \ {ty}]
          /\ hand' = [hand EXCEPT ![t] = Pending(ty)]
          /\ batch_configs_' = [k \in DOMAIN batch_configs_ |->
                                  IF k = ty THEN <<>> ELSE batch_configs_[k]]
    BY <1>1, <2>0, Zenon DEF TakeBatch
  <2>2. Pending(ty) \in Seq(Events)
    BY PendingType
  <2>3. hand' \in [Threads -> Seq(Events)]
    BY <2>1, <2>2 DEF TypeOK
  <2>4. DOMAIN batch_configs_' \subseteq Types /\ \A k \in DOMAIN batch_configs_' :
          batch_configs_'[k] \in Seq({f \in Events : TypeOf[f] = k})
    BY <2>1 DEF TypeOK
  <2>5. todo' \in [Threads -> SUBSET Types] /\ pc' \in [Threads -> ThreadSteps]
    BY <1>1, <2>1 DEF TakeBatch, TypeOK, Goto, ThreadSteps
  <2> QED BY <1>1, <2>3, <2>4, <2>5 DEF TakeBatch, TypeOK, historyVars
<1>2. CASE Dispatch(t)
  <2>1. AfterBatches(t) \in ThreadSteps
    BY DEF AfterBatches, ThreadSteps
  <2>2. pc' \in [Threads -> ThreadSteps] /\ calls' \in [Threads -> SUBSET Listeners]
    <3>1. \E step \in ThreadSteps : pc' = [pc EXCEPT ![t] = step]
      BY <1>2, <2>1 DEF Dispatch, Goto, ThreadSteps
    <3>2. \E L \in SUBSET Listeners : calls' = calls \/ calls' = [calls EXCEPT ![t] = L]
      BY <1>2 DEF Dispatch, Active
    <3>3. pc \in [Threads -> ThreadSteps] /\ calls \in [Threads -> SUBSET Listeners]
      BY DEF TypeOK
    <3> QED BY <3>1, <3>2, <3>3
  <2>3. batches_mutex_' \in Threads \cup {NoThread}
    BY <1>2 DEF Dispatch, TypeOK
  <2> QED BY <1>2, <2>2, <2>3 DEF Dispatch, TypeOK, historyVars
<1>3. CASE Notify(t)
  <2>1. Head(hand[t]) \in Events /\ Tail(hand[t]) \in Seq(Events)
    BY <1>3, SetOfTail DEF Notify, Hands, TypeOK
  <2>2. calls' \in [Threads -> SUBSET Listeners] /\ delivered' \in [Listeners -> Seq(Events)]
    <3>1. \/ UNCHANGED <<calls, delivered>>
          \/ \E l \in calls[t] :
               /\ calls' = [calls EXCEPT ![t] = @ \ {l}]
               /\ delivered' = [delivered EXCEPT ![l] = Append(@, Head(hand[t]))]
      BY <1>3 DEF Notify
    <3>2. calls \in [Threads -> SUBSET Listeners] /\ delivered \in [Listeners -> Seq(Events)]
      BY DEF TypeOK
    <3>3. ASSUME NEW l \in calls[t], calls' = [calls EXCEPT ![t] = @ \ {l}],
                 delivered' = [delivered EXCEPT ![l] = Append(@, Head(hand[t]))]
          PROVE  /\ calls' \in [Threads -> SUBSET Listeners]
                 /\ delivered' \in [Listeners -> Seq(Events)]
      <4>1. l \in Listeners
        BY <3>2
      <4>2. Append(delivered[l], Head(hand[t])) \in Seq(Events)
        BY <2>1, <3>2, <4>1
      <4>3. delivered' \in [Listeners -> Seq(Events)]
        BY <3>2, <3>3, <4>2
      <4> QED BY <3>2, <3>3, <4>3
    <3> QED BY <3>1, <3>2, <3>3, Zenon
  <2>3. /\ hand' \in [Threads -> Seq(Events)] /\ done' \subseteq Events
        /\ pc' \in [Threads -> ThreadSteps]
    <3>1. \/ UNCHANGED <<pc, hand, done>>
          \/ /\ done' = done \cup {Head(hand[t])}
             /\ hand' = [hand EXCEPT ![t] = Tail(@)]
             /\ pc' = [pc EXCEPT ![t] = "dispatch"]
      BY <1>3 DEF Notify, Goto
    <3>2. hand \in [Threads -> Seq(Events)]
      BY DEF TypeOK
    <3>3. hand' \in [Threads -> Seq(Events)]
      BY <2>1, <3>1, <3>2, Zenon
    <3>4. done \subseteq Events
      BY DEF TypeOK
    <3>5. done' \subseteq Events
      BY <2>1, <3>1, <3>4
    <3>6. pc' \in [Threads -> ThreadSteps]
      BY <3>1, Zenon DEF TypeOK, ThreadSteps
    <3> QED BY <3>3, <3>5, <3>6, Zenon
  <2> QED BY <1>3, <2>2, <2>3, Zenon DEF Notify, TypeOK
<1> QED BY <1>1, <1>2, <1>3, Zenon DEF Deliver

LEMMA OtherTypeOK ==
    ASSUME TypeOK,
           \/ BatchTest \/ ResetStop \/ ResetStep
           \/ \E due \in SUBSET NonEmpty : BatchScan(due)
    PROVE  TypeOK'
<1>0. /\ \A t \in Threads, step \in ThreadSteps :
            pc' = [pc EXCEPT ![t] = step] => pc' \in [Threads -> ThreadSteps]
      /\ {"exit", "scan", "test", "take", "notifyAll", "join", "gone"} \subseteq ThreadSteps
      /\ "batch" \in Threads /\ "main" \in Threads
  <2>1. pc \in [Threads -> ThreadSteps]
    BY Zenon DEF TypeOK
  <2>2. "batch" \in Threads /\ "main" \in Threads
    BY ThreadNames, Zenon
  <2>3. {"exit", "scan", "test", "take", "notifyAll", "join", "gone"} \subseteq ThreadSteps
    BY Zenon DEF ThreadSteps
  <2> QED BY <2>1, <2>2, <2>3, Zenon
<1>1. CASE BatchTest
  <2>1. pc' \in [Threads -> ThreadSteps]
    BY <1>0, <1>1, Zenon DEF BatchTest, Goto
  <2> QED BY <1>1, <2>1 DEF BatchTest, TypeOK, workVars, historyVars
<1>2. CASE ResetStop
  <2>1. pc' \in [Threads -> ThreadSteps] /\ should_stop_' \in BOOLEAN
    BY <1>0, <1>2, Zenon DEF ResetStop, Goto
  <2> QED BY <1>2, <2>1 DEF ResetStop, TypeOK, workVars, historyVars
<1>3. CASE ResetNotify
  <2>1. pc' \in [Threads -> ThreadSteps] /\ waiters' \subseteq Threads
    BY <1>0, <1>3, Zenon DEF ResetNotify, Goto
  <2> QED BY <1>3, <2>1, Zenon DEF ResetNotify, TypeOK, workVars, historyVars
<1>4. CASE ResetJoin
  <2>1. pc' \in [Threads -> ThreadSteps]
    BY <1>0, <1>4, Zenon DEF ResetJoin, Goto
  <2> QED BY <1>4, <2>1, Zenon DEF ResetJoin, TypeOK, workVars, historyVars
<1>5. ASSUME NEW due \in SUBSET NonEmpty, BatchScan(due) PROVE TypeOK'
  <2>1. pc' \in [Threads -> ThreadSteps]
    BY <1>0, <1>5 DEF BatchScan, Goto
  <2>2. due \subseteq Types
    BY Zenon DEF NonEmpty, TypeOK
  <2>3. todo \in [Threads -> SUBSET Types] /\ todo' = [todo EXCEPT !["batch"] = due]
    BY <1>5 DEF BatchScan, TypeOK
  <2>4. todo' \in [Threads -> SUBSET Types]
    BY <2>2, <2>3, Zenon
  <2> QED BY <1>5, <2>1, <2>4 DEF BatchScan, TypeOK, historyVars
<1> QED BY <1>1, <1>2, <1>3, <1>4, <1>5 DEF ResetStep

LEMMA ClientTypeOK ==
    ASSUME TypeOK, NEW c \in Clients, ClientStep(c) \/ FlushCheck(c)
    PROVE  TypeOK'
<1>0. /\ \A t \in Threads, step \in ThreadSteps :
            pc' = [pc EXCEPT ![t] = step] => pc' \in [Threads -> ThreadSteps]
      /\ {"idle", "take", "flushSleep", "flushWait", "flushBatches"} \subseteq ThreadSteps
      /\ c \in Threads
  <2>1. pc \in [Threads -> ThreadSteps]
    BY Zenon DEF TypeOK
  <2>2. c \in Threads
    BY ThreadNames, Zenon
  <2>3. {"idle", "take", "flushSleep", "flushWait", "flushBatches"} \subseteq ThreadSteps
    BY Zenon DEF ThreadSteps
  <2> QED BY <2>1, <2>2, <2>3, Zenon
<1>1. CASE NotifyOne(c)
  <2>1. pc' \in [Threads -> ThreadSteps]
    BY <1>0, <1>1, Zenon DEF NotifyOne, Goto
  <2>2. waiters' \subseteq waiters
    BY <1>1 DEF NotifyOne
  <2>3. waiters' \subseteq Threads
    BY <2>2 DEF TypeOK
  <2> QED BY <1>1, <2>1, <2>3, Zenon DEF NotifyOne, TypeOK, workVars, historyVars
<1>2. CASE FlushBlock(c)
  <2>1. pc' \in [Threads -> ThreadSteps]
    BY <1>0, <1>2, Zenon DEF FlushBlock, Goto
  <2>2. waiters' \subseteq Threads
    BY <1>0, <1>2 DEF FlushBlock, TypeOK
  <2> QED BY <1>2, <2>1, <2>2, Zenon DEF FlushBlock, TypeOK, workVars, historyVars
<1>3. CASE FlushTimeout(c)
  <2>1. pc' \in [Threads -> ThreadSteps]
    BY <1>0, <1>3, Zenon DEF FlushTimeout, Goto
  <2>2. waiters' \subseteq Threads
    BY <1>3 DEF FlushTimeout, TypeOK
  <2> QED BY <1>3, <2>1, <2>2, Zenon DEF FlushTimeout, TypeOK, workVars, historyVars
<1>4. CASE FlushBatches(c)
  <2>1. pc' \in [Threads -> ThreadSteps]
    BY <1>0, <1>4, Zenon DEF FlushBatches, Goto
  <2>2. batches_mutex_' \in Threads \cup {NoThread}
    BY <1>0, <1>4, Zenon DEF FlushBatches, TypeOK
  <2>3. NonEmpty \subseteq Types /\ todo \in [Threads -> SUBSET Types]
    BY Zenon DEF NonEmpty, TypeOK
  <2>4. todo' = todo \/ todo' = [todo EXCEPT ![c] = NonEmpty]
    BY <1>4, Zenon DEF FlushBatches
  <2>5. todo' \in [Threads -> SUBSET Types]
    BY <2>3, <2>4, Zenon
  <2> QED BY <1>4, <2>1, <2>2, <2>5, Zenon DEF FlushBatches, TypeOK, historyVars
<1>5. CASE FlushCheck(c)
  <2>1. pc' \in [Threads -> ThreadSteps]
    BY <1>0, <1>5, Zenon DEF FlushCheck, Goto
  <2> QED BY <1>5, <2>1, Zenon DEF FlushCheck, TypeOK, workVars, historyVars
<1> QED BY <1>1, <1>2, <1>3, <1>4, <1>5 DEF ClientStep

LEMMA SubscribeTypeOK ==
    ASSUME TypeOK, NEW c \in Clients, NEW l \in Listeners, subscribe(c, l) \/ unsubscribe(c, l)
    PROVE  TypeOK'
<1>1. subscriptions_ \in [Listeners -> {"new", "active", "ended"}]
  BY Zenon DEF TypeOK
<1>2. CASE subscribe(c, l)
  <2>1. subscriptions_' \in [Listeners -> {"new", "active", "ended"}]
    BY <1>1, <1>2, Zenon DEF subscribe
  <2> QED BY <1>2, <2>1, Zenon DEF subscribe, TypeOK, workVars, historyVars
<1>3. CASE unsubscribe(c, l)
  <2>1. subscriptions_' \in [Listeners -> {"new", "active", "ended"}]
    BY <1>1, <1>3, Zenon DEF unsubscribe
  <2>2. before \in [Listeners -> SUBSET Events] /\ attempted \subseteq Events
    BY Zenon DEF TypeOK
  <2>3. before' \in [Listeners -> SUBSET Events]
    BY <1>3, <2>2, Zenon DEF unsubscribe
  <2> QED BY <1>3, <2>1, <2>3, Zenon DEF unsubscribe, TypeOK, workVars
<1> QED BY <1>2, <1>3, Zenon

LEMMA BatchingTypeOK ==
    ASSUME TypeOK, NEW c \in Clients, NEW ty \in Batchable,
           enableBatching(c, ty) \/ disableBatching(c, ty)
    PROVE  TypeOK'
<1>0. /\ DOMAIN batch_configs_ \subseteq Types
      /\ \A k \in DOMAIN batch_configs_ :
            batch_configs_[k] \in Seq({f \in Events : TypeOf[f] = k})
  BY Zenon DEF TypeOK
<1>1. c \in Threads /\ "batch" \in Threads /\ ty \in Types
  BY ThreadNames, EventManagerAssumption, Zenon
<1>2. CASE enableBatching(c, ty)
  <2>1. batch_configs_' = [k \in DOMAIN batch_configs_ \cup {ty} |->
                             IF k = ty THEN <<>> ELSE batch_configs_[k]]
    BY <1>2, Zenon DEF enableBatching
  <2>2. /\ DOMAIN batch_configs_' \subseteq Types
        /\ \A k \in DOMAIN batch_configs_' :
              batch_configs_'[k] \in Seq({f \in Events : TypeOf[f] = k})
    BY <1>0, <1>1, <2>1
  <2>3. Range(Pending(ty)) \subseteq Events
    BY PendingType, Zenon DEF Batched
  <2>4. lost' \subseteq Events
    BY <1>2, <2>3, Zenon DEF enableBatching, TypeOK
  <2>5. pc' \in [Threads -> ThreadSteps]
    <3>1. \E step \in ThreadSteps : pc' = [pc EXCEPT !["batch"] = step]
      BY <1>1, <1>2 DEF enableBatching, TypeOK, ThreadSteps
    <3> QED BY <3>1, Zenon DEF TypeOK
  <2> QED BY <1>2, <2>2, <2>4, <2>5, Zenon DEF enableBatching, TypeOK, workVars
<1>3. CASE disableBatching(c, ty)
  <2>1. \/ UNCHANGED batch_configs_
        \/ batch_configs_' = [k \in DOMAIN batch_configs_ \ {ty} |-> batch_configs_[k]]
    BY <1>3, Zenon DEF disableBatching
  <2>2. /\ DOMAIN batch_configs_' \subseteq Types
        /\ \A k \in DOMAIN batch_configs_' :
              batch_configs_'[k] \in Seq({f \in Events : TypeOf[f] = k})
    BY <1>0, <2>1, Zenon
  <2>3. todo \in [Threads -> SUBSET Types] /\ pc \in [Threads -> ThreadSteps]
    BY Zenon DEF TypeOK
  <2>4. todo' = todo \/ todo' = [todo EXCEPT ![c] = {ty}]
    BY <1>3, Zenon DEF disableBatching
  <2>5. pc' = pc \/ pc' = [pc EXCEPT ![c] = "take"]
    BY <1>3, Zenon DEF disableBatching, Goto
  <2>6. batches_mutex_' \in {batches_mutex_, c}
    BY <1>3, Zenon DEF disableBatching
  <2>7. todo' \in [Threads -> SUBSET Types]
    BY <1>1, <2>3, <2>4, Zenon
  <2>8. pc' \in [Threads -> ThreadSteps]
    BY <2>3, <2>5, Zenon DEF ThreadSteps
  <2>9. batches_mutex_' \in Threads \cup {NoThread}
    BY <1>1, <2>6, Zenon DEF TypeOK
  <2> QED BY <1>3, <2>2, <2>7, <2>8, <2>9, Zenon DEF disableBatching, TypeOK, historyVars
<1> QED BY <1>2, <1>3

-----------------------------------------------------------------------------
(* The steps of the threads *)

LEMMA GotoStep ==
    ASSUME TypeOK, NEW t \in Threads, NEW step, Goto(t, step)
    PROVE  pc'[t] = step /\ \A u \in Threads : u # t => pc'[u] = pc[u]
BY Zenon DEF TypeOK, Goto

(* One thread goes to another step. *)
LEMMA MovePositions ==
    ASSUME TypeOK, Positions, NEW t \in Threads, NEW step, Goto(t, step),
           t = "proc" => step \in ProcSteps /\ pc["proc"] # "exit",
           t = "batch" => step \in BatchSteps /\ pc["batch"] # "exit"
                          /\ (pc["batch"] = "off" => pc["main"] = "idle"),
           t = "main" => /\ step \in MainSteps /\ \A c \in Clients : pc[c] = "idle"
                         /\ step = "gone" => pc["proc"] = "exit" /\ pc["batch"] \in {"off", "exit"},
           t \in Clients => step \in ClientSteps /\ pc["main"] = "idle",
           waiters' \subseteq waiters \cup {t},
           t \in waiters' => \/ t = "proc" /\ step = "waiting"
                             \/ t \in Clients /\ step = "flushWait",
           t = "proc" /\ step = "sleep" => event_queue_' = {},
           t # "proc" /\ pc["proc"] = "sleep" => event_queue_' = {}
    PROVE  Positions'
<1>1. pc'[t] = step /\ \A u \in Threads : u # t => pc'[u] = pc[u]
  BY GotoStep, Zenon
<1>2. pc'["proc"] \in ProcSteps /\ pc'["batch"] \in BatchSteps /\ pc'["main"] \in MainSteps
  BY <1>1, ThreadNames, Zenon DEF Positions
<1>3. \A c \in Clients : pc'[c] \in ClientSteps
  BY <1>1, ThreadNames, Zenon DEF Positions
<1>4. pc'["main"] # "idle" => \A c \in Clients : pc'[c] = "idle"
  BY <1>1, ThreadNames DEF Positions
<1>5. pc'["main"] = "gone" => pc'["proc"] = "exit" /\ pc'["batch"] \in {"off", "exit"}
  <2>1. CASE t = "main"
    BY <1>1, <2>1, ThreadNames, Zenon
  <2>2. CASE t # "main"
    <3>1. pc'["main"] = pc["main"]
      BY <1>1, <2>2, ThreadNames, Zenon
    <3>2. CASE pc["main"] = "gone"
      <4>1. pc["proc"] = "exit" /\ pc["batch"] \in {"off", "exit"}
        BY <3>2, Zenon DEF Positions
      <4>2. t # "proc" /\ t # "batch"
        BY <3>2, <4>1, Zenon
      <4> QED BY <1>1, <4>1, <4>2, ThreadNames, Zenon
    <3> QED BY <3>1, <3>2, Zenon
  <2> QED BY <2>1, <2>2, Zenon
<1>6. ASSUME NEW u \in waiters' 
      PROVE  (u = "proc" /\ pc'[u] = "waiting") \/ (u \in Clients /\ pc'[u] = "flushWait")
  <2>1. CASE u = t
    BY <1>1, <1>6, <2>1, Zenon
  <2>2. CASE u # t
    <3>1. u \in waiters /\ u \in Threads
      BY <1>6, <2>2, Zenon DEF TypeOK
    <3> QED BY <1>1, <2>2, <3>1 DEF Positions
  <2> QED BY <2>1, <2>2, Zenon
<1>7. pc'["proc"] = "sleep" => event_queue_' = {}
  BY <1>1, ThreadNames, Zenon
<1> QED BY <1>2, <1>3, <1>4, <1>5, <1>6, <1>7, Zenon DEF Positions

(* Only what one thread does, holds and calls changes. *)
LEMMA MoveHands ==
    ASSUME Hands, NEW t \in Threads,
           \A u \in Threads : u # t => pc'[u] = pc[u] /\ hand'[u] = hand[u] /\ calls'[u] = calls[u],
           hand'[t] # <<>> => pc'[t] \in {"route", "dispatch", "notify"},
           pc'[t] = "notify" => hand'[t] # <<>>,
           pc'[t] = "route" => t = "proc" /\ \E e \in Events : hand'[t] = <<e>>,
           calls'[t] # {} => pc'[t] = "notify"
    PROVE  Hands'
<1> SUFFICES ASSUME NEW u \in Threads
             PROVE  /\ hand'[u] # <<>> => pc'[u] \in {"route", "dispatch", "notify"}
                    /\ pc'[u] = "notify" => hand'[u] # <<>>
                    /\ pc'[u] = "route" => u = "proc" /\ \E e \in Events : hand'[u] = <<e>>
                    /\ calls'[u] # {} => pc'[u] = "notify"
  BY Zenon DEF Hands
<1>1. CASE u = t
  BY <1>1, Zenon
<1>2. CASE u # t
  BY <1>2 DEF Hands
<1> QED BY <1>1, <1>2, Zenon

(* The same, where it holds nothing and calls nobody before and after. *)
LEMMA EmptyHands ==
    ASSUME TypeOK, Hands, NEW t \in Threads, NEW step, Goto(t, step), UNCHANGED <<hand, calls>>,
           pc[t] \notin {"route", "dispatch", "notify"}, step \notin {"route", "notify"}
    PROVE  Hands'
<1>1. pc'[t] = step /\ \A u \in Threads : u # t => pc'[u] = pc[u]
  BY GotoStep, Zenon
<1>2. hand[t] = <<>> /\ calls[t] = {}
  BY Zenon DEF Hands
<1> QED BY <1>1, <1>2, MoveHands, Zenon

LEMMA ProcStepHands ==
    ASSUME TypeOK, Positions, Hands, ProcStep
    PROVE  Positions' /\ Hands'
<1>0. "proc" \in Threads /\ "proc" \notin Clients /\ "proc" # "main" /\ "proc" # "batch"
  BY ThreadNames, Zenon
<1>1. CASE ProcCheck
  <2>1. pc["proc"] \in {"loop", "waiting"} /\ "proc" \notin waiters /\ UNCHANGED <<waiters, calls>>
    BY <1>1, Zenon DEF ProcCheck, Awake, Positions
  <2>2. hand["proc"] = <<>> /\ calls["proc"] = {}
    BY <1>0, <2>1, Zenon DEF Hands
  <2>3. CASE Goto("proc", "exit") /\ UNCHANGED <<event_queue_, hand>>
    <3>1. Positions'
      BY <1>0, <2>1, <2>3, MovePositions, Zenon DEF ProcSteps
    <3>2. Hands'
      BY <1>0, <2>1, <2>3, EmptyHands, Zenon
    <3> QED BY <3>1, <3>2, Zenon
  <2>4. CASE event_queue_ = {} /\ Goto("proc", "sleep") /\ UNCHANGED <<event_queue_, hand>>
    <3>1. Positions'
      BY <1>0, <2>1, <2>4, MovePositions, Zenon DEF ProcSteps
    <3>2. Hands'
      BY <1>0, <2>1, <2>4, EmptyHands, Zenon
    <3> QED BY <3>1, <3>2
  <2>5. ASSUME NEW e \in event_queue_, Goto("proc", "route"), hand' = [hand EXCEPT !["proc"] = <<e>>]
        PROVE  Positions' /\ Hands'
    <3>1. Positions'
      BY <1>0, <2>1, <2>5, MovePositions, Zenon DEF ProcSteps
    <3>2. pc'["proc"] = "route" /\ \A u \in Threads : u # "proc" => pc'[u] = pc[u]
      BY <1>0, <2>5, GotoStep, Zenon
    <3>3. hand'["proc"] = <<e>> /\ \A u \in Threads : u # "proc" => hand'[u] = hand[u]
      BY <1>0, <2>5, Zenon DEF TypeOK
    <3>4. e \in Events
      BY Zenon DEF TypeOK
    <3>5. Hands'
      BY <1>0, <2>1, <2>2, <3>2, <3>3, <3>4, MoveHands
    <3> QED BY <3>1, <3>5, Zenon
  <2> QED BY <1>1, <2>3, <2>4, <2>5, Zenon DEF ProcCheck
<1>2. CASE ProcBlock
  <2>1. pc["proc"] = "sleep" /\ waiters' = waiters \cup {"proc"} /\ Goto("proc", "waiting")
        /\ UNCHANGED <<hand, calls>>
    BY <1>2, Zenon DEF ProcBlock, workVars
  <2>2. Positions'
    BY <1>0, <2>1, MovePositions, Zenon DEF ProcSteps
  <2>3. Hands'
    BY <1>0, <2>1, EmptyHands, Zenon
  <2> QED BY <2>2, <2>3
<1>3. CASE ProcRoute
  <2>1. pc["proc"] = "route" /\ UNCHANGED <<waiters, calls>>
    BY <1>3, Zenon DEF ProcRoute
  <2>2. "proc" \notin waiters
    BY <1>0, <2>1, Zenon DEF Positions
  <2>3. calls["proc"] = {} /\ hand["proc"] # <<>>
    BY <1>0, <2>1 DEF Hands
  <2>4. CASE hand' = [hand EXCEPT !["proc"] = <<>>] /\ (Goto("proc", "take") \/ Goto("proc", "stat"))
    <3>1. PICK step \in {"take", "stat"} : Goto("proc", step)
      BY <2>4, Zenon
    <3>2. Positions'
      BY <1>0, <2>1, <2>2, <3>1, MovePositions, Zenon DEF ProcSteps, DeliverySteps
    <3>3. pc'["proc"] = step /\ \A u \in Threads : u # "proc" => pc'[u] = pc[u]
      BY <1>0, <3>1, GotoStep, Zenon
    <3>4. hand'["proc"] = <<>> /\ \A u \in Threads : u # "proc" => hand'[u] = hand[u]
      BY <1>0, <2>4, Zenon DEF TypeOK
    <3>5. Hands'
      BY <1>0, <2>1, <2>3, <3>3, <3>4, MoveHands
    <3> QED BY <3>2, <3>5, Zenon
  <2>5. CASE Goto("proc", "dispatch") /\ UNCHANGED hand
    <3>1. Positions'
      BY <1>0, <2>1, <2>2, <2>5, MovePositions, Zenon DEF ProcSteps, DeliverySteps
    <3>2. pc'["proc"] = "dispatch" /\ \A u \in Threads : u # "proc" => pc'[u] = pc[u]
      BY <1>0, <2>5, GotoStep, Zenon
    <3>3. Hands'
      BY <1>0, <2>1, <2>3, <2>5, <3>2, MoveHands
    <3> QED BY <3>1, <3>3
  <2> QED BY <1>3, <2>4, <2>5, Zenon DEF ProcRoute
<1>4. CASE ProcStat
  <2>1. pc["proc"] = "stat" /\ Goto("proc", "loop") /\ UNCHANGED <<waiters, hand, calls>>
    BY <1>4, Zenon DEF ProcStat, workVars
  <2>2. "proc" \notin waiters
    BY <1>0, <2>1, Zenon DEF Positions
  <2>3. Positions'
    BY <1>0, <2>1, <2>2, MovePositions, Zenon DEF ProcSteps
  <2>4. Hands'
    BY <1>0, <2>1, EmptyHands, Zenon
  <2> QED BY <2>3, <2>4
<1> QED BY <1>1, <1>2, <1>3, <1>4, Zenon DEF ProcStep

(* Whoever delivers events is not resetInstance(), and nobody waits meanwhile. *)
LEMMA Delivering ==
    ASSUME Positions, NEW t \in Threads, pc[t] \in DeliverySteps
    PROVE  /\ t # "main" /\ t \notin waiters
           /\ t \in Clients => pc["main"] = "idle"
           /\ t = "proc" => pc["proc"] # "sleep"
BY ThreadNames, Zenon DEF Positions, DeliverySteps, MainSteps

LEMMA DeliverHands ==
    ASSUME TypeOK, Positions, Hands, NEW t \in Threads, Deliver(t)
    PROVE  Positions' /\ Hands'
<1>0. /\ pc[t] \in DeliverySteps /\ UNCHANGED <<waiters, event_queue_>>
      /\ "take" \in DeliverySteps /\ "dispatch" \in DeliverySteps /\ "notify" \in DeliverySteps
  BY Zenon DEF Deliver, TakeBatch, Dispatch, Notify, DeliverySteps
<1>1. /\ t # "main" /\ t \notin waiters /\ (t \in Clients => pc["main"] = "idle")
      /\ t = "proc" => pc["proc"] # "sleep"
  BY <1>0, Delivering, Zenon
<1>2. \A step \in DeliverySteps \cup {AfterBatches(t)} : Goto(t, step) => Positions'
  <2>1. /\ t = "proc" => AfterBatches(t) = "stat"
        /\ t = "batch" => AfterBatches(t) = "test"
        /\ t \in Clients => AfterBatches(t) = "idle"
    BY ThreadNames, Zenon DEF AfterBatches
  <2> SUFFICES ASSUME NEW step \in DeliverySteps \cup {AfterBatches(t)}, Goto(t, step)
               PROVE  Positions'
    BY Zenon
  <2>2. t = "proc" => step \in ProcSteps /\ pc["proc"] # "exit" /\ step # "sleep"
    BY <1>0, <2>1, Zenon DEF ProcSteps, DeliverySteps
  <2>3. t = "batch" => step \in BatchSteps /\ pc["batch"] # "exit" /\ pc["batch"] # "off"
    BY <1>0, <2>1, Zenon DEF BatchSteps, DeliverySteps
  <2>4. t \in Clients => step \in ClientSteps
    BY <2>1, Zenon DEF ClientSteps
  <2>5. pc["proc"] = "sleep" => event_queue_ = {}
    BY Zenon DEF Positions
  <2> QED BY <1>0, <1>1, <2>2, <2>3, <2>4, <2>5, MovePositions
<1>3. CASE TakeBatch(t)
  <2>1. pc[t] = "take" /\ Goto(t, "dispatch") /\ UNCHANGED calls
    BY <1>3, Zenon DEF TakeBatch
  <2>2. calls[t] = {}
    BY <2>1, Zenon DEF Hands
  <2>3. pc'[t] = "dispatch" /\ \A u \in Threads : u # t => pc'[u] = pc[u]
    BY <2>1, GotoStep, Zenon
  <2>4. \A u \in Threads : u # t => hand'[u] = hand[u]
    BY <1>3, Zenon DEF TakeBatch, TypeOK
  <2>5. Hands'
    BY <2>1, <2>2, <2>3, <2>4, MoveHands, Zenon
  <2> QED BY <1>0, <1>2, <2>1, <2>5, Zenon
<1>4. CASE Dispatch(t)
  <2>0. UNCHANGED hand /\ pc[t] = "dispatch" /\ calls[t] = {}
    BY <1>4, Zenon DEF Dispatch, Hands
  <2>1. CASE hand[t] # <<>>
    <3>1. Goto(t, "notify") /\ \E L : calls' = [calls EXCEPT ![t] = L]
      BY <1>4, <2>1, Zenon DEF Dispatch
    <3>2. pc'[t] = "notify" /\ \A u \in Threads : u # t => pc'[u] = pc[u]
      BY <3>1, GotoStep, Zenon
    <3>3. \A u \in Threads : u # t => calls'[u] = calls[u]
      BY <3>1, Zenon DEF TypeOK
    <3>4. Hands'
      BY <2>0, <2>1, <3>2, <3>3, MoveHands, Zenon
    <3> QED BY <1>0, <1>2, <3>1, <3>4, Zenon
  <2>2. CASE hand[t] = <<>>
    <3>1. PICK step \in {"take", AfterBatches(t)} : Goto(t, step) /\ UNCHANGED calls
      BY <1>4, <2>2, Zenon DEF Dispatch
    <3>2. pc'[t] = step /\ \A u \in Threads : u # t => pc'[u] = pc[u]
      BY <3>1, GotoStep
    <3>3. step \in {"take", "stat", "test", "idle"}
      BY <3>1, Zenon DEF AfterBatches
    <3>4. Hands'
      BY <2>0, <2>2, <3>1, <3>2, <3>3, MoveHands, Zenon
    <3> QED BY <1>0, <1>2, <3>1, <3>4, Zenon
  <2> QED BY <2>1, <2>2, Zenon
<1>5. CASE Notify(t)
  <2>0. pc[t] = "notify"
    BY <1>5, Zenon DEF Notify
  <2>1. ASSUME NEW l \in calls[t], calls' = [calls EXCEPT ![t] = @ \ {l}], UNCHANGED <<pc, hand>>
        PROVE  Positions' /\ Hands'
    <3>1. Positions'
      BY <1>0, <2>1, Zenon DEF Positions
    <3>2. \A u \in Threads : u # t => calls'[u] = calls[u]
      BY <2>1, Zenon DEF TypeOK
    <3>3. hand[t] # <<>>
      BY <2>0, Zenon DEF Hands
    <3>4. Hands'
      BY <2>0, <2>1, <3>2, <3>3, MoveHands, Zenon
    <3> QED BY <3>1, <3>4, Zenon
  <2>2. ASSUME calls[t] = {}, hand' = [hand EXCEPT ![t] = Tail(@)], Goto(t, "dispatch"),
               UNCHANGED calls
        PROVE  Positions' /\ Hands'
    <3>1. pc'[t] = "dispatch" /\ \A u \in Threads : u # t => pc'[u] = pc[u]
      BY <2>2, GotoStep, Zenon
    <3>2. \A u \in Threads : u # t => hand'[u] = hand[u]
      BY <2>2, Zenon DEF TypeOK
    <3>3. Hands'
      BY <2>2, <3>1, <3>2, MoveHands, Zenon
    <3> QED BY <1>0, <1>2, <2>2, <3>3, Zenon
  <2> QED BY <1>5, <2>1, <2>2, Zenon DEF Notify
<1> QED BY <1>3, <1>4, <1>5, Zenon DEF Deliver

LEMMA OtherHands ==
    ASSUME TypeOK, Positions, Hands,
           \/ BatchTest \/ ResetStop \/ ResetStep
           \/ \E due \in SUBSET NonEmpty : BatchScan(due)
    PROVE  Positions' /\ Hands'
<1>0. /\ "batch" \in Threads /\ "batch" \notin Clients /\ "main" \in Threads /\ "main" \notin Clients
      /\ "batch" \notin waiters /\ "main" \notin waiters
  BY ThreadNames, Zenon DEF Positions
<1>1. UNCHANGED <<hand, calls, event_queue_>> /\ waiters' \subseteq waiters
  BY Zenon DEF BatchTest, ResetStop, ResetStep, ResetNotify, ResetJoin, BatchScan, workVars
<1>2. pc["proc"] = "sleep" => event_queue_ = {}
  BY Zenon DEF Positions
<1>3. CASE BatchTest \/ \E due \in SUBSET NonEmpty : BatchScan(due)
  <2>1. PICK step \in {"exit", "scan", "test", "take"} :
          Goto("batch", step) /\ pc["batch"] \in {"test", "scan"}
    BY <1>3, Zenon DEF BatchTest, BatchScan
  <2>2. Positions'
    BY <1>0, <1>1, <1>2, <2>1, MovePositions, Zenon DEF BatchSteps, DeliverySteps
  <2>3. Hands'
    BY <1>0, <1>1, <2>1, EmptyHands, Zenon
  <2> QED BY <2>2, <2>3, Zenon
<1>4. CASE ResetStop \/ ResetStep
  <2>1. PICK step \in {"notifyAll", "join", "gone"} :
          /\ Goto("main", step) /\ pc["main"] \in {"idle", "notifyAll", "join"}
          /\ \A c \in Clients : pc[c] = "idle"
          /\ step = "gone" => pc["proc"] = "exit" /\ pc["batch"] \in {"off", "exit"}
    BY <1>4, Zenon DEF ResetStop, ResetStep, ResetNotify, ResetJoin, Positions
  <2>2. Positions'
    BY <1>0, <1>1, <1>2, <2>1, MovePositions, Zenon DEF MainSteps
  <2>3. Hands'
    BY <1>0, <1>1, <2>1, EmptyHands, Zenon
  <2> QED BY <2>2, <2>3, Zenon
<1> QED BY <1>3, <1>4, Zenon

LEMMA ClientHands ==
    ASSUME TypeOK, Positions, Hands, NEW c \in Clients, ClientStep(c) \/ FlushCheck(c)
    PROVE  Positions' /\ Hands'
<1>0. c \in Threads /\ c # "proc" /\ c # "batch" /\ c # "main"
  BY ThreadNames, Zenon
<1>1. UNCHANGED <<hand, calls, event_queue_>>
  BY Zenon DEF ClientStep, NotifyOne, FlushBlock, FlushTimeout, FlushBatches, FlushCheck, workVars
<1>2. pc["proc"] = "sleep" => event_queue_ = {}
  BY Zenon DEF Positions
<1>3. PICK step \in {"idle", "take", "flushSleep", "flushWait", "flushBatches"} :
        /\ Goto(c, step) /\ (waiters' \subseteq waiters \/ (step = "flushWait" /\ waiters' = waiters \cup {c}))
        /\ pc[c] \in {"idle", "notifyOne", "flushSleep", "flushWait", "flushBatches"}
        /\ pc[c] = "idle" => pc["main"] = "idle"
        /\ pc[c] = "flushWait" => c \notin waiters'
  BY Zenon DEF ClientStep, NotifyOne, FlushBlock, FlushTimeout, FlushBatches, FlushCheck, MayCall
<1>4. pc["main"] = "idle"
  BY <1>3, Zenon DEF Positions
<1>5. pc[c] # "flushWait" => c \notin waiters
  BY <1>0, Zenon DEF Positions
<1>6. Positions'
  BY <1>0, <1>1, <1>2, <1>3, <1>4, <1>5, MovePositions, Zenon DEF ClientSteps, DeliverySteps
<1>7. Hands'
  BY <1>0, <1>1, <1>3, EmptyHands, Zenon
<1> QED BY <1>6, <1>7, Zenon

LEMMA CallHands ==
    ASSUME TypeOK, Positions, Hands, NEW c \in Clients,
           \/ \E l \in Listeners : subscribe(c, l) \/ unsubscribe(c, l)
           \/ \E e \in Events : publish(c, e)
           \/ \E ty \in Batchable : enableBatching(c, ty) \/ disableBatching(c, ty)
    PROVE  Positions' /\ Hands'
<1>0. /\ c \in Threads /\ c # "proc" /\ c # "batch" /\ c # "main"
      /\ "batch" \in Threads /\ "batch" \notin Clients /\ "proc" \in Threads
  BY ThreadNames, Zenon
<1>1. UNCHANGED <<hand, calls, waiters>> /\ pc[c] = "idle" /\ pc["main"] = "idle"
  BY Zenon DEF subscribe, unsubscribe, publish, enableBatching, disableBatching, MayCall, workVars
<1>2. c \notin waiters /\ "batch" \notin waiters
  BY <1>0, <1>1, Zenon DEF Positions
<1>3. pc["proc"] = "sleep" => event_queue_' = {}
  <2>1. CASE \E e \in Events : publish(c, e)
    BY <1>0, <2>1, Zenon DEF publish, QueueFree
  <2>2. CASE UNCHANGED event_queue_
    BY <2>2, Zenon DEF Positions
  <2> QED BY <2>1, <2>2, Zenon DEF subscribe, unsubscribe, enableBatching, disableBatching
<1>4. \/ UNCHANGED pc
      \/ \E step \in {"notifyOne", "take"} : Goto(c, step)
      \/ pc' = [pc EXCEPT !["batch"] = IF @ = "off" THEN "test" ELSE @]
  BY Zenon DEF subscribe, unsubscribe, publish, enableBatching, disableBatching
<1>5. CASE UNCHANGED pc
  <2>1. Positions'
    BY <1>1, <1>3, <1>5, Zenon DEF Positions
  <2> QED BY <1>1, <1>5, <2>1, Zenon DEF Hands
<1>6. ASSUME NEW step \in {"notifyOne", "take"}, Goto(c, step) PROVE Positions' /\ Hands'
  <2>1. Positions'
    BY <1>0, <1>1, <1>2, <1>3, <1>6, MovePositions, Zenon DEF ClientSteps, DeliverySteps
  <2>2. Hands'
    BY <1>0, <1>1, <1>6, EmptyHands, Zenon
  <2> QED BY <2>1, <2>2, Zenon
<1>7. CASE pc' = [pc EXCEPT !["batch"] = IF @ = "off" THEN "test" ELSE @]
  <2>1. CASE pc["batch"] = "off"
    <3>1. Goto("batch", "test")
      BY <1>7, <2>1, Zenon DEF Goto
    <3>2. Positions'
      BY <1>0, <1>1, <1>2, <1>3, <2>1, <3>1, MovePositions, Zenon DEF BatchSteps
    <3>3. Hands'
      BY <1>0, <1>1, <2>1, <3>1, EmptyHands, Zenon
    <3> QED BY <3>2, <3>3, Zenon
  <2>2. CASE pc["batch"] # "off"
    <3>1. pc' = pc
      BY <1>7, <2>2, Zenon DEF TypeOK
    <3> QED BY <1>5, <3>1, Zenon
  <2> QED BY <2>1, <2>2, Zenon
<1> QED BY <1>4, <1>5, <1>6, <1>7, Zenon

LEMMA NextHands ==
    ASSUME TypeOK, Positions, Hands, Next
    PROVE  Positions' /\ Hands'
BY ProcStepHands, DeliverHands, OtherHands, ClientHands, CallHands, Zenon DEF Next

-----------------------------------------------------------------------------
(* Where the events are.  Six actions move events, each from one place to    *)
(* another; what they do to Held and Batched is stated first.                *)

placeVars == <<event_queue_, batch_configs_, hand, attempted, done, lost>>

LEMMA Moves ==
    ASSUME Next
    PROVE  \/ UNCHANGED placeVars
           \/ \E c \in Clients, e \in Events : publish(c, e)
           \/ ProcCheck \/ ProcRoute
           \/ \E t \in Threads : TakeBatch(t) \/ Notify(t)
           \/ \E c \in Clients, ty \in Batchable : enableBatching(c, ty) \/ disableBatching(c, ty)
<1>1. CASE ProcStep
  BY <1>1, Zenon DEF ProcStep, ProcBlock, ProcStat, placeVars, workVars, historyVars
<1>2. CASE BatchTest \/ ResetStop \/ ResetStep \/ \E due \in SUBSET NonEmpty : BatchScan(due)
  BY <1>2, Zenon DEF BatchTest, ResetStop, ResetStep, ResetNotify, ResetJoin, BatchScan,
     placeVars, workVars, historyVars
<1>3. ASSUME NEW t \in Threads, Deliver(t) PROVE TakeBatch(t) \/ Notify(t) \/ UNCHANGED placeVars
  BY <1>3, Zenon DEF Deliver, Dispatch, placeVars, workVars, historyVars
<1>4. ASSUME NEW c \in Clients, ClientStep(c) \/ FlushCheck(c) PROVE UNCHANGED placeVars
  BY <1>4, Zenon DEF ClientStep, NotifyOne, FlushBlock, FlushTimeout, FlushBatches, FlushCheck,
     placeVars, workVars, historyVars
<1>5. ASSUME NEW c \in Clients, NEW l \in Listeners, subscribe(c, l) \/ unsubscribe(c, l)
      PROVE  UNCHANGED placeVars
  BY <1>5, Zenon DEF subscribe, unsubscribe, placeVars, workVars, historyVars
<1> QED BY <1>1, <1>2, <1>3, <1>4, <1>5, Zenon DEF Next

(* pop(): the first event of the queue goes to the processing thread. *)
LEMMA PopEffect ==
    ASSUME TypeOK, Hands, ProcCheck
    PROVE  /\ UNCHANGED <<batch_configs_, attempted, done, lost>>
           /\ Held("proc") = {}
           /\ \/ UNCHANGED <<event_queue_, hand>>
              \/ \E e \in event_queue_ :
                   /\ event_queue_' = event_queue_ \ {e}
                   /\ \A f \in event_queue_ \ {e} : Before(e, f)
                   /\ hand'["proc"] = <<e>> /\ Held("proc")' = {e}
                   /\ \A t \in Threads : t # "proc" => hand'[t] = hand[t] /\ Held(t)' = Held(t)
<1>1. UNCHANGED <<batch_configs_, attempted, done, lost>>
  BY Zenon DEF ProcCheck, historyVars
<1>2. Held("proc") = {}
  <2>1. hand["proc"] = <<>>
    BY ThreadNames, Zenon DEF ProcCheck, Awake, Hands
  <2> QED BY <2>1, SetOfEmpty, Zenon DEF Held
<1>3. ASSUME NEW e \in event_queue_, event_queue_' = event_queue_ \ {e},
             \A f \in event_queue_ \ {e} : Before(e, f), hand' = [hand EXCEPT !["proc"] = <<e>>]
      PROVE  /\ hand'["proc"] = <<e>> /\ Held("proc")' = {e}
             /\ \A t \in Threads : t # "proc" => hand'[t] = hand[t] /\ Held(t)' = Held(t)
  <2>1. hand'["proc"] = <<e>> /\ \A t \in Threads : t # "proc" => hand'[t] = hand[t]
    BY <1>3, ThreadNames, Zenon DEF TypeOK
  <2> QED BY <2>1, SetOfOne, Zenon DEF Held
<1>4. \/ UNCHANGED <<event_queue_, hand>>
      \/ \E e \in event_queue_ :
           /\ event_queue_' = event_queue_ \ {e}
           /\ \A f \in event_queue_ \ {e} : Before(e, f)
           /\ hand' = [hand EXCEPT !["proc"] = <<e>>]
  BY Zenon DEF ProcCheck
<1> QED BY <1>1, <1>2, <1>3, <1>4, Zenon

(* processEvent: the event is appended to its batch, or kept. *)
LEMMA RouteEffect ==
    ASSUME TypeOK, Hands, ProcRoute
    PROVE  /\ UNCHANGED <<event_queue_, attempted, done, lost>>
           /\ \E e \in Events :
                /\ hand["proc"] = <<e>> /\ Held("proc") = {e}
                /\ \/ UNCHANGED <<batch_configs_, hand>> /\ TypeOf[e] \notin DOMAIN batch_configs_
                   \/ /\ TypeOf[e] \in DOMAIN batch_configs_
                      /\ DOMAIN batch_configs_' = DOMAIN batch_configs_
                      /\ Pending(TypeOf[e])' = Append(Pending(TypeOf[e]), e)
                      /\ Batched(TypeOf[e])' = Batched(TypeOf[e]) \cup {e}
                      /\ \A ty \in Types : ty # TypeOf[e] =>
                            Pending(ty)' = Pending(ty) /\ Batched(ty)' = Batched(ty)
                      /\ hand'["proc"] = <<>> /\ Held("proc")' = {}
                      /\ \A t \in Threads : t # "proc" => hand'[t] = hand[t] /\ Held(t)' = Held(t)
<1>1. UNCHANGED <<event_queue_, attempted, done, lost>>
  BY Zenon DEF ProcRoute, historyVars
<1>2. PICK e \in Events : hand["proc"] = <<e>>
  BY ThreadNames, Zenon DEF ProcRoute, Hands
<1>3. Held("proc") = {e} /\ Head(hand["proc"]) = e
  BY <1>2, SetOfOne DEF Held
<1>4. \/ UNCHANGED <<batch_configs_, hand>> /\ TypeOf[e] \notin DOMAIN batch_configs_
      \/ /\ TypeOf[e] \in DOMAIN batch_configs_
         /\ batch_configs_' = [batch_configs_ EXCEPT ![TypeOf[e]] = Append(@, e)]
         /\ hand' = [hand EXCEPT !["proc"] = <<>>]
  BY <1>3, Zenon DEF ProcRoute
<1>5. ASSUME TypeOf[e] \in DOMAIN batch_configs_,
             batch_configs_' = [batch_configs_ EXCEPT ![TypeOf[e]] = Append(@, e)],
             hand' = [hand EXCEPT !["proc"] = <<>>]
      PROVE  /\ DOMAIN batch_configs_' = DOMAIN batch_configs_
             /\ Pending(TypeOf[e])' = Append(Pending(TypeOf[e]), e)
             /\ Batched(TypeOf[e])' = Batched(TypeOf[e]) \cup {e}
             /\ \A ty \in Types : ty # TypeOf[e] =>
                   Pending(ty)' = Pending(ty) /\ Batched(ty)' = Batched(ty)
             /\ hand'["proc"] = <<>> /\ Held("proc")' = {}
             /\ \A t \in Threads : t # "proc" => hand'[t] = hand[t] /\ Held(t)' = Held(t)
  <2>1. hand'["proc"] = <<>> /\ \A t \in Threads : t # "proc" => hand'[t] = hand[t]
    BY <1>5, ThreadNames, Zenon DEF TypeOK
  <2>2. Held("proc")' = {} /\ \A t \in Threads : t # "proc" => Held(t)' = Held(t)
    BY <2>1, SetOfEmpty, Zenon DEF Held
  <2>3. /\ DOMAIN batch_configs_' = DOMAIN batch_configs_
        /\ batch_configs_'[TypeOf[e]] = Append(batch_configs_[TypeOf[e]], e)
        /\ \A ty \in DOMAIN batch_configs_ : ty # TypeOf[e] => batch_configs_'[ty] = batch_configs_[ty]
    BY <1>5, Zenon
  <2>4. /\ Pending(TypeOf[e])' = Append(Pending(TypeOf[e]), e)
        /\ \A ty \in Types : ty # TypeOf[e] => Pending(ty)' = Pending(ty)
    BY <1>5, <2>3, Zenon DEF Pending
  <2>5. Pending(TypeOf[e]) \in Seq(Events)
    BY PendingType, Zenon
  <2>6. /\ Batched(TypeOf[e])' = Batched(TypeOf[e]) \cup {e}
        /\ \A ty \in Types : ty # TypeOf[e] => Batched(ty)' = Batched(ty)
    BY <2>4, <2>5, SetOfAppend DEF Batched
  <2> QED BY <2>1, <2>2, <2>3, <2>4, <2>6, Zenon
<1> QED BY <1>1, <1>2, <1>3, <1>4, <1>5, Zenon

(* processBatch moves a batch into the hands of its caller. *)
LEMMA TakeEffect ==
    ASSUME TypeOK, Hands, NEW t \in Threads, TakeBatch(t)
    PROVE  /\ UNCHANGED <<event_queue_, attempted, done, lost>>
           /\ Held(t) = {}
           /\ DOMAIN batch_configs_' = DOMAIN batch_configs_
           /\ \E ty \in Types :
                /\ hand'[t] = Pending(ty) /\ Held(t)' = Batched(ty)
                /\ Pending(ty)' = <<>> /\ Batched(ty)' = {}
                /\ \A k \in Types : k # ty => Pending(k)' = Pending(k) /\ Batched(k)' = Batched(k)
                /\ \A u \in Threads : u # t => hand'[u] = hand[u] /\ Held(u)' = Held(u)
<1>1. UNCHANGED <<event_queue_, attempted, done, lost>>
  BY Zenon DEF TakeBatch, historyVars
<1>2. Held(t) = {}
  <2>1. hand[t] = <<>>
    BY Zenon DEF TakeBatch, Hands
  <2> QED BY <2>1, SetOfEmpty, Zenon DEF Held
<1>3. todo[t] \subseteq Types
  BY DEF TypeOK
<1>4. PICK ty \in Types :
        /\ hand' = [hand EXCEPT ![t] = Pending(ty)]
        /\ batch_configs_' = [k \in DOMAIN batch_configs_ |->
                                IF k = ty THEN <<>> ELSE batch_configs_[k]]
  BY <1>3, Zenon DEF TakeBatch
<1>5. hand'[t] = Pending(ty) /\ \A u \in Threads : u # t => hand'[u] = hand[u]
  BY <1>4, Zenon DEF TypeOK
<1>6. Held(t)' = Batched(ty) /\ \A u \in Threads : u # t => Held(u)' = Held(u)
  BY <1>5, Zenon DEF Held, Batched
<1>7. /\ DOMAIN batch_configs_' = DOMAIN batch_configs_
      /\ \A k \in DOMAIN batch_configs_ :
            batch_configs_'[k] = IF k = ty THEN <<>> ELSE batch_configs_[k]
  BY <1>4, Zenon
<1>8. Pending(ty)' = <<>> /\ \A k \in Types : k # ty => Pending(k)' = Pending(k)
  BY <1>7, Zenon DEF Pending
<1>9. Batched(ty)' = {} /\ \A k \in Types : k # ty => Batched(k)' = Batched(k)
  BY <1>8, SetOfEmpty, Zenon DEF Batched
<1> QED BY <1>1, <1>2, <1>5, <1>6, <1>7, <1>8, <1>9, Zenon

(* A listener is called, or the event is done with. *)
LEMMA NotifyEffect ==
    ASSUME TypeOK, Hands, NEW t \in Threads, Notify(t)
    PROVE  /\ UNCHANGED <<event_queue_, batch_configs_, attempted, lost>>
           /\ hand[t] # <<>> /\ hand[t] \in Seq(Events)
           /\ Head(hand[t]) \in Events /\ Head(hand[t]) \in Held(t)
           /\ \/ UNCHANGED <<hand, done>>
              \/ /\ done' = done \cup {Head(hand[t])}
                 /\ hand'[t] = Tail(hand[t])
                 /\ Held(t) = {Head(hand[t])} \cup Held(t)'
                 /\ IsInjective(hand[t]) => IsInjective(hand'[t]) /\ Head(hand[t]) \notin Held(t)'
                 /\ \A u \in Threads : u # t => hand'[u] = hand[u] /\ Held(u)' = Held(u)
<1>1. UNCHANGED <<event_queue_, batch_configs_, attempted, lost>>
  BY Zenon DEF Notify
<1>2. hand[t] # <<>> /\ hand[t] \in Seq(Events)
  BY DEF Notify, Hands, TypeOK
<1>3. /\ Head(hand[t]) \in Events
      /\ Range(hand[t]) = {Head(hand[t])} \cup Range(Tail(hand[t]))
      /\ IsInjective(hand[t]) => /\ IsInjective(Tail(hand[t]))
                                 /\ Head(hand[t]) \notin Range(Tail(hand[t]))
  BY <1>2, SetOfTail, Zenon
<1>4. ASSUME hand' = [hand EXCEPT ![t] = Tail(@)]
      PROVE  /\ hand'[t] = Tail(hand[t])
             /\ Held(t) = {Head(hand[t])} \cup Held(t)'
             /\ IsInjective(hand[t]) => IsInjective(hand'[t]) /\ Head(hand[t]) \notin Held(t)'
             /\ \A u \in Threads : u # t => hand'[u] = hand[u] /\ Held(u)' = Held(u)
  <2>1. hand'[t] = Tail(hand[t]) /\ \A u \in Threads : u # t => hand'[u] = hand[u]
    BY <1>4, Zenon DEF TypeOK
  <2> QED BY <1>3, <2>1, Zenon DEF Held
<1>5. UNCHANGED <<hand, done>> \/ (done' = done \cup {Head(hand[t])}
                                  /\ hand' = [hand EXCEPT ![t] = Tail(@)])
  BY Zenon DEF Notify
<1>6. Head(hand[t]) \in Held(t)
  BY <1>3, Zenon DEF Held
<1> QED BY <1>1, <1>2, <1>3, <1>4, <1>5, <1>6

(* enableBatching drops what is pending, disableBatching nothing. *)
LEMMA EnableEffect ==
    ASSUME NEW c, NEW ty \in Batchable, enableBatching(c, ty)
    PROVE  /\ UNCHANGED <<event_queue_, hand, attempted, done>>
           /\ DOMAIN batch_configs_' = DOMAIN batch_configs_ \cup {ty}
           /\ lost' = lost \cup Batched(ty)
           /\ Pending(ty)' = <<>> /\ Batched(ty)' = {}
           /\ \A k \in Types : k # ty => Pending(k)' = Pending(k) /\ Batched(k)' = Batched(k)
<1>1. UNCHANGED <<event_queue_, hand, attempted, done>> /\ lost' = lost \cup Batched(ty)
  BY Zenon DEF enableBatching, workVars, Batched
<1>2. batch_configs_' = [k \in DOMAIN batch_configs_ \cup {ty} |->
                           IF k = ty THEN <<>> ELSE batch_configs_[k]]
  BY Zenon DEF enableBatching
<1>3. /\ DOMAIN batch_configs_' = DOMAIN batch_configs_ \cup {ty}
      /\ \A k \in DOMAIN batch_configs_ \cup {ty} :
            batch_configs_'[k] = IF k = ty THEN <<>> ELSE batch_configs_[k]
  BY <1>2, Zenon
<1>4. Pending(ty)' = <<>> /\ \A k \in Types : k # ty => Pending(k)' = Pending(k)
  BY <1>3, Zenon DEF Pending
<1>5. Batched(ty)' = {} /\ \A k \in Types : k # ty => Batched(k)' = Batched(k)
  BY <1>4, SetOfEmpty, Zenon DEF Batched
<1> QED BY <1>1, <1>3, <1>4, <1>5, Zenon

LEMMA DisableEffect ==
    ASSUME NEW c, NEW ty, disableBatching(c, ty)
    PROVE  /\ UNCHANGED <<event_queue_, hand, attempted, done, lost>>
           /\ DOMAIN batch_configs_' \subseteq DOMAIN batch_configs_
           /\ \A k \in Types : Pending(k)' = Pending(k) /\ Batched(k)' = Batched(k)
<1>1. UNCHANGED <<event_queue_, hand, attempted, done, lost>>
  BY Zenon DEF disableBatching, historyVars
<1>2. \/ UNCHANGED batch_configs_
      \/ /\ Pending(ty) = <<>>
         /\ batch_configs_' = [k \in DOMAIN batch_configs_ \ {ty} |-> batch_configs_[k]]
  BY Zenon DEF disableBatching
<1>3. CASE UNCHANGED batch_configs_
  BY <1>1, <1>3, Zenon DEF Pending, Batched
<1>4. CASE /\ Pending(ty) = <<>>
           /\ batch_configs_' = [k \in DOMAIN batch_configs_ \ {ty} |-> batch_configs_[k]]
  <2>1. /\ DOMAIN batch_configs_' = DOMAIN batch_configs_ \ {ty}
        /\ \A k \in DOMAIN batch_configs_ \ {ty} : batch_configs_'[k] = batch_configs_[k]
    BY <1>4, Zenon
  <2>2. \A k \in Types : Pending(k)' = Pending(k)
    BY <1>4, <2>1, Zenon DEF Pending
  <2> QED BY <1>1, <2>1, <2>2, Zenon DEF Batched
<1> QED BY <1>2, <1>3, <1>4, Zenon

LEMMA SameHeld ==
    ASSUME UNCHANGED hand PROVE \A t \in Threads : Held(t)' = Held(t) /\ hand'[t] = hand[t]
BY Zenon DEF Held

LEMMA SameBatched ==
    ASSUME UNCHANGED batch_configs_
    PROVE  \A ty \in Types : Batched(ty)' = Batched(ty) /\ Pending(ty)' = Pending(ty)
BY DEF Batched, Pending

(* An event is published: into the queue, or dropped. *)
LEMMA PublishEffect ==
    ASSUME NEW c, NEW e, publish(c, e)
    PROVE  /\ UNCHANGED <<batch_configs_, hand, done>>
           /\ e \notin attempted /\ attempted' = attempted \cup {e} /\ ClientOf[e] = c
           /\ \A f \in Events : ClientOf[f] = c /\ f < e => f \in attempted
           /\ \/ event_queue_' = event_queue_ \cup {e} /\ UNCHANGED lost
              \/ lost' = lost \cup {e} /\ UNCHANGED event_queue_
BY DEF publish, workVars

===============================================================================
