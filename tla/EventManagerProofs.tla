-------------------------- MODULE EventManagerProofs --------------------------
(***************************************************************************)
(* Proofs about EventManager for every set of events, types, listeners and *)
(* client threads and every size of the queue and of the batches.  IInv is *)
(* the inductive invariant: its conjuncts about threads, places, calls and *)
(* order, which EventManagerSteps and EventManagerDelivery show to be      *)
(* preserved, and here the types, with the bound of the queue, and the     *)
(* statistics.                                                             *)
(***************************************************************************)
EXTENDS EventManagerDelivery, FiniteSetTheorems

(* Between taking an event from the queue and counting it, the processing    *)
(* thread leaves the statistics one behind.                                  *)
Counting == pc["proc"] \in DeliverySteps \cup {"route", "stat"}

Stats ==
    /\ IsFiniteSet(attempted) /\ stats_.published = Cardinality(attempted)
    /\ stats_.processed + Cardinality(event_queue_) + (IF Counting THEN 1 ELSE 0) <= stats_.published
    /\ ~Counting => stats_.pending = Cardinality(event_queue_)

IInv ==
    /\ TypeOK /\ Positions /\ Hands /\ Unbatched /\ Once /\ Injective /\ Seen /\ Recent
    /\ Ordered /\ Stats /\ UnsubscribedIsSilent /\ OrderPreserved

-----------------------------------------------------------------------------
LEMMA InitIInv == Init => IInv
<1> SUFFICES ASSUME Init PROVE IInv
  OBVIOUS
<1>1. \A t \in Threads : hand[t] = <<>> /\ calls[t] = {} /\ Held(t) = {}
  BY SetOfEmpty DEF Init, Held
<1>2. \A ty : Pending(ty) = <<>> /\ Batched(ty) = {}
  BY SetOfEmpty DEF Init, Pending, Batched
<1>3. \A l \in Listeners : delivered[l] = <<>> /\ Range(delivered[l]) = {}
  BY SetOfEmpty DEF Init
<1>4. /\ pc["proc"] = "loop" /\ pc["batch"] = "off" /\ pc["main"] = "idle"
      /\ \A c \in Clients : pc[c] = "idle"
      /\ pc \in [Threads -> ThreadSteps]
  BY EventManagerAssumption DEF Init, Threads, ThreadSteps
<1>5. IsFiniteSet({}) /\ Cardinality({}) = 0
  BY FS_EmptySet
<1>6. TypeOK
  <2>1. stats_ \in [published : Nat, processed : Nat, pending : Nat]
    BY DEF Init
  <2>2. DOMAIN batch_configs_ = {}
    BY DEF Init
  <2>3. /\ todo \in [Threads -> SUBSET Types] /\ hand \in [Threads -> Seq(Events)]
        /\ calls \in [Threads -> SUBSET Listeners]
    BY DEF Init
  <2>4. /\ delivered \in [Listeners -> Seq(Events)] /\ before \in [Listeners -> SUBSET Events]
        /\ subscriptions_ \in [Listeners -> {"new", "active", "ended"}]
    BY DEF Init
  <2>5. event_queue_ \subseteq Events /\ Cardinality(event_queue_) <= MaxQueueSize
    <3>1. event_queue_ = {} /\ Cardinality(event_queue_) = 0
      BY <1>5 DEF Init
    <3>2. MaxQueueSize \in Nat
      BY EventManagerAssumption
    <3> QED BY <3>1, <3>2
  <2>6. /\ batches_mutex_ \in Threads \cup {NoThread} /\ waiters \subseteq Threads
        /\ should_stop_ \in BOOLEAN
        /\ attempted \subseteq Events /\ done \subseteq Events /\ lost \subseteq Events
    BY DEF Init
  <2>7. /\ DOMAIN batch_configs_ \subseteq Types
        /\ \A ty \in DOMAIN batch_configs_ :
              batch_configs_[ty] \in Seq({e \in Events : TypeOf[e] = ty})
    BY <2>2
  <2> QED BY <1>4, <2>1, <2>3, <2>4, <2>5, <2>6, <2>7 DEF TypeOK
<1>7. Positions
  BY <1>4 DEF Init, Positions, DeliverySteps, ProcSteps, BatchSteps, MainSteps, ClientSteps
<1>8. Hands
  <2>1. \A t \in Threads : pc[t] \notin {"notify", "route"}
    BY <1>4 DEF Threads
  <2> QED BY <1>1, <2>1 DEF Hands
<1>9. Unbatched /\ Once
  BY <1>1, <1>2 DEF Init, Unbatched, Once
<1>10. Injective
  BY <1>1, <1>2, <1>3, SetOfEmpty DEF Injective
<1>11. Seen /\ Recent /\ UnsubscribedIsSilent
  BY <1>1, <1>3 DEF Init, Seen, Recent, UnsubscribedIsSilent
<1>12. Ordered
  BY <1>1 DEF Init, Ordered, Threads
<1>13. OrderPreserved
  BY <1>3 DEF OrderPreserved
<1>14. Stats
  BY <1>4, <1>5 DEF Init, Stats, Counting, DeliverySteps
<1> QED BY <1>6, <1>7, <1>8, <1>9, <1>10, <1>11, <1>12, <1>13, <1>14 DEF IInv

(* The queue is finite, although the set of events need not be. *)
LEMMA QueueFinite ==
    ASSUME TypeOK, Once, Stats
    PROVE  /\ event_queue_ \subseteq attempted
           /\ IsFiniteSet(event_queue_) /\ Cardinality(event_queue_) \in Nat
           /\ Cardinality(attempted) \in Nat
<1>1. event_queue_ \subseteq attempted
  BY DEF TypeOK, Once
<1>2. IsFiniteSet(attempted)
  BY DEF Stats
<1> QED BY <1>1, <1>2, FS_Subset, FS_CardinalityType

-----------------------------------------------------------------------------
(* The types *)

LEMMA publishTypeOK ==
    ASSUME TypeOK, Once, Stats, NEW c \in Clients, NEW e \in Events, publish(c, e)
    PROVE  TypeOK'
<1>1. IsFiniteSet(event_queue_) /\ Cardinality(event_queue_) \in Nat
  BY QueueFinite
<1>2. Cardinality(event_queue_ \cup {e}) =
        IF e \in event_queue_ THEN Cardinality(event_queue_) ELSE Cardinality(event_queue_) + 1
  BY <1>1, FS_AddElement
<1>3. \/ UNCHANGED event_queue_
      \/ event_queue_' = event_queue_ \cup {e} /\ ~(Cardinality(event_queue_) >= MaxQueueSize)
  BY DEF publish
<1>4. event_queue_' \subseteq Events /\ Cardinality(event_queue_') <= MaxQueueSize
  <2>1. event_queue_ \subseteq Events /\ Cardinality(event_queue_) <= MaxQueueSize
    BY DEF TypeOK
  <2>2. MaxQueueSize \in Nat
    BY EventManagerAssumption
  <2> QED BY <1>1, <1>2, <1>3, <2>1, <2>2
<1>5. stats_' \in [published : Nat, processed : Nat, pending : Nat]
  <2>1. stats_ \in [published : Nat, processed : Nat, pending : Nat]
    BY DEF TypeOK
  <2>2. \/ stats_' = [stats_ EXCEPT !.published = @ + 1]
        \/ stats_' = [stats_ EXCEPT !.published = @ + 1, !.pending = Cardinality(event_queue_) + 1]
    BY DEF publish
  <2>3. CASE stats_' = [stats_ EXCEPT !.published = @ + 1]
    BY <2>1, <2>3
  <2>4. CASE stats_' = [stats_ EXCEPT !.published = @ + 1, !.pending = Cardinality(event_queue_) + 1]
    <3>1. stats_' = [published |-> stats_.published + 1, processed |-> stats_.processed,
                     pending |-> Cardinality(event_queue_) + 1]
      BY <2>1, <2>4
    <3> QED BY <1>1, <2>1, <3>1
  <2> QED BY <2>2, <2>3, <2>4
<1>6. pc' \in [Threads -> ThreadSteps]
  BY DEF publish, Goto, TypeOK, ThreadSteps
<1>7. attempted' \subseteq Events /\ lost' \subseteq Events
  BY DEF publish, TypeOK
<1> QED BY <1>4, <1>5, <1>6, <1>7 DEF publish, TypeOK, workVars

LEMMA ProcTypeOK ==
    ASSUME TypeOK, Hands, Once, Stats, ProcStep
    PROVE  TypeOK'
<1>0. "proc" \in Threads /\ IsFiniteSet(event_queue_) /\ Cardinality(event_queue_) \in Nat
  BY QueueFinite, ThreadNames
<1>1. CASE ProcCheck
  <2>1. \/ UNCHANGED <<event_queue_, hand>>
        \/ \E e \in event_queue_ : /\ event_queue_' = event_queue_ \ {e}
                                   /\ hand' = [hand EXCEPT !["proc"] = <<e>>]
    BY <1>1 DEF ProcCheck
  <2>2. /\ event_queue_ \subseteq Events /\ Cardinality(event_queue_) <= MaxQueueSize
        /\ hand \in [Threads -> Seq(Events)]
    BY DEF TypeOK
  <2>3. /\ event_queue_' \subseteq Events /\ Cardinality(event_queue_') <= MaxQueueSize
        /\ hand' \in [Threads -> Seq(Events)]
    <3>1. CASE UNCHANGED <<event_queue_, hand>>
      BY <2>2, <3>1
    <3>2. ASSUME NEW e \in event_queue_, event_queue_' = event_queue_ \ {e},
                 hand' = [hand EXCEPT !["proc"] = <<e>>]
          PROVE  /\ event_queue_' \subseteq Events /\ Cardinality(event_queue_') <= MaxQueueSize
                 /\ hand' \in [Threads -> Seq(Events)]
      <4>1. Cardinality(event_queue_ \ {e}) =
              IF e \in event_queue_ THEN Cardinality(event_queue_) - 1 ELSE Cardinality(event_queue_)
        BY <1>0, FS_RemoveElement
      <4>2. Cardinality(event_queue_') <= MaxQueueSize
        <5>1. MaxQueueSize \in Nat
          BY EventManagerAssumption
        <5> QED BY <1>0, <2>2, <3>2, <4>1, <5>1
      <4>3. hand' \in [Threads -> Seq(Events)]
        <5>1. <<e>> \in Seq(Events)
          BY <2>2
        <5>2. hand \in [Threads -> Seq(Events)]
          BY <2>2
        <5> QED BY <3>2, <5>1, <5>2
      <4> QED BY <2>2, <3>2, <4>2, <4>3
    <3> QED BY <2>1, <3>1, <3>2
  <2>4. pc' \in [Threads -> ThreadSteps]
    <3>1. \E step \in ThreadSteps : pc' = [pc EXCEPT !["proc"] = step]
      BY <1>1 DEF ProcCheck, Goto, ThreadSteps
    <3> QED BY <3>1 DEF TypeOK
  <2> QED BY <1>1, <2>3, <2>4 DEF ProcCheck, TypeOK, historyVars
<1>2. CASE ProcBlock
  BY <1>0, <1>2 DEF ProcBlock, TypeOK, Goto, ThreadSteps, workVars, historyVars
<1>3. CASE ProcRoute
  <2>1. PICK e \in Events : hand["proc"] = <<e>>
    BY <1>0, <1>3 DEF ProcRoute, Hands
  <2>2. Head(hand["proc"]) = e
    BY <2>1
  <2>3. \A ty \in DOMAIN batch_configs_ : TypeOf[e] = ty =>
          Append(batch_configs_[ty], e) \in Seq({f \in Events : TypeOf[f] = ty})
    BY DEF TypeOK
  <2>4. DOMAIN batch_configs_' \subseteq Types /\ \A ty \in DOMAIN batch_configs_' :
          batch_configs_'[ty] \in Seq({f \in Events : TypeOf[f] = ty})
    <3>1. \/ UNCHANGED batch_configs_
          \/ /\ TypeOf[e] \in DOMAIN batch_configs_
             /\ batch_configs_' = [batch_configs_ EXCEPT ![TypeOf[e]] = Append(@, e)]
      BY <1>3, <2>2 DEF ProcRoute
    <3>2. /\ DOMAIN batch_configs_ \subseteq Types
          /\ \A ty \in DOMAIN batch_configs_ :
                batch_configs_[ty] \in Seq({f \in Events : TypeOf[f] = ty})
      BY DEF TypeOK
    <3>3. CASE UNCHANGED batch_configs_
      BY <3>2, <3>3
    <3>4. CASE /\ TypeOf[e] \in DOMAIN batch_configs_
               /\ batch_configs_' = [batch_configs_ EXCEPT ![TypeOf[e]] = Append(@, e)]
      <4>1. DOMAIN batch_configs_' = DOMAIN batch_configs_
        BY <3>4
      <4>2. \A ty \in DOMAIN batch_configs_ : batch_configs_'[ty] =
              IF ty = TypeOf[e] THEN Append(batch_configs_[ty], e) ELSE batch_configs_[ty]
        BY <3>4
      <4> QED BY <2>3, <3>2, <4>1, <4>2
    <3> QED BY <3>1, <3>3, <3>4
  <2>5. batches_mutex_' \in Threads \cup {NoThread} /\ hand' \in [Threads -> Seq(Events)]
    <3>1. batches_mutex_' \in {batches_mutex_, "proc"}
      BY <1>3 DEF ProcRoute
    <3>2. hand' = hand \/ hand' = [hand EXCEPT !["proc"] = <<>>]
      BY <1>3 DEF ProcRoute
    <3>3. hand \in [Threads -> Seq(Events)]
      BY DEF TypeOK
    <3>4. batches_mutex_ \in Threads \cup {NoThread}
      BY DEF TypeOK
    <3>5. hand' \in [Threads -> Seq(Events)]
      <4>1. <<>> \in Seq(Events)
        OBVIOUS
      <4> QED BY <3>2, <3>3, <4>1
    <3> QED BY <1>0, <3>1, <3>4, <3>5
  <2>6. todo' \in [Threads -> SUBSET Types] /\ pc' \in [Threads -> ThreadSteps]
    <3>1. todo' = todo \/ todo' = [todo EXCEPT !["proc"] = {TypeOf[e]}]
      BY <1>3, <2>2 DEF ProcRoute
    <3>2. \E step \in ThreadSteps : pc' = [pc EXCEPT !["proc"] = step]
      BY <1>3 DEF ProcRoute, Goto, ThreadSteps
    <3>3. TypeOf[e] \in Types
      BY EventManagerAssumption
    <3>4. todo \in [Threads -> SUBSET Types] /\ pc \in [Threads -> ThreadSteps]
      BY DEF TypeOK
    <3> QED BY <3>1, <3>2, <3>3, <3>4
  <2> QED BY <1>3, <2>4, <2>5, <2>6 DEF ProcRoute, TypeOK, historyVars
<1>4. CASE ProcStat
  <2>1. stats_' \in [published : Nat, processed : Nat, pending : Nat]
    <3>1. stats_ \in [published : Nat, processed : Nat, pending : Nat]
      BY DEF TypeOK
    <3>2. stats_' = [stats_ EXCEPT !.processed = @ + 1, !.pending = Cardinality(event_queue_)]
      BY <1>4 DEF ProcStat
    <3>3. stats_' = [published |-> stats_.published, processed |-> stats_.processed + 1,
                     pending |-> Cardinality(event_queue_)]
      BY <3>1, <3>2
    <3> QED BY <1>0, <3>1, <3>3
  <2>2. pc' \in [Threads -> ThreadSteps]
    BY <1>4 DEF ProcStat, TypeOK, Goto, ThreadSteps
  <2> QED BY <1>4, <2>1, <2>2 DEF ProcStat, TypeOK, workVars, historyVars
<1> QED BY <1>1, <1>2, <1>3, <1>4 DEF ProcStep

LEMMA NextTypeOK ==
    ASSUME TypeOK, Hands, Once, Stats, Next
    PROVE  TypeOK'
BY publishTypeOK, ProcTypeOK, DeliverTypeOK, OtherTypeOK, ClientTypeOK, SubscribeTypeOK,
   BatchingTypeOK DEF Next

-----------------------------------------------------------------------------
(* The statistics *)

LEMMA StatVars ==
    ASSUME TypeOK, Next
    PROVE  \/ UNCHANGED <<attempted, event_queue_, stats_>> /\ pc'["proc"] = pc["proc"]
           \/ \E c \in Clients, e \in Events : publish(c, e)
           \/ ProcStep \/ Deliver("proc")
<1>0. "proc" \in Threads /\ \A t \in Threads : \A step : t # "proc" /\ Goto(t, step) => pc'["proc"] = pc["proc"]
  BY GotoStep, ThreadNames
<1>1. CASE BatchTest \/ ResetStop \/ ResetStep \/ \E due \in SUBSET NonEmpty : BatchScan(due)
  <2>1. UNCHANGED <<attempted, event_queue_, stats_>> /\ \E t \in {"batch", "main"} : \E step : Goto(t, step)
    BY <1>1 DEF BatchTest, ResetStop, ResetStep, ResetNotify, ResetJoin, BatchScan, historyVars
  <2> QED BY <1>0, <2>1, ThreadNames
<1>2. ASSUME NEW t \in Threads, t # "proc", Deliver(t)
      PROVE  UNCHANGED <<attempted, event_queue_, stats_>> /\ pc'["proc"] = pc["proc"]
  <2>1. UNCHANGED <<attempted, event_queue_, stats_>> /\ (UNCHANGED pc \/ \E step : Goto(t, step))
    BY <1>2 DEF Deliver, TakeBatch, Dispatch, Notify, historyVars
  <2> QED BY <1>0, <1>2, <2>1
<1>3. ASSUME NEW c \in Clients, ClientStep(c) \/ FlushCheck(c)
      PROVE  UNCHANGED <<attempted, event_queue_, stats_>> /\ pc'["proc"] = pc["proc"]
  <2>1. UNCHANGED <<attempted, event_queue_, stats_>> /\ \E step : Goto(c, step)
    BY <1>3 DEF ClientStep, NotifyOne, FlushBlock, FlushTimeout, FlushBatches, FlushCheck, historyVars
  <2> QED BY <1>0, <2>1, ThreadNames
<1>4. ASSUME NEW c \in Clients, NEW l \in Listeners, subscribe(c, l) \/ unsubscribe(c, l)
      PROVE  UNCHANGED <<attempted, event_queue_, stats_>> /\ pc'["proc"] = pc["proc"]
  BY <1>4 DEF subscribe, unsubscribe, historyVars
<1>5. ASSUME NEW c \in Clients, NEW ty \in Batchable, enableBatching(c, ty) \/ disableBatching(c, ty)
      PROVE  UNCHANGED <<attempted, event_queue_, stats_>> /\ pc'["proc"] = pc["proc"]
  <2>1. UNCHANGED <<attempted, event_queue_, stats_>>
    BY <1>5 DEF enableBatching, disableBatching, historyVars
  <2>2. \/ UNCHANGED pc \/ \E step : Goto(c, step)
        \/ pc' = [pc EXCEPT !["batch"] = IF @ = "off" THEN "test" ELSE @]
    BY <1>5 DEF enableBatching, disableBatching
  <2>3. CASE pc' = [pc EXCEPT !["batch"] = IF @ = "off" THEN "test" ELSE @]
    <3>1. pc'["proc"] = pc["proc"]
      BY <1>0, <2>3 DEF TypeOK
    <3> QED BY <2>1, <3>1
  <2> QED BY <1>0, <2>1, <2>2, <2>3, ThreadNames
<1> QED BY <1>1, <1>2, <1>3, <1>4, <1>5 DEF Next

LEMMA NextStats ==
    ASSUME TypeOK, Positions, Hands, Once, Stats, Next
    PROVE  Stats'
<1> DEFINE n == Cardinality(event_queue_)
           m == Cardinality(attempted)
<1>0. /\ event_queue_ \subseteq attempted /\ IsFiniteSet(event_queue_)
      /\ n \in Nat /\ m \in Nat /\ IsFiniteSet(attempted) /\ "proc" \in Threads
  BY QueueFinite, ThreadNames DEF Stats
<1>1. stats_ \in [published : Nat, processed : Nat, pending : Nat]
  BY DEF TypeOK
<1>2. /\ stats_.published \in Nat /\ stats_.processed \in Nat /\ stats_.pending \in Nat
      /\ stats_.published = m
      /\ Counting => stats_.processed + n + 1 <= m
      /\ ~Counting => stats_.processed + n <= m /\ stats_.pending = n
  BY <1>0, <1>1 DEF Stats
<1>3. ASSUME IsFiniteSet(attempted'), stats_'.published = Cardinality(attempted'),
             Counting' => stats_'.processed + Cardinality(event_queue_') + 1 <= stats_'.published,
             ~Counting' => /\ stats_'.processed + Cardinality(event_queue_') <= stats_'.published
                           /\ stats_'.pending = Cardinality(event_queue_'),
             stats_'.processed \in Nat, Cardinality(event_queue_') \in Nat
      PROVE  Stats'
  <2>1. stats_'.processed + Cardinality(event_queue_') + (IF Counting' THEN 1 ELSE 0) <= stats_'.published
    <3>1. CASE Counting'
      BY <1>3, <3>1
    <3>2. CASE ~Counting'
      <4>1. stats_'.processed + Cardinality(event_queue_') + 0 = stats_'.processed + Cardinality(event_queue_')
        BY <1>3
      <4> QED BY <1>3, <3>2, <4>1
    <3> QED BY <3>1, <3>2
  <2> QED BY <1>3, <2>1 DEF Stats
<1>4. CASE UNCHANGED <<attempted, event_queue_, stats_>> /\ (Counting' <=> Counting)
  BY <1>0, <1>2, <1>3, <1>4
<1>6. ASSUME NEW c \in Clients, NEW e \in Events, publish(c, e) PROVE Stats'
  <2>1. pc'["proc"] = pc["proc"]
    <3>1. UNCHANGED pc \/ Goto(c, "notifyOne")
      BY <1>6 DEF publish
    <3> QED BY <1>0, <3>1, GotoStep, ThreadNames
  <2>2. Counting' <=> Counting
    BY <2>1 DEF Counting
  <2>3. e \notin attempted /\ attempted' = attempted \cup {e}
    BY <1>6, PublishEffect
  <2>4. IsFiniteSet(attempted') /\ Cardinality(attempted') = m + 1
    BY <1>0, <2>3, FS_AddElement
  <2>5. CASE stats_' = [stats_ EXCEPT !.published = @ + 1] /\ UNCHANGED event_queue_
    <3>1. /\ stats_'.published = stats_.published + 1 /\ stats_'.processed = stats_.processed
          /\ stats_'.pending = stats_.pending
      BY <1>1, <2>5
    <3> HIDE DEF n, m
    <3>2. Cardinality(event_queue_') = n
      BY <2>5 DEF n
    <3> QED BY <1>0, <1>2, <1>3, <2>2, <2>4, <3>1, <3>2
  <2>6. CASE /\ stats_' = [stats_ EXCEPT !.published = @ + 1, !.pending = Cardinality(event_queue_) + 1]
             /\ event_queue_' = event_queue_ \cup {e}
    <3>1. stats_' = [published |-> stats_.published + 1, processed |-> stats_.processed, pending |-> n + 1]
      BY <1>1, <2>6
    <3>2. /\ stats_'.published = stats_.published + 1 /\ stats_'.processed = stats_.processed
          /\ stats_'.pending = n + 1
      BY <3>1
    <3>3. e \notin event_queue_
      BY <1>0, <2>3
    <3>4. Cardinality(event_queue_') = n + 1
      BY <1>0, <2>6, <3>3, FS_AddElement
    <3> HIDE DEF n, m
    <3> QED BY <1>0, <1>2, <1>3, <2>2, <2>4, <3>2, <3>4
  <2> QED BY <1>6, <2>5, <2>6 DEF publish
<1>7. CASE ProcCheck
  <2>1. UNCHANGED <<attempted, stats_>> /\ pc["proc"] \in {"loop", "waiting"}
    BY <1>7 DEF ProcCheck, Awake, historyVars
  <2>2. ~Counting
    BY <2>1 DEF Counting, DeliverySteps
  <2>3. CASE (Goto("proc", "exit") \/ Goto("proc", "sleep")) /\ UNCHANGED event_queue_
    <3>1. pc'["proc"] \in {"exit", "sleep"}
      BY <1>0, <2>3, GotoStep
    <3>2. ~Counting'
      BY <3>1 DEF Counting, DeliverySteps
    <3> QED BY <1>4, <2>1, <2>2, <2>3, <3>2
  <2>4. ASSUME NEW e \in event_queue_, event_queue_' = event_queue_ \ {e}, Goto("proc", "route")
        PROVE  Stats'
    <3>1. pc'["proc"] = "route"
      BY <1>0, <2>4, GotoStep
    <3>2. Counting'
      BY <3>1 DEF Counting
    <3>3. Cardinality(event_queue_') = n - 1
      BY <1>0, <2>4, FS_RemoveElement
    <3>4. IsFiniteSet(event_queue_')
      BY <1>0, <2>4, FS_RemoveElement
    <3>5. Cardinality(event_queue_') \in Nat
      BY <3>4, FS_CardinalityType
    <3>6. Cardinality(attempted') = m
      BY <2>1
    <3>7. IsFiniteSet(attempted') /\ stats_' = stats_
      BY <1>0, <2>1
    <3> HIDE DEF n, m
    <3>8. stats_.processed + Cardinality(event_queue_') + 1 <= m
      BY <1>0, <1>2, <2>2, <3>3, <3>5
    <3> QED BY <1>2, <1>3, <3>2, <3>5, <3>6, <3>7, <3>8
  <2> QED BY <1>7, <2>3, <2>4 DEF ProcCheck
<1>8. CASE ProcStat
  <2>1. /\ UNCHANGED <<attempted, event_queue_>> /\ pc["proc"] = "stat" /\ Goto("proc", "loop")
        /\ stats_' = [stats_ EXCEPT !.processed = @ + 1, !.pending = Cardinality(event_queue_)]
    BY <1>8 DEF ProcStat, historyVars
  <2>2. pc'["proc"] = "loop"
    BY <1>0, <2>1, GotoStep
  <2>3. Counting /\ ~Counting'
    BY <2>1, <2>2 DEF Counting, DeliverySteps
  <2>4. stats_' = [published |-> stats_.published, processed |-> stats_.processed + 1, pending |-> n]
    BY <1>1, <2>1
  <2>5. /\ stats_'.published = stats_.published /\ stats_'.processed = stats_.processed + 1
        /\ stats_'.pending = n
    BY <2>4
  <2>6. Cardinality(event_queue_') = n /\ Cardinality(attempted') = m /\ IsFiniteSet(attempted')
    BY <1>0, <2>1
  <2> HIDE DEF n, m
  <2>7. stats_.processed + 1 + n <= m
    BY <1>0, <1>2, <2>3
  <2> QED BY <1>0, <1>2, <1>3, <2>3, <2>5, <2>6, <2>7
<1>9. CASE ProcBlock
  <2>1. UNCHANGED <<attempted, event_queue_, stats_>> /\ pc["proc"] = "sleep" /\ Goto("proc", "waiting")
    BY <1>9 DEF ProcBlock, historyVars
  <2>2. pc'["proc"] = "waiting"
    BY <1>0, <2>1, GotoStep
  <2>3. ~Counting /\ ~Counting'
    BY <2>1, <2>2 DEF Counting, DeliverySteps
  <2> QED BY <1>4, <2>1, <2>3
<1>10. CASE ProcRoute
  <2>1. UNCHANGED <<attempted, event_queue_, stats_>> /\ pc["proc"] = "route"
        /\ \E step \in {"take", "stat", "dispatch"} : Goto("proc", step)
    BY <1>10 DEF ProcRoute, historyVars
  <2>2. pc'["proc"] \in {"take", "stat", "dispatch"}
    BY <1>0, <2>1, GotoStep
  <2>3. Counting /\ Counting'
    BY <2>1, <2>2 DEF Counting, DeliverySteps
  <2> QED BY <1>4, <2>1, <2>3
<1>11. CASE Deliver("proc")
  <2>1. /\ UNCHANGED <<attempted, event_queue_, stats_>> /\ pc["proc"] \in DeliverySteps
        /\ UNCHANGED pc \/ \E step \in {"take", "dispatch", "notify", AfterBatches("proc")} : Goto("proc", step)
    BY <1>11 DEF Deliver, TakeBatch, Dispatch, Notify, DeliverySteps, historyVars
  <2>2. AfterBatches("proc") = "stat"
    BY DEF AfterBatches
  <2>3. pc'["proc"] \in DeliverySteps \cup {"stat"}
    BY <1>0, <2>1, <2>2, GotoStep DEF DeliverySteps
  <2>4. Counting /\ Counting'
    BY <2>1, <2>3 DEF Counting
  <2> QED BY <1>4, <2>1, <2>4
<1>12. CASE UNCHANGED <<attempted, event_queue_, stats_>> /\ pc'["proc"] = pc["proc"]
  BY <1>4, <1>12 DEF Counting
<1> QED BY <1>6, <1>7, <1>8, <1>9, <1>10, <1>11, <1>12, StatVars DEF ProcStep

-----------------------------------------------------------------------------
(* The theorems *)

LEMMA NextIInv ==
    ASSUME IInv, [Next]_vars PROVE IInv'
<1>0. /\ TypeOK /\ Positions /\ Hands /\ Unbatched /\ Once /\ Injective /\ Seen /\ Recent
      /\ Ordered /\ Stats /\ UnsubscribedIsSilent /\ OrderPreserved
  BY DEF IInv
<1>1. CASE Next
  <2>1. TypeOK' /\ Positions' /\ Hands'
    BY <1>0, <1>1, NextTypeOK, NextHands
  <2>2. Unbatched' /\ Once' /\ Injective'
    BY <1>0, <1>1, NextUnbatched, NextOnce, NextInjective
  <2>3. Seen' /\ Recent' /\ UnsubscribedIsSilent'
    BY <1>0, <1>1, NextSeen, NextRecent, NextSilent
  <2>4. Ordered' /\ Stats' /\ OrderPreserved'
    BY <1>0, <1>1, NextOrdered, NextStats, NextOrderPreserved
  <2> QED BY <2>1, <2>2, <2>3, <2>4 DEF IInv
<1>2. CASE UNCHANGED vars
  <2>1. /\ UNCHANGED <<event_queue_, attempted, done, lost, pc, waiters, calls, delivered, stats_,
                       subscriptions_, before, hand, batch_configs_, todo, should_stop_, batches_mutex_>>
    BY <1>2 DEF vars, workVars, historyVars
  <2>2. /\ \A t \in Threads : Held(t)' = Held(t) /\ hand'[t] = hand[t]
        /\ \A ty \in Types : Batched(ty)' = Batched(ty) /\ Pending(ty)' = Pending(ty)
    BY <2>1, SameHeld, SameBatched
  <2>3. TypeOK'
    BY <1>0, <2>1 DEF TypeOK
  <2>4. Positions' /\ Hands'
    BY <1>0, <2>1 DEF Positions, Hands
  <2>5. Unbatched'
    BY <1>0, <2>1, <2>2 DEF Unbatched
  <2>6. Once'
    BY <1>0, <2>1, <2>2 DEF Once
  <2>7. Injective'
    BY <1>0, <2>1, <2>2 DEF Injective
  <2>8. Seen' /\ Recent' /\ UnsubscribedIsSilent' /\ OrderPreserved'
    BY <1>0, <2>1 DEF Seen, Recent, UnsubscribedIsSilent, OrderPreserved
  <2>9. Held("proc")' = Held("proc")
    BY <2>2, ThreadNames
  <2>10. Ordered'
    BY <1>0, <2>1, <2>9 DEF Ordered
  <2>11. Stats'
    BY <1>0, <2>1 DEF Stats, Counting
  <2> QED BY <2>3, <2>4, <2>5, <2>6, <2>7, <2>8, <2>10, <2>11 DEF IInv
<1> QED BY <1>1, <1>2

LEMMA SpecIInv == Spec => []IInv
BY InitIInv, NextIInv, PTL DEF Spec

(* The variables keep their types: in particular the queue never exceeds     *)
(* MaxQueueSize, and a batch holds events of its own type only.              *)
THEOREM TypeCorrect == Spec => []TypeOK
<1>1. IInv => TypeOK
  BY DEF IInv
<1> QED BY <1>1, SpecIInv, PTL

(* Once says what the count of PlacesOf says. *)
LEMMA OnePlace ==
    ASSUME TypeOK, Once, NEW e \in Events
    PROVE  Cardinality(PlacesOf(e)) = IF e \in attempted THEN 1 ELSE 0
<1>1. \A p : p \in PlacesOf(e) <=>
        \/ p = <<"shared", "queue">> /\ e \in event_queue_
        \/ p = <<"shared", "done">> /\ e \in done
        \/ p = <<"shared", "lost">> /\ e \in lost
        \/ \E t \in Threads : p = <<"thread", t>> /\ e \in Held(t)
        \/ \E ty \in Types : p = <<"batch", ty>> /\ e \in Batched(ty)
  BY DEF PlacesOf, Held, Batched
<1>2. CASE e \notin attempted
  <2>1. \A p : p \notin PlacesOf(e)
    BY <1>1, <1>2, Nowhere
  <2>2. PlacesOf(e) = {}
    BY <2>1
  <2> QED BY <1>2, <2>2, FS_EmptySet
<1>3. CASE e \in attempted
  <2>1. \E p : PlacesOf(e) = {p}
    <3>1. CASE e \in event_queue_
      <4>1. /\ e \notin done /\ e \notin lost /\ \A t \in Threads : e \notin Held(t)
            /\ \A ty \in Types : e \notin Batched(ty)
        BY <3>1 DEF Once
      <4>2. PlacesOf(e) = {<<"shared", "queue">>}
        BY <1>1, <3>1, <4>1
      <4> QED BY <4>2
    <3>2. CASE e \in done
      <4>1. /\ e \notin event_queue_ /\ e \notin lost /\ \A t \in Threads : e \notin Held(t)
            /\ \A ty \in Types : e \notin Batched(ty)
        BY <3>2 DEF Once
      <4>2. PlacesOf(e) = {<<"shared", "done">>}
        BY <1>1, <3>2, <4>1
      <4> QED BY <4>2
    <3>3. CASE e \in lost
      <4>1. /\ e \notin event_queue_ /\ e \notin done /\ \A t \in Threads : e \notin Held(t)
            /\ \A ty \in Types : e \notin Batched(ty)
        BY <3>3 DEF Once
      <4>2. PlacesOf(e) = {<<"shared", "lost">>}
        BY <1>1, <3>3, <4>1
      <4> QED BY <4>2
    <3>4. ASSUME NEW t \in Threads, e \in Held(t) PROVE \E p : PlacesOf(e) = {p}
      <4>1. /\ e \notin event_queue_ /\ e \notin done /\ e \notin lost
            /\ \A u \in Threads : e \in Held(u) => u = t
            /\ \A ty \in Types : e \notin Batched(ty)
        BY <3>4 DEF Once
      <4>2. PlacesOf(e) = {<<"thread", t>>}
        BY <1>1, <3>4, <4>1
      <4> QED BY <4>2
    <3>5. ASSUME NEW ty \in Types, e \in Batched(ty) PROVE \E p : PlacesOf(e) = {p}
      <4>1. /\ e \notin event_queue_ /\ e \notin done /\ e \notin lost
            /\ \A u \in Threads : e \notin Held(u)
            /\ \A k \in Types : e \in Batched(k) => k = ty
        BY <3>5 DEF Once
      <4>2. PlacesOf(e) = {<<"batch", ty>>}
        BY <1>1, <3>5, <4>1
      <4> QED BY <4>2
    <3> QED BY <1>3, <3>1, <3>2, <3>3, <3>4, <3>5 DEF Once
  <2> QED BY <1>3, <2>1, FS_Singleton
<1> QED BY <1>2, <1>3

(* For any number of clients, events and types: a published event is in the  *)
(* queue, in one batch, with one thread, processed or dropped, and never in  *)
(* two of them; nothing is delivered to a listener twice; the statistics     *)
(* account for all events when the processing thread is blocked.             *)
THEOREM EventsConserved == Spec => []Conservation
<1>1. IInv => Conservation
  <2> SUFFICES ASSUME IInv PROVE Conservation
    OBVIOUS
  <2>0. TypeOK /\ Once /\ Injective /\ Stats
    BY DEF IInv
  <2>1. \A e \in Events : Cardinality(PlacesOf(e)) = IF e \in attempted THEN 1 ELSE 0
    BY <2>0, OnePlace
  <2>2. /\ \A t \in Threads : IsInjective(hand[t])
        /\ \A ty \in Types : IsInjective(Pending(ty))
        /\ \A l \in Listeners : IsInjective(delivered[l])
    BY <2>0 DEF Injective
  <2>3. stats_.published = Cardinality(attempted)
    BY <2>0 DEF Stats
  <2>4. ASSUME pc["proc"] \in {"sleep", "waiting"}
        PROVE  /\ stats_.pending = Cardinality(event_queue_)
               /\ stats_.processed + Cardinality(event_queue_) <= stats_.published
    <3>1. ~Counting
      BY <2>4 DEF Counting, DeliverySteps
    <3>2. /\ stats_.pending = Cardinality(event_queue_)
          /\ stats_.processed + Cardinality(event_queue_) + 0 <= stats_.published
      BY <2>0, <3>1 DEF Stats
    <3>3. stats_.processed \in Nat
      BY <2>0 DEF TypeOK
    <3>4. Cardinality(event_queue_) \in Nat
      BY <2>0, QueueFinite
    <3>5. stats_.processed + Cardinality(event_queue_) + 0 = stats_.processed + Cardinality(event_queue_)
      BY <3>3, <3>4
    <3> QED BY <3>2, <3>5
  <2> QED BY <2>1, <2>2, <2>3, <2>4 DEF Conservation
<1> QED BY <1>1, SpecIInv, PTL

(* What one client publishes, with one priority and never batched, reaches   *)
(* every listener in that order, whatever else is published and delivered    *)
(* at the same time.                                                         *)
THEOREM OrderIsPreserved == Spec => []OrderPreserved
<1>1. IInv => OrderPreserved
  BY DEF IInv
<1> QED BY <1>1, SpecIInv, PTL

(* A listener never sees an event published after it unsubscribed, although  *)
(* the threads call listeners from copies of the subscriptions.              *)
THEOREM SilentOnceUnsubscribed == Spec => []UnsubscribedIsSilent
<1>1. IInv => UnsubscribedIsSilent
  BY DEF IInv
<1> QED BY <1>1, SpecIInv, PTL

(* resetInstance() returns after both threads have ended, so that it leaves  *)
(* nobody who could call a listener.                                         *)
THEOREM SilentOnceReset == Spec => ResetSilences
<1>1. ASSUME IInv, [Next]_vars, pc["main"] = "gone" PROVE UNCHANGED delivered
  <2>0. TypeOK /\ Positions
    BY <1>1 DEF IInv
  <2>1. \A t \in Threads : pc[t] # "notify"
    BY <1>1, <2>0, ThreadNames DEF Positions
  <2>2. CASE Next
    <3>1. ASSUME NEW t \in Threads, Dispatch(t) PROVE UNCHANGED delivered
      BY <3>1 DEF Dispatch, historyVars
    <3>2. ASSUME NEW c, NEW k, subscribe(c, k) \/ unsubscribe(c, k) PROVE UNCHANGED delivered
      BY <3>2 DEF subscribe, unsubscribe, historyVars
    <3>3. ASSUME NEW t \in Threads, Notify(t) PROVE FALSE
      BY <2>1, <3>3 DEF Notify
    <3> QED BY <2>2, <3>1, <3>2, <3>3, Calling
  <2>3. CASE UNCHANGED vars
    BY <2>3 DEF vars, historyVars
  <2> QED BY <1>1, <2>2, <2>3
<1>2. IInv /\ [Next]_vars => [pc["main"] = "gone" => UNCHANGED delivered]_vars
  BY <1>1
<1> QED BY <1>2, SpecIInv, PTL DEF Spec, ResetSilences

(* The queue gets events or the waiting set gets the processing thread only  *)
(* when the other is out of the question; so only a notification that went   *)
(* to another waiter, and these are in flush(), leaves the thread asleep.    *)
LEMMA StrandedByFlush ==
    ASSUME IInv, Next, ~Stranded, Stranded'
    PROVE  \E c \in Clients : c \in waiters \ waiters' /\ pc[c] = "flushWait"
<1>0. TypeOK /\ Positions
  BY DEF IInv
<1>1. /\ event_queue_' # {} /\ "proc" \in waiters' /\ \A c \in Clients : pc'[c] # "notifyOne"
      /\ event_queue_ = {} \/ "proc" \notin waiters \/ \E c \in Clients : pc[c] = "notifyOne"
  BY DEF Stranded
<1>2. ASSUME NEW c \in Clients, NotifyOne(c) PROVE \E k \in Clients : k \in waiters \ waiters' /\ pc[k] = "flushWait"
  <2>1. PICK w \in waiters : waiters' = waiters \ {w}
    BY <1>1, <1>2 DEF NotifyOne
  <2>2. w # "proc" /\ w \notin waiters'
    BY <1>1, <2>1
  <2> QED BY <1>0, <2>1, <2>2 DEF Positions
<1>3. ASSUME event_queue_' \subseteq event_queue_, waiters' \subseteq waiters,
             \A c \in Clients : pc[c] = "notifyOne" => pc'[c] = "notifyOne"
      PROVE  FALSE
  BY <1>1, <1>3
<1>4. \A t \in Threads : \A step :
        Goto(t, step) /\ pc[t] # "notifyOne" =>
          \A c \in Clients : pc[c] = "notifyOne" => pc'[c] = "notifyOne"
  BY <1>0, GotoStep, ThreadNames
<1>5. ASSUME ProcStep PROVE FALSE
  <2>1. event_queue_' \subseteq event_queue_ /\ pc["proc"] # "notifyOne" /\ \E step : Goto("proc", step)
    BY <1>5 DEF ProcStep, ProcCheck, ProcBlock, ProcRoute, ProcStat, Awake
  <2>2. CASE ProcBlock
    BY <1>0, <1>1, <2>1, <2>2 DEF ProcBlock, Positions
  <2>3. CASE UNCHANGED waiters
    BY <1>3, <1>4, <2>1, <2>3, ThreadNames
  <2> QED BY <1>5, <2>2, <2>3 DEF ProcStep, ProcCheck, ProcRoute, ProcStat
<1>6. ASSUME BatchTest \/ ResetStop \/ ResetStep \/ \E due \in SUBSET NonEmpty : BatchScan(due)
      PROVE  FALSE
  <2>1. /\ UNCHANGED event_queue_ /\ waiters' \subseteq waiters
        /\ \E t \in {"batch", "main"} : \E step : pc[t] # "notifyOne" /\ Goto(t, step)
    BY <1>6 DEF BatchTest, ResetStop, ResetStep, ResetNotify, ResetJoin, BatchScan
  <2> QED BY <1>3, <1>4, <2>1, ThreadNames
<1>7. ASSUME NEW t \in Threads, Deliver(t) PROVE FALSE
  <2>1. /\ UNCHANGED <<event_queue_, waiters>> /\ pc[t] # "notifyOne"
        /\ UNCHANGED pc \/ \E step : Goto(t, step)
    BY <1>7 DEF Deliver, TakeBatch, Dispatch, Notify
  <2> QED BY <1>3, <1>4, <2>1
<1>8. ASSUME NEW c \in Clients,
             FlushBlock(c) \/ FlushTimeout(c) \/ FlushBatches(c) \/ FlushCheck(c)
      PROVE  FALSE
  <2>1. /\ UNCHANGED event_queue_ /\ waiters' \subseteq waiters \cup {c}
        /\ pc[c] # "notifyOne" /\ \E step : Goto(c, step)
    BY <1>8 DEF FlushBlock, FlushTimeout, FlushBatches, FlushCheck, MayCall
  <2>2. "proc" \in waiters
    BY <1>1, <2>1, ThreadNames
  <2>3. \A k \in Clients : pc[k] = "notifyOne" => pc'[k] = "notifyOne"
    BY <1>4, <2>1, ThreadNames
  <2> QED BY <1>1, <2>1, <2>2, <2>3
<1>9. ASSUME NEW c \in Clients, NEW e \in Events, publish(c, e) PROVE FALSE
  <2>1. pc[c] = "idle" /\ UNCHANGED waiters /\ (UNCHANGED <<event_queue_, pc>> \/ Goto(c, "notifyOne"))
    BY <1>9 DEF publish, MayCall
  <2>2. CASE UNCHANGED <<event_queue_, pc>>
    BY <1>3, <2>1, <2>2
  <2>3. CASE Goto(c, "notifyOne")
    BY <1>0, <1>1, <2>3, GotoStep, ThreadNames
  <2> QED BY <2>1, <2>2, <2>3
<1>10. ASSUME NEW c \in Clients,
              \/ \E l \in Listeners : subscribe(c, l) \/ unsubscribe(c, l)
              \/ \E ty \in Batchable : enableBatching(c, ty) \/ disableBatching(c, ty)
       PROVE  FALSE
  <2>1. UNCHANGED <<event_queue_, waiters>> /\ pc[c] = "idle"
    BY <1>10 DEF subscribe, unsubscribe, enableBatching, disableBatching, MayCall
  <2>2. \/ UNCHANGED pc \/ \E step : Goto(c, step)
        \/ pc' = [pc EXCEPT !["batch"] = IF @ = "off" THEN "test" ELSE @]
    BY <1>10 DEF subscribe, unsubscribe, enableBatching, disableBatching
  <2>3. CASE pc' = [pc EXCEPT !["batch"] = IF @ = "off" THEN "test" ELSE @]
    <3>1. \A k \in Clients : k # "batch" /\ k \in Threads
      BY ThreadNames
    <3>2. \A k \in Clients : pc'[k] = pc[k]
      BY <1>0, <2>3, <3>1 DEF TypeOK
    <3> QED BY <1>3, <2>1, <3>2
  <2> QED BY <1>3, <1>4, <2>1, <2>2, <2>3, ThreadNames
<1> QED BY <1>2, <1>5, <1>6, <1>7, <1>8, <1>9, <1>10 DEF Next, ClientStep

(* The processing thread is left asleep over a queue with events only when   *)
(* notify_one() of publish() wakes a thread in flush() instead.              *)
THEOREM StrandedOnlyByFlush == Spec => OnlyFlushStrands
<1>1. IInv /\ [Next]_vars =>
        [~Stranded /\ Stranded' => \E c \in Clients : c \in waiters \ waiters' /\ pc[c] = "flushWait"]_vars
  BY StrandedByFlush
<1> QED BY <1>1, SpecIInv, PTL DEF Spec, OnlyFlushStrands

=============================================================================
