------------------------- MODULE EventManagerDelivery -------------------------
(***************************************************************************)
(* What the steps of EventManager preserve: an event is in one place, no   *)
(* listener is called twice for one event or after it has unsubscribed but *)
(* for what was published before, and events come in order.  Each lemma    *)
(* Next... says that a step preserves one conjunct of the inductive        *)
(* invariant, which EventManagerProofs puts together.                      *)
(***************************************************************************)
EXTENDS EventManagerSteps

(* Only the processing thread ever holds an event that is not batched, and   *)
(* it holds nothing else then.                                               *)
Unbatched ==
    /\ DOMAIN batch_configs_ \subseteq Batchable
    /\ \A t \in Threads : \A e \in Held(t) :
          TypeOf[e] \in Batchable \/ (t = "proc" /\ hand[t] = <<e>>)

(* An event is in one place, from when it is published. *)
Once ==
    /\ \A e \in Events :
          e \in attempted <=> \/ e \in event_queue_ \/ e \in done \/ e \in lost
                              \/ \E t \in Threads : e \in Held(t)
                              \/ \E ty \in Types : e \in Batched(ty)
    /\ event_queue_ \cap done = {} /\ event_queue_ \cap lost = {} /\ done \cap lost = {}
    /\ \A t \in Threads : \A e \in Held(t) :
          /\ e \notin event_queue_ /\ e \notin done /\ e \notin lost
          /\ \A u \in Threads : e \in Held(u) => u = t
          /\ \A ty \in Types : e \notin Batched(ty)
    /\ \A ty \in Types : \A e \in Batched(ty) :
          TypeOf[e] = ty /\ e \notin event_queue_ /\ e \notin done /\ e \notin lost

Injective ==
    /\ \A t \in Threads : IsInjective(hand[t])
    /\ \A ty \in Types : IsInjective(Pending(ty))
    /\ \A l \in Listeners : IsInjective(delivered[l])

(* What a listener has seen has been dealt with, or is being dealt with by a *)
(* thread that will not call the listener again.                             *)
Seen ==
    \A l \in Listeners : \A e \in Range(delivered[l]) :
        \/ e \in done
        \/ \E t \in Threads : pc[t] = "notify" /\ e = Head(hand[t]) /\ l \notin calls[t]

(* A listener still to be called after it unsubscribed is to be told of an   *)
(* event that was published before.                                          *)
Recent ==
    \A t \in Threads : \A l \in calls[t] :
        /\ subscriptions_[l] # "new"
        /\ subscriptions_[l] = "ended" => Head(hand[t]) \in before[l]

(* Clients publish their events in order, and of those that the comparator   *)
(* orders by age the older leave the queue first.                            *)
Alike(e, f) ==
    /\ ClientOf[e] = ClientOf[f] /\ PriorityOf[e] = PriorityOf[f]
    /\ TypeOf[e] \notin Batchable /\ TypeOf[f] \notin Batchable

Ordered ==
    /\ \A e \in attempted, f \in Events :
          ClientOf[e] = ClientOf[f] /\ f < e => f \in attempted
    /\ \A e, f \in Events : Alike(e, f) =>
          /\ e \in done \cup Held("proc") /\ f \in event_queue_ => e < f
          /\ e \in done /\ f \in Held("proc") => e < f

-----------------------------------------------------------------------------
(* Every event in one place *)

LEMMA HeldType ==
    ASSUME TypeOK PROVE \A t \in Threads : Held(t) \subseteq Events
<1> SUFFICES ASSUME NEW t \in Threads PROVE Held(t) \subseteq Events
  OBVIOUS
<1>1. hand[t] \in Seq(Events)
  BY DEF TypeOK
<1> QED BY <1>1, SetOfSeq DEF Held

(* An event that is not published yet is nowhere. *)
LEMMA Nowhere ==
    ASSUME TypeOK, Once, NEW e \in Events, e \notin attempted
    PROVE  /\ e \notin event_queue_ /\ e \notin done /\ e \notin lost
           /\ \A t \in Threads : e \notin Held(t)
           /\ \A ty \in Types : e \notin Batched(ty)
BY DEF Once

LEMMA publishOnce ==
    ASSUME TypeOK, Once, NEW c, NEW e \in Events, publish(c, e)
    PROVE  Once'
<1>1. /\ UNCHANGED <<batch_configs_, hand, done>> /\ e \notin attempted
      /\ attempted' = attempted \cup {e}
      /\ \/ event_queue_' = event_queue_ \cup {e} /\ UNCHANGED lost
         \/ lost' = lost \cup {e} /\ UNCHANGED event_queue_
  BY PublishEffect
<1>2. /\ \A t \in Threads : Held(t)' = Held(t)
      /\ \A ty \in Types : Batched(ty)' = Batched(ty)
  BY <1>1, SameHeld, SameBatched
<1>3. /\ e \notin event_queue_ /\ e \notin done /\ e \notin lost
      /\ \A t \in Threads : e \notin Held(t)
      /\ \A ty \in Types : e \notin Batched(ty)
  BY <1>1, Nowhere
<1>4. \A f : f \in event_queue_' \/ f \in lost' <=> f \in event_queue_ \/ f \in lost \/ f = e
  BY <1>1
<1>5. \A f \in Events :
        f \in attempted' <=> \/ f \in event_queue_' \/ f \in done' \/ f \in lost'
                             \/ \E t \in Threads : f \in Held(t)'
                             \/ \E ty \in Types : f \in Batched(ty)'
  BY <1>1, <1>2, <1>4 DEF Once
<1>6. event_queue_' \cap done' = {} /\ event_queue_' \cap lost' = {} /\ done' \cap lost' = {}
  BY <1>1, <1>3 DEF Once
<1>7. \A t \in Threads : \A f \in Held(t)' :
        /\ f \notin event_queue_' /\ f \notin done' /\ f \notin lost'
        /\ \A u \in Threads : f \in Held(u)' => u = t
        /\ \A ty \in Types : f \notin Batched(ty)'
  BY <1>1, <1>2, <1>3, <1>4 DEF Once
<1>8. \A ty \in Types : \A f \in Batched(ty)' :
        TypeOf[f] = ty /\ f \notin event_queue_' /\ f \notin done' /\ f \notin lost'
  BY <1>1, <1>2, <1>3, <1>4 DEF Once
<1> QED BY <1>5, <1>6, <1>7, <1>8 DEF Once

LEMMA popOnce ==
    ASSUME TypeOK, Once, Hands, ProcCheck
    PROVE  Once'
<1>0. "proc" \in Threads
  BY ThreadNames
<1>1. /\ UNCHANGED <<batch_configs_, attempted, done, lost>>
      /\ Held("proc") = {}
      /\ \/ UNCHANGED <<event_queue_, hand>>
         \/ \E e \in event_queue_ :
              /\ event_queue_' = event_queue_ \ {e}
              /\ Held("proc")' = {e}
              /\ \A t \in Threads : t # "proc" => Held(t)' = Held(t)
  BY PopEffect
<1>2. \A ty \in Types : Batched(ty)' = Batched(ty)
  BY <1>1, SameBatched
<1>3. CASE UNCHANGED <<event_queue_, hand>>
  <2>1. \A t \in Threads : Held(t)' = Held(t)
    BY <1>3, SameHeld, Zenon
  <2> QED BY <1>1, <1>2, <1>3, <2>1 DEF Once
<1>4. ASSUME NEW e \in event_queue_, event_queue_' = event_queue_ \ {e}, Held("proc")' = {e},
             \A t \in Threads : t # "proc" => Held(t)' = Held(t)
      PROVE  Once'
  <2>1. /\ e \in Events /\ e \notin done /\ e \notin lost
        /\ \A t \in Threads : e \notin Held(t)
        /\ \A ty \in Types : e \notin Batched(ty)
    BY DEF Once, TypeOK
  <2>2. \A f : \A t \in Threads : f \in Held(t)' <=> f \in Held(t) \/ (t = "proc" /\ f = e)
    BY <1>1, <1>4
  <2>3. \A f : (\E t \in Threads : f \in Held(t)') <=> (f = e \/ \E t \in Threads : f \in Held(t))
    BY <1>0, <2>2
  <2>4. \A f \in Events :
          f \in attempted' <=> \/ f \in event_queue_' \/ f \in done' \/ f \in lost'
                               \/ \E t \in Threads : f \in Held(t)'
                               \/ \E ty \in Types : f \in Batched(ty)'
    BY <1>1, <1>2, <1>4, <2>3 DEF Once
  <2>5. event_queue_' \cap done' = {} /\ event_queue_' \cap lost' = {} /\ done' \cap lost' = {}
    BY <1>1, <1>4 DEF Once
  <2>6. \A t \in Threads : \A f \in Held(t)' :
          /\ f \notin event_queue_' /\ f \notin done' /\ f \notin lost'
          /\ \A u \in Threads : f \in Held(u)' => u = t
          /\ \A ty \in Types : f \notin Batched(ty)'
    BY <1>1, <1>2, <1>4, <2>1, <2>2 DEF Once
  <2>7. \A ty \in Types : \A f \in Batched(ty)' :
          TypeOf[f] = ty /\ f \notin event_queue_' /\ f \notin done' /\ f \notin lost'
    BY <1>1, <1>2, <1>4 DEF Once
  <2> QED BY <2>4, <2>5, <2>6, <2>7, Zenon DEF Once
<1> QED BY <1>1, <1>3, <1>4

LEMMA routeOnce ==
    ASSUME TypeOK, Once, Hands, ProcRoute
    PROVE  Once'
<1>0. "proc" \in Threads
  BY ThreadNames
<1>1. PICK e \in Events :
        /\ Held("proc") = {e}
        /\ \/ UNCHANGED <<batch_configs_, hand>>
           \/ /\ Batched(TypeOf[e])' = Batched(TypeOf[e]) \cup {e}
              /\ \A ty \in Types : ty # TypeOf[e] => Batched(ty)' = Batched(ty)
              /\ Held("proc")' = {}
              /\ \A t \in Threads : t # "proc" => Held(t)' = Held(t)
  BY RouteEffect
<1>2. UNCHANGED <<event_queue_, attempted, done, lost>>
  BY RouteEffect
<1>3. CASE UNCHANGED <<batch_configs_, hand>>
  <2>1. /\ \A t \in Threads : Held(t)' = Held(t)
        /\ \A ty \in Types : Batched(ty)' = Batched(ty)
    BY <1>3, SameHeld, SameBatched, Zenon
  <2> QED BY <1>2, <2>1 DEF Once
<1>4. CASE /\ Batched(TypeOf[e])' = Batched(TypeOf[e]) \cup {e}
           /\ \A ty \in Types : ty # TypeOf[e] => Batched(ty)' = Batched(ty)
           /\ Held("proc")' = {}
           /\ \A t \in Threads : t # "proc" => Held(t)' = Held(t)
  <2>0. TypeOf[e] \in Types
    BY EventManagerAssumption
  <2>1. /\ e \notin event_queue_ /\ e \notin done /\ e \notin lost
        /\ \A t \in Threads : t # "proc" => e \notin Held(t)
    BY <1>0, <1>1 DEF Once
  <2>2. \A f : \A t \in Threads : f \in Held(t) <=> f \in Held(t)' \/ (t = "proc" /\ f = e)
    BY <1>1, <1>4
  <2>3. \A f : \A ty \in Types :
          f \in Batched(ty)' <=> f \in Batched(ty) \/ (ty = TypeOf[e] /\ f = e)
    BY <1>4
  <2>4. \A f : \/ \E t \in Threads : f \in Held(t)'
               \/ \E ty \in Types : f \in Batched(ty)'
             <=> \/ \E t \in Threads : f \in Held(t)
                 \/ \E ty \in Types : f \in Batched(ty)
    BY <1>0, <2>0, <2>2, <2>3, Zenon
  <2>5. \A f \in Events :
          f \in attempted' <=> \/ f \in event_queue_' \/ f \in done' \/ f \in lost'
                               \/ \E t \in Threads : f \in Held(t)'
                               \/ \E ty \in Types : f \in Batched(ty)'
    BY <1>2, <2>4 DEF Once
  <2>6. \A t \in Threads : e \notin Held(t)'
    BY <1>4, <2>1, <1>0
  <2>7. \A t \in Threads : \A f \in Held(t)' :
          /\ f \notin event_queue_' /\ f \notin done' /\ f \notin lost'
          /\ \A u \in Threads : f \in Held(u)' => u = t
          /\ \A ty \in Types : f \notin Batched(ty)'
    BY <1>2, <2>2, <2>3, <2>6 DEF Once
  <2>8. \A ty \in Types : \A f \in Batched(ty)' :
          TypeOf[f] = ty /\ f \notin event_queue_' /\ f \notin done' /\ f \notin lost'
    BY <1>2, <2>1, <2>3 DEF Once
  <2> QED BY <1>2, <2>5, <2>7, <2>8, Zenon DEF Once
<1> QED BY <1>1, <1>3, <1>4, Zenon

LEMMA takeOnce ==
    ASSUME TypeOK, Once, Hands, NEW t \in Threads, TakeBatch(t)
    PROVE  Once'
<1>1. UNCHANGED <<event_queue_, attempted, done, lost>> /\ Held(t) = {}
  BY TakeEffect
<1>2. PICK ty \in Types :
        /\ Held(t)' = Batched(ty) /\ Batched(ty)' = {}
        /\ \A k \in Types : k # ty => Batched(k)' = Batched(k)
        /\ \A u \in Threads : u # t => Held(u)' = Held(u)
  BY TakeEffect
<1>3. \A f : \A u \in Threads : f \in Held(u)' <=> f \in Held(u) \/ (u = t /\ f \in Batched(ty))
  BY <1>1, <1>2
<1>4. \A f : \A k \in Types : f \in Batched(k)' <=> f \in Batched(k) /\ k # ty
  BY <1>2
<1>5. \A f : \/ \E u \in Threads : f \in Held(u)'
             \/ \E k \in Types : f \in Batched(k)'
           <=> \/ \E u \in Threads : f \in Held(u)
               \/ \E k \in Types : f \in Batched(k)
  BY <1>3, <1>4, Zenon
<1>6. \A f \in Events :
        f \in attempted' <=> \/ f \in event_queue_' \/ f \in done' \/ f \in lost'
                             \/ \E u \in Threads : f \in Held(u)'
                             \/ \E k \in Types : f \in Batched(k)'
  BY <1>1, <1>5 DEF Once
<1>7. \A u \in Threads : \A f \in Held(u)' :
        f \notin event_queue_' /\ f \notin done' /\ f \notin lost'
  BY <1>1, <1>3, Zenon DEF Once
<1>8. \A u \in Threads : \A f \in Held(u)' : \A v \in Threads : f \in Held(v)' => v = u
  BY <1>3 DEF Once
<1>9. \A u \in Threads : \A f \in Held(u)' : \A k \in Types : f \notin Batched(k)'
  BY <1>3, <1>4, Zenon DEF Once
<1>10. \A k \in Types : \A f \in Batched(k)' :
         TypeOf[f] = k /\ f \notin event_queue_' /\ f \notin done' /\ f \notin lost'
  BY <1>1, <1>4 DEF Once
<1> QED BY <1>1, <1>6, <1>7, <1>8, <1>9, <1>10, Zenon DEF Once

LEMMA notifyOnce ==
    ASSUME TypeOK, Once, Hands, Injective, NEW t \in Threads, Notify(t)
    PROVE  Once'
<1> DEFINE e == Head(hand[t])
<1>1. /\ UNCHANGED <<event_queue_, batch_configs_, attempted, lost>> /\ e \in Held(t) /\ e \in Events
      /\ \/ UNCHANGED <<hand, done>>
         \/ /\ done' = done \cup {e}
            /\ Held(t) = {e} \cup Held(t)'
            /\ IsInjective(hand[t]) => e \notin Held(t)'
            /\ \A u \in Threads : u # t => Held(u)' = Held(u)
  BY NotifyEffect
<1>2. \A ty \in Types : Batched(ty)' = Batched(ty)
  BY <1>1, SameBatched
<1>3. IsInjective(hand[t])
  BY DEF Injective
<1> HIDE DEF e
<1>4. CASE UNCHANGED <<hand, done>>
  <2>1. \A u \in Threads : Held(u)' = Held(u)
    BY <1>4, SameHeld, Zenon
  <2> QED BY <1>1, <1>2, <1>4, <2>1 DEF Once
<1>5. CASE /\ done' = done \cup {e}
           /\ Held(t) = {e} \cup Held(t)'
           /\ e \notin Held(t)'
           /\ \A u \in Threads : u # t => Held(u)' = Held(u)
  <2>1. /\ e \notin event_queue_ /\ e \notin done /\ e \notin lost
        /\ \A u \in Threads : u # t => e \notin Held(u)
        /\ \A ty \in Types : e \notin Batched(ty)
    BY <1>1 DEF Once
  <2>2. \A f : \A u \in Threads : f \in Held(u)' <=> f \in Held(u) /\ f # e
    BY <1>5, <2>1
  <2>3. \A f : f = e \/ (\E u \in Threads : f \in Held(u)') <=> \E u \in Threads : f \in Held(u)
    BY <1>1, <2>2
  <2>4. \A f \in Events :
          f \in attempted' <=> \/ f \in event_queue_' \/ f \in done' \/ f \in lost'
                               \/ \E u \in Threads : f \in Held(u)'
                               \/ \E k \in Types : f \in Batched(k)'
    BY <1>1, <1>2, <1>5, <2>3 DEF Once
  <2>5. event_queue_' \cap done' = {} /\ event_queue_' \cap lost' = {} /\ done' \cap lost' = {}
    BY <1>1, <1>5, <2>1 DEF Once
  <2>6. \A u \in Threads : \A f \in Held(u)' :
          /\ f \notin event_queue_' /\ f \notin done' /\ f \notin lost'
          /\ \A v \in Threads : f \in Held(v)' => v = u
          /\ \A k \in Types : f \notin Batched(k)'
    BY <1>1, <1>2, <1>5, <2>2 DEF Once
  <2>7. \A k \in Types : \A f \in Batched(k)' :
          TypeOf[f] = k /\ f \notin event_queue_' /\ f \notin done' /\ f \notin lost'
    BY <1>1, <1>2, <1>5, <2>1 DEF Once
  <2> QED BY <2>4, <2>5, <2>6, <2>7, Zenon DEF Once
<1> QED BY <1>1, <1>3, <1>4, <1>5, Zenon

LEMMA batchingOnce ==
    ASSUME TypeOK, Once, NEW c, NEW ty \in Batchable,
           enableBatching(c, ty) \/ disableBatching(c, ty)
    PROVE  Once'
<1>0. ty \in Types
  BY EventManagerAssumption
<1>1. UNCHANGED <<event_queue_, hand, attempted, done>>
  BY EnableEffect, DisableEffect
<1>2. \A t \in Threads : Held(t)' = Held(t)
  BY <1>1, SameHeld
<1>3. CASE enableBatching(c, ty)
  <2>1. /\ lost' = lost \cup Batched(ty) /\ Batched(ty)' = {}
        /\ \A k \in Types : k # ty => Batched(k)' = Batched(k)
    BY <1>3, EnableEffect
  <2>2. \A f : \A k \in Types : f \in Batched(k)' <=> f \in Batched(k) /\ k # ty
    BY <2>1
  <2>3. \A f : f \in lost' \/ (\E k \in Types : f \in Batched(k)')
                 <=> f \in lost \/ \E k \in Types : f \in Batched(k)
    BY <1>0, <2>1, <2>2
  <2>4. \A f \in Events :
          f \in attempted' <=> \/ f \in event_queue_' \/ f \in done' \/ f \in lost'
                               \/ \E u \in Threads : f \in Held(u)'
                               \/ \E k \in Types : f \in Batched(k)'
    BY <1>1, <1>2, <2>3 DEF Once
  <2>5. \A f \in Batched(ty) : f \notin event_queue_ /\ f \notin done /\ TypeOf[f] = ty
    BY <1>0 DEF Once
  <2>6. event_queue_' \cap done' = {} /\ event_queue_' \cap lost' = {} /\ done' \cap lost' = {}
    BY <1>1, <2>1, <2>5 DEF Once
  <2>7. \A u \in Threads : \A f \in Held(u)' :
          /\ f \notin event_queue_' /\ f \notin done' /\ f \notin lost'
          /\ \A v \in Threads : f \in Held(v)' => v = u
          /\ \A k \in Types : f \notin Batched(k)'
    BY <1>0, <1>1, <1>2, <2>1, <2>2 DEF Once
  <2>8. \A k \in Types : \A f \in Batched(k)' :
          TypeOf[f] = k /\ f \notin event_queue_' /\ f \notin done' /\ f \notin lost'
    BY <1>1, <2>1, <2>2, <2>5, Zenon DEF Once
  <2> QED BY <2>4, <2>6, <2>7, <2>8 DEF Once
<1>4. CASE disableBatching(c, ty)
  <2>1. UNCHANGED lost /\ \A k \in Types : Batched(k)' = Batched(k)
    BY <1>4, DisableEffect, Zenon
  <2> QED BY <1>1, <1>2, <2>1 DEF Once
<1> QED BY <1>3, <1>4

LEMMA NextOnce ==
    ASSUME TypeOK, Once, Hands, Injective, Next
    PROVE  Once'
<1>1. CASE UNCHANGED placeVars
  <2>1. /\ UNCHANGED <<event_queue_, attempted, done, lost>>
        /\ \A t \in Threads : Held(t)' = Held(t)
        /\ \A ty \in Types : Batched(ty)' = Batched(ty)
    BY <1>1, SameHeld, SameBatched, Zenon DEF placeVars
  <2> QED BY <2>1 DEF Once
<1> QED BY <1>1, Moves, publishOnce, popOnce, routeOnce, takeOnce, notifyOnce, batchingOnce, Zenon

-----------------------------------------------------------------------------
(* What only the processing thread handles *)

LEMMA NextUnbatched ==
    ASSUME TypeOK, Hands, Once, Unbatched, Next
    PROVE  Unbatched'
<1>0. \A t \in Threads : \A e \in Held(t) :
        TypeOf[e] \in Batchable \/ (t = "proc" /\ hand[t] = <<e>>)
  BY DEF Unbatched
<1>1. CASE UNCHANGED placeVars
  <2>1. UNCHANGED batch_configs_ /\ \A t \in Threads : Held(t)' = Held(t) /\ hand'[t] = hand[t]
    BY <1>1, SameHeld DEF placeVars
  <2> QED BY <2>1 DEF Unbatched
<1>2. ASSUME NEW c, NEW e, publish(c, e) PROVE Unbatched'
  <2>1. UNCHANGED <<batch_configs_, hand>>
    BY <1>2, PublishEffect
  <2>2. \A t \in Threads : Held(t)' = Held(t) /\ hand'[t] = hand[t]
    BY <2>1, SameHeld
  <2> QED BY <2>1, <2>2 DEF Unbatched
<1>3. CASE ProcCheck
  <2>1. UNCHANGED batch_configs_
    BY <1>3, PopEffect
  <2>2. CASE UNCHANGED hand
    <3>1. \A t \in Threads : Held(t)' = Held(t) /\ hand'[t] = hand[t]
      BY <2>2, SameHeld
    <3> QED BY <2>1, <3>1 DEF Unbatched
  <2>3. ASSUME NEW e, hand'["proc"] = <<e>>, Held("proc")' = {e},
               \A t \in Threads : t # "proc" => hand'[t] = hand[t] /\ Held(t)' = Held(t)
        PROVE  Unbatched'
    <3>1. \A t \in Threads : \A f \in Held(t)' :
            TypeOf[f] \in Batchable \/ (t = "proc" /\ hand'[t] = <<f>>)
      BY <1>0, <2>3
    <3> QED BY <2>1, <3>1 DEF Unbatched
  <2> QED BY <1>3, <2>2, <2>3, PopEffect
<1>4. CASE ProcRoute
  <2>1. CASE UNCHANGED <<batch_configs_, hand>>
    <3>1. \A t \in Threads : Held(t)' = Held(t) /\ hand'[t] = hand[t]
      BY <2>1, SameHeld, Zenon
    <3> QED BY <2>1, <3>1 DEF Unbatched
  <2>2. CASE /\ DOMAIN batch_configs_' = DOMAIN batch_configs_ /\ Held("proc")' = {}
             /\ \A t \in Threads : t # "proc" => hand'[t] = hand[t] /\ Held(t)' = Held(t)
    <3>1. \A t \in Threads : \A f \in Held(t)' :
            TypeOf[f] \in Batchable \/ (t = "proc" /\ hand'[t] = <<f>>)
      BY <1>0, <2>2
    <3> QED BY <2>2, <3>1 DEF Unbatched
  <2> QED BY <1>4, <2>1, <2>2, RouteEffect, Zenon
<1>5. ASSUME NEW t \in Threads, TakeBatch(t) PROVE Unbatched'
  <2>1. PICK ty \in Types : /\ hand'[t] = Pending(ty) /\ Held(t)' = Batched(ty)
                            /\ \A u \in Threads : u # t => hand'[u] = hand[u] /\ Held(u)' = Held(u)
    BY <1>5, TakeEffect
  <2>2. \A f \in Batched(ty) : TypeOf[f] \in Batchable
    <3>1. CASE ty \in DOMAIN batch_configs_
      <4>1. ty \in Batchable
        BY <3>1 DEF Unbatched
      <4> QED BY <4>1, PendingType
    <3>2. CASE ty \notin DOMAIN batch_configs_
      <4>1. Batched(ty) = {}
        BY <3>2, SetOfEmpty DEF Batched, Pending
      <4> QED BY <4>1
    <3> QED BY <3>1, <3>2
  <2>3. \A u \in Threads : \A f \in Held(u)' :
          TypeOf[f] \in Batchable \/ (u = "proc" /\ hand'[u] = <<f>>)
    BY <1>0, <2>1, <2>2
  <2>4. DOMAIN batch_configs_' = DOMAIN batch_configs_
    BY <1>5, TakeEffect
  <2> QED BY <2>3, <2>4 DEF Unbatched
<1>6. ASSUME NEW t \in Threads, Notify(t) PROVE Unbatched'
  <2>1. UNCHANGED batch_configs_
    BY <1>6, NotifyEffect
  <2>2. CASE UNCHANGED hand
    <3>1. \A u \in Threads : Held(u)' = Held(u) /\ hand'[u] = hand[u]
      BY <2>2, SameHeld
    <3> QED BY <2>1, <3>1 DEF Unbatched
  <2>3. CASE /\ hand'[t] = Tail(hand[t]) /\ Held(t) = {Head(hand[t])} \cup Held(t)'
             /\ \A u \in Threads : u # t => hand'[u] = hand[u] /\ Held(u)' = Held(u)
    <3>1. ASSUME NEW f \in Held(t)' PROVE TypeOf[f] \in Batchable
      <4>1. f \in Held(t)
        BY <2>3
      <4>2. ASSUME hand[t] = <<f>> PROVE FALSE
        <5>1. hand'[t] = <<>>
          BY <2>3, <4>2
        <5>2. Held(t)' = {}
          BY <5>1, SetOfEmpty DEF Held
        <5> QED BY <5>2
      <4> QED BY <1>0, <4>1, <4>2
    <3>2. \A u \in Threads : \A f \in Held(u)' :
            TypeOf[f] \in Batchable \/ (u = "proc" /\ hand'[u] = <<f>>)
      BY <1>0, <2>3, <3>1
    <3> QED BY <2>1, <3>2 DEF Unbatched
  <2> QED BY <1>6, <2>2, <2>3, NotifyEffect
<1>7. ASSUME NEW c, NEW ty \in Batchable, enableBatching(c, ty) \/ disableBatching(c, ty)
      PROVE  Unbatched'
  <2>1. UNCHANGED hand /\ DOMAIN batch_configs_' \subseteq DOMAIN batch_configs_ \cup {ty}
    BY <1>7, EnableEffect, DisableEffect
  <2>2. \A t \in Threads : Held(t)' = Held(t) /\ hand'[t] = hand[t]
    BY <2>1, SameHeld
  <2> QED BY <2>1, <2>2 DEF Unbatched
<1> QED BY <1>1, <1>2, <1>3, <1>4, <1>5, <1>6, <1>7, Moves, Zenon

-----------------------------------------------------------------------------
(* Calling the listeners *)

LEMMA Calling ==
    ASSUME Next
    PROVE  \/ UNCHANGED <<subscriptions_, calls, delivered, before>>
           \/ \E c \in Clients, l \in Listeners : subscribe(c, l) \/ unsubscribe(c, l)
           \/ \E t \in Threads : Dispatch(t) \/ Notify(t)
<1>1. CASE ProcStep
  BY <1>1 DEF ProcStep, ProcCheck, ProcRoute, ProcBlock, ProcStat, workVars, historyVars
<1>2. CASE BatchTest \/ ResetStop \/ ResetStep \/ \E due \in SUBSET NonEmpty : BatchScan(due)
  BY <1>2 DEF BatchTest, ResetStop, ResetStep, ResetNotify, ResetJoin, BatchScan,
              workVars, historyVars
<1>3. ASSUME NEW t \in Threads, Deliver(t)
      PROVE  Dispatch(t) \/ Notify(t) \/ UNCHANGED <<subscriptions_, calls, delivered, before>>
  BY <1>3 DEF Deliver, TakeBatch, historyVars
<1>4. ASSUME NEW c \in Clients, ClientStep(c) \/ FlushCheck(c)
      PROVE  UNCHANGED <<subscriptions_, calls, delivered, before>>
  BY <1>4 DEF ClientStep, NotifyOne, FlushBlock, FlushTimeout, FlushBatches, FlushCheck,
              workVars, historyVars
<1>5. ASSUME NEW c \in Clients, NEW e \in Events, publish(c, e)
      PROVE  UNCHANGED <<subscriptions_, calls, delivered, before>>
  BY <1>5 DEF publish, workVars
<1>6. ASSUME NEW c \in Clients, NEW ty \in Batchable, enableBatching(c, ty) \/ disableBatching(c, ty)
      PROVE  UNCHANGED <<subscriptions_, calls, delivered, before>>
  BY <1>6 DEF enableBatching, disableBatching, workVars, historyVars
<1> QED BY <1>1, <1>2, <1>3, <1>4, <1>5, <1>6 DEF Next

(* A thread that is calling listeners is not disturbed by the others. *)
LEMMA Undisturbed ==
    ASSUME TypeOK, Next, NEW u \in Threads, pc[u] = "notify"
    PROVE  Notify(u) \/ (pc'[u] = "notify" /\ hand'[u] = hand[u] /\ calls'[u] = calls[u])
<1>0. \A t \in Threads : \A step : t # u /\ Goto(t, step) => pc'[u] = "notify"
  BY GotoStep
<1>1. CASE ProcStep
  <2>1. pc["proc"] # "notify" /\ UNCHANGED calls /\ \E step : Goto("proc", step)
    BY <1>1 DEF ProcStep, ProcCheck, ProcRoute, ProcBlock, ProcStat, Awake, workVars
  <2>2. UNCHANGED hand \/ \E h : hand' = [hand EXCEPT !["proc"] = h]
    BY <1>1 DEF ProcStep, ProcCheck, ProcRoute, ProcBlock, ProcStat, workVars
  <2>3. u # "proc"
    BY <2>1
  <2>4. hand'[u] = hand[u]
    BY <2>2, <2>3 DEF TypeOK
  <2> QED BY <1>0, <2>1, <2>3, <2>4, ThreadNames
<1>2. CASE BatchTest \/ ResetStop \/ ResetStep \/ \E due \in SUBSET NonEmpty : BatchScan(due)
  <2>1. UNCHANGED <<hand, calls>> /\ \E t \in {"batch", "main"} : \E step :
          pc[t] # "notify" /\ Goto(t, step)
    BY <1>2 DEF BatchTest, ResetStop, ResetStep, ResetNotify, ResetJoin, BatchScan, workVars
  <2> QED BY <1>0, <2>1, ThreadNames
<1>3. ASSUME NEW t \in Threads, TakeBatch(t) \/ Dispatch(t)
      PROVE  pc'[u] = "notify" /\ hand'[u] = hand[u] /\ calls'[u] = calls[u]
  <2>1. pc[t] # "notify" /\ \E step : Goto(t, step)
    BY <1>3 DEF TakeBatch, Dispatch
  <2>2. UNCHANGED hand \/ \E h : hand' = [hand EXCEPT ![t] = h]
    BY <1>3 DEF TakeBatch, Dispatch
  <2>3. UNCHANGED calls \/ \E L : calls' = [calls EXCEPT ![t] = L]
    BY <1>3 DEF TakeBatch, Dispatch
  <2>4. u # t
    BY <2>1
  <2>5. hand'[u] = hand[u]
    BY <2>2, <2>4 DEF TypeOK
  <2>6. calls'[u] = calls[u]
    BY <2>3, <2>4 DEF TypeOK
  <2> QED BY <1>0, <2>1, <2>4, <2>5, <2>6
<1>4. ASSUME NEW t \in Threads, t # u, Notify(t)
      PROVE  pc'[u] = "notify" /\ hand'[u] = hand[u] /\ calls'[u] = calls[u]
  <2>1. UNCHANGED pc \/ Goto(t, "dispatch")
    BY <1>4, Zenon DEF Notify
  <2>2. UNCHANGED hand \/ hand' = [hand EXCEPT ![t] = Tail(@)]
    BY <1>4 DEF Notify
  <2>3. UNCHANGED calls \/ \E l : calls' = [calls EXCEPT ![t] = @ \ {l}]
    BY <1>4 DEF Notify
  <2>4. hand'[u] = hand[u]
    BY <1>4, <2>2 DEF TypeOK
  <2>5. calls'[u] = calls[u]
    BY <1>4, <2>3 DEF TypeOK
  <2> QED BY <1>0, <1>4, <2>1, <2>4, <2>5
<1>5. ASSUME NEW c \in Clients, ClientStep(c) \/ FlushCheck(c)
      PROVE  pc'[u] = "notify" /\ hand'[u] = hand[u] /\ calls'[u] = calls[u]
  <2>1. UNCHANGED <<hand, calls>> /\ pc[c] # "notify" /\ \E step : Goto(c, step)
    BY <1>5 DEF ClientStep, NotifyOne, FlushBlock, FlushTimeout, FlushBatches, FlushCheck,
                MayCall, workVars
  <2> QED BY <1>0, <2>1, ThreadNames
<1>6. ASSUME NEW c \in Clients,
             \/ \E l \in Listeners : subscribe(c, l) \/ unsubscribe(c, l)
             \/ \E e \in Events : publish(c, e)
             \/ \E ty \in Batchable : enableBatching(c, ty) \/ disableBatching(c, ty)
      PROVE  pc'[u] = "notify" /\ hand'[u] = hand[u] /\ calls'[u] = calls[u]
  <2>1. UNCHANGED <<hand, calls>> /\ pc[c] = "idle"
    BY <1>6 DEF subscribe, unsubscribe, publish, enableBatching, disableBatching, MayCall, workVars
  <2>2. \/ UNCHANGED pc \/ \E step : Goto(c, step)
        \/ pc' = [pc EXCEPT !["batch"] = IF @ = "off" THEN "test" ELSE @]
    BY <1>6, Zenon DEF subscribe, unsubscribe, publish, enableBatching, disableBatching
  <2>3. CASE pc' = [pc EXCEPT !["batch"] = IF @ = "off" THEN "test" ELSE @]
    <3>1. pc'[u] = "notify"
      BY <2>3 DEF TypeOK
    <3> QED BY <2>1, <3>1
  <2> QED BY <1>0, <2>1, <2>2, <2>3, ThreadNames
<1> QED BY <1>1, <1>2, <1>3, <1>4, <1>5, <1>6 DEF Next, Deliver

LEMMA CallEffect ==
    ASSUME TypeOK, Hands, NEW t \in Threads, Notify(t)
    PROVE  /\ UNCHANGED <<subscriptions_, before>>
           /\ \/ /\ UNCHANGED <<calls, delivered>> /\ calls[t] = {}
                 /\ done' = done \cup {Head(hand[t])}
                 /\ \A u \in Threads : u # t => pc'[u] = pc[u] /\ hand'[u] = hand[u]
              \/ \E l \in Listeners :
                   /\ l \in calls[t] /\ UNCHANGED <<pc, hand, done>>
                   /\ calls'[t] = calls[t] \ {l}
                   /\ \A u \in Threads : u # t => calls'[u] = calls[u]
                   /\ delivered'[l] = Append(delivered[l], Head(hand[t]))
                   /\ Range(delivered'[l]) = Range(delivered[l]) \cup {Head(hand[t])}
                   /\ \A k \in Listeners : k # l => delivered'[k] = delivered[k]
<1>1. UNCHANGED <<subscriptions_, before>>
  BY Zenon DEF Notify
<1>2. ASSUME NEW l \in calls[t], calls' = [calls EXCEPT ![t] = @ \ {l}],
             delivered' = [delivered EXCEPT ![l] = Append(@, Head(hand[t]))]
      PROVE  /\ l \in Listeners
             /\ calls'[t] = calls[t] \ {l}
             /\ \A u \in Threads : u # t => calls'[u] = calls[u]
             /\ delivered'[l] = Append(delivered[l], Head(hand[t]))
             /\ Range(delivered'[l]) = Range(delivered[l]) \cup {Head(hand[t])}
             /\ \A k \in Listeners : k # l => delivered'[k] = delivered[k]
  <2>1. l \in Listeners
    BY DEF TypeOK
  <2>2. calls'[t] = calls[t] \ {l} /\ \A u \in Threads : u # t => calls'[u] = calls[u]
    BY <1>2 DEF TypeOK
  <2>3. delivered \in [Listeners -> Seq(Events)]
    BY DEF TypeOK
  <2>4. /\ delivered'[l] = Append(delivered[l], Head(hand[t]))
        /\ \A k \in Listeners : k # l => delivered'[k] = delivered[k]
    BY <1>2, <2>1, <2>3
  <2>5. delivered[l] \in Seq(Events) /\ Head(hand[t]) \in Events
    BY <2>1, <2>3, NotifyEffect
  <2>6. Range(delivered'[l]) = Range(delivered[l]) \cup {Head(hand[t])}
    BY <2>4, <2>5, SetOfAppend
  <2> QED BY <2>1, <2>2, <2>4, <2>6, Zenon
<1>3. ASSUME hand' = [hand EXCEPT ![t] = Tail(@)], Goto(t, "dispatch")
      PROVE  \A u \in Threads : u # t => pc'[u] = pc[u] /\ hand'[u] = hand[u]
  <2>1. \A u \in Threads : u # t => hand'[u] = hand[u]
    BY <1>3, Zenon DEF TypeOK
  <2> QED BY <1>3, <2>1, GotoStep, Zenon
<1> QED BY <1>1, <1>2, <1>3 DEF Notify

LEMMA HeadHeld ==
    ASSUME TypeOK, Hands, NEW t \in Threads, pc[t] = "notify"
    PROVE  Head(hand[t]) \in Held(t) /\ Head(hand[t]) \in Events
<1>1. hand[t] # <<>> /\ hand[t] \in Seq(Events)
  BY DEF Hands, TypeOK
<1> QED BY <1>1, SetOfTail DEF Held

(* The event a listener is being called for has not reached it yet. *)
LEMMA NotSeenYet ==
    ASSUME TypeOK, Hands, Once, Seen, NEW t \in Threads, pc[t] = "notify",
           NEW l \in Listeners, l \in calls[t]
    PROVE  Head(hand[t]) \notin Range(delivered[l])
<1>1. \A u \in Threads : pc[u] = "notify" => Head(hand[u]) \in Held(u)
  BY HeadHeld
<1>2. SUFFICES ASSUME Head(hand[t]) \in Range(delivered[l]) PROVE FALSE
  BY Zenon
<1>3. Head(hand[t]) \notin done
  BY <1>1, Zenon DEF Once
<1>4. PICK u \in Threads : pc[u] = "notify" /\ Head(hand[t]) = Head(hand[u]) /\ l \notin calls[u]
  BY <1>2, <1>3 DEF Seen
<1>5. u = t
  BY <1>1, <1>4 DEF Once
<1> QED BY <1>4, <1>5

LEMMA NextInjective ==
    ASSUME TypeOK, Hands, Once, Injective, Seen, Next
    PROVE  Injective'
<1>1. \A t \in Threads : IsInjective(hand'[t])
  <2>0. \A t \in Threads : IsInjective(hand[t])
    BY DEF Injective
  <2>1. CASE UNCHANGED hand
    BY <2>0, <2>1
  <2>2. CASE ProcCheck
    BY <2>0, <2>1, <2>2, PopEffect, SetOfOne
  <2>3. CASE ProcRoute
    BY <2>0, <2>1, <2>3, RouteEffect, SetOfEmpty, Zenon
  <2>4. ASSUME NEW t \in Threads, TakeBatch(t) PROVE \A u \in Threads : IsInjective(hand'[u])
    <3>1. PICK ty \in Types : hand'[t] = Pending(ty) /\ \A u \in Threads : u # t => hand'[u] = hand[u]
      BY <2>4, TakeEffect, Zenon
    <3>2. IsInjective(Pending(ty))
      BY Zenon DEF Injective
    <3> QED BY <2>0, <3>1, <3>2
  <2>5. ASSUME NEW t \in Threads, Notify(t) PROVE \A u \in Threads : IsInjective(hand'[u])
    BY <2>0, <2>1, <2>5, NotifyEffect
  <2> QED BY <2>1, <2>2, <2>3, <2>4, <2>5, Moves, PublishEffect, EnableEffect, DisableEffect
             DEF placeVars
<1>2. \A ty \in Types : IsInjective(Pending(ty)')
  <2>0. \A ty \in Types : IsInjective(Pending(ty))
    BY Zenon DEF Injective
  <2>1. CASE UNCHANGED batch_configs_
    BY <2>0, <2>1, SameBatched
  <2>2. CASE ProcRoute
    <3>1. PICK e \in Events :
            /\ Held("proc") = {e}
            /\ \/ UNCHANGED <<batch_configs_, hand>>
               \/ /\ Pending(TypeOf[e])' = Append(Pending(TypeOf[e]), e)
                  /\ \A ty \in Types : ty # TypeOf[e] => Pending(ty)' = Pending(ty)
      BY <2>2, RouteEffect
    <3>2. TypeOf[e] \in Types /\ Pending(TypeOf[e]) \in Seq(Events)
      BY PendingType, EventManagerAssumption
    <3>3. e \notin Range(Pending(TypeOf[e]))
      BY <3>1, <3>2, ThreadNames DEF Once, Batched
    <3>4. IsInjective(Append(Pending(TypeOf[e]), e))
      BY <2>0, <3>2, <3>3, SetOfAppend
    <3> QED BY <2>0, <2>1, <3>1, <3>4
  <2>3. ASSUME NEW t \in Threads, TakeBatch(t) PROVE \A ty \in Types : IsInjective(Pending(ty)')
    BY <2>0, <2>3, TakeEffect, SetOfEmpty
  <2>4. ASSUME NEW c, NEW ty \in Batchable, enableBatching(c, ty)
        PROVE  \A k \in Types : IsInjective(Pending(k)')
    BY <2>0, <2>4, EnableEffect, SetOfEmpty
  <2>5. ASSUME NEW c, NEW ty, disableBatching(c, ty)
        PROVE  \A k \in Types : IsInjective(Pending(k)')
    BY <2>0, <2>5, DisableEffect
  <2> QED BY <2>1, <2>2, <2>3, <2>4, <2>5, Moves, PublishEffect, PopEffect, NotifyEffect
             DEF placeVars
<1>3. \A l \in Listeners : IsInjective(delivered'[l])
  <2>0. \A l \in Listeners : IsInjective(delivered[l])
    BY DEF Injective
  <2>1. CASE UNCHANGED delivered
    BY <2>0, <2>1, Zenon
  <2>2. ASSUME NEW t \in Threads, Notify(t), NEW l \in Listeners, l \in calls[t],
               delivered'[l] = Append(delivered[l], Head(hand[t])),
               \A k \in Listeners : k # l => delivered'[k] = delivered[k]
        PROVE  \A k \in Listeners : IsInjective(delivered'[k])
    <3>1. pc[t] = "notify"
      BY <2>2 DEF Notify
    <3>2. Head(hand[t]) \notin Range(delivered[l])
      BY <2>2, <3>1, NotSeenYet
    <3>3. delivered[l] \in Seq(Events) /\ Head(hand[t]) \in Events
      BY <2>2, NotifyEffect DEF TypeOK
    <3>4. IsInjective(Append(delivered[l], Head(hand[t])))
      BY <2>0, <3>2, <3>3, SetOfAppend
    <3> QED BY <2>0, <2>2, <3>4
  <2>3. ASSUME NEW t \in Threads, Notify(t) PROVE \A l \in Listeners : IsInjective(delivered'[l])
    BY <2>1, <2>2, <2>3, CallEffect
  <2>4. ASSUME NEW t \in Threads, Dispatch(t) PROVE UNCHANGED delivered
    BY <2>4, Zenon DEF Dispatch, historyVars
  <2>5. ASSUME NEW c, NEW l, subscribe(c, l) \/ unsubscribe(c, l) PROVE UNCHANGED delivered
    BY <2>5, Zenon DEF subscribe, unsubscribe, historyVars
  <2> QED BY <2>1, <2>3, <2>4, <2>5, Calling
<1> QED BY <1>1, <1>2, <1>3 DEF Injective

LEMMA SeenAttempted ==
    ASSUME TypeOK, Hands, Once, Seen
    PROVE  \A l \in Listeners : Range(delivered[l]) \subseteq attempted
<1> SUFFICES ASSUME NEW l \in Listeners, NEW e \in Range(delivered[l]) PROVE e \in attempted
  BY Zenon
<1>1. CASE e \in done
  BY <1>1 DEF Once, TypeOK
<1>2. ASSUME NEW t \in Threads, pc[t] = "notify", e = Head(hand[t]) PROVE e \in attempted
  BY <1>2, HeadHeld, Zenon DEF Once
<1> QED BY <1>1, <1>2 DEF Seen

LEMMA NextSeen ==
    ASSUME TypeOK, Hands, Seen, Next
    PROVE  Seen'
<1>1. done \subseteq done'
  <2>1. ASSUME NEW t \in Threads, Notify(t) PROVE done \subseteq done'
    BY <2>1, NotifyEffect
  <2> QED BY <2>1, Moves, PublishEffect, PopEffect, RouteEffect, TakeEffect, EnableEffect,
             DisableEffect DEF placeVars
<1>2. SUFFICES ASSUME NEW l \in Listeners, NEW e \in Range(delivered'[l]), e \notin done'
               PROVE  \E t \in Threads : pc'[t] = "notify" /\ e = Head(hand'[t]) /\ l \notin calls'[t]
  BY Zenon DEF Seen
<1>3. CASE e \in Range(delivered[l])
  <2>1. PICK t \in Threads : pc[t] = "notify" /\ e = Head(hand[t]) /\ l \notin calls[t]
    BY <1>1, <1>2, <1>3 DEF Seen
  <2>2. CASE pc'[t] = "notify" /\ hand'[t] = hand[t] /\ calls'[t] = calls[t]
    BY <2>1, <2>2
  <2>3. CASE Notify(t)
    BY <1>2, <2>1, <2>3, CallEffect
  <2> QED BY <2>1, <2>2, <2>3, Undisturbed
<1>4. CASE e \notin Range(delivered[l])
  <2>1. delivered'[l] # delivered[l]
    BY <1>2, <1>4
  <2>2. PICK t \in Threads : Notify(t)
    <3>1. ASSUME NEW t \in Threads, Dispatch(t) PROVE UNCHANGED delivered
      BY <3>1 DEF Dispatch, historyVars
    <3>2. ASSUME NEW c, NEW k, subscribe(c, k) \/ unsubscribe(c, k) PROVE UNCHANGED delivered
      BY <3>2 DEF subscribe, unsubscribe, historyVars
    <3> QED BY <2>1, <3>1, <3>2, Calling
  <2>3. pc[t] = "notify"
    BY <2>2 DEF Notify
  <2>4. delivered' # delivered
    BY <2>1
  <2>5. PICK k \in Listeners :
             /\ UNCHANGED <<pc, hand>> /\ calls'[t] = calls[t] \ {k}
             /\ Range(delivered'[k]) = Range(delivered[k]) \cup {Head(hand[t])}
             /\ \A j \in Listeners : j # k => delivered'[j] = delivered[j]
    BY <2>2, <2>4, CallEffect
  <2>6. k = l
    BY <2>1, <2>5, Zenon
  <2>7. e = Head(hand[t])
    BY <1>2, <1>4, <2>5, <2>6
  <2> QED BY <2>3, <2>5, <2>6, <2>7
<1> QED BY <1>3, <1>4

LEMMA NextRecent ==
    ASSUME TypeOK, Hands, Once, Recent, Next
    PROVE  Recent'
<1>1. SUFFICES ASSUME NEW t \in Threads, NEW l \in calls'[t]
               PROVE  /\ subscriptions_'[l] # "new"
                      /\ subscriptions_'[l] = "ended" => Head(hand'[t]) \in before'[l]
  BY DEF Recent
<1>2. l \in calls[t] => /\ pc[t] = "notify" /\ l \in Listeners /\ subscriptions_[l] # "new"
                        /\ subscriptions_[l] = "ended" => Head(hand[t]) \in before[l]
  BY DEF Recent, Hands, TypeOK
<1>3. CASE UNCHANGED <<subscriptions_, calls, delivered, before>>
  <2>1. pc[t] = "notify"
    BY <1>1, <1>2, <1>3, Zenon
  <2>2. hand'[t] = hand[t]
    <3>1. CASE Notify(t)
      BY <1>1, <1>3, <3>1, CallEffect
    <3> QED BY <2>1, <3>1, Undisturbed
  <2> QED BY <1>1, <1>2, <1>3, <2>2, Zenon
<1>4. ASSUME NEW c \in Clients, NEW k \in Listeners, subscribe(c, k) \/ unsubscribe(c, k)
      PROVE  /\ subscriptions_'[l] # "new"
             /\ subscriptions_'[l] = "ended" => Head(hand'[t]) \in before'[l]
  <2>1. UNCHANGED <<hand, calls>>
    BY <1>4 DEF subscribe, unsubscribe, workVars
  <2>2. l \in Listeners /\ subscriptions_[l] # "new" /\ pc[t] = "notify"
        /\ (subscriptions_[l] = "ended" => Head(hand[t]) \in before[l])
    BY <1>1, <1>2, <2>1
  <2>3. Head(hand[t]) \in attempted
    BY <2>2, HeadHeld DEF Once
  <2>4. CASE subscribe(c, k)
    <3>1. subscriptions_[k] = "new" /\ subscriptions_' = [subscriptions_ EXCEPT ![k] = "active"]
          /\ UNCHANGED before
      BY <2>4 DEF subscribe, historyVars
    <3>2. subscriptions_'[l] = subscriptions_[l]
      BY <2>2, <3>1 DEF TypeOK
    <3> QED BY <2>1, <2>2, <3>1, <3>2
  <2>5. CASE unsubscribe(c, k)
    <3>1. /\ subscriptions_' = [subscriptions_ EXCEPT ![k] = "ended"]
          /\ before' = [before EXCEPT ![k] = attempted]
      BY <2>5 DEF unsubscribe
    <3>2. /\ subscriptions_'[k] = "ended" /\ before'[k] = attempted
          /\ l # k => subscriptions_'[l] = subscriptions_[l] /\ before'[l] = before[l]
      BY <2>2, <3>1 DEF TypeOK
    <3> QED BY <2>1, <2>2, <2>3, <3>2
  <2> QED BY <1>4, <2>4, <2>5
<1>5. ASSUME NEW u \in Threads, Dispatch(u)
      PROVE  /\ subscriptions_'[l] # "new"
             /\ subscriptions_'[l] = "ended" => Head(hand'[t]) \in before'[l]
  <2>1. UNCHANGED <<subscriptions_, before, hand>>
    BY <1>5 DEF Dispatch, historyVars
  <2>2. CASE l \in calls[t]
    BY <1>2, <2>1, <2>2
  <2>3. CASE l \notin calls[t]
    <3>1. calls' # calls
      BY <1>1, <2>3
    <3>2. calls' = [calls EXCEPT ![u] = {k \in Active : TypeOf[Head(hand[u])] \in Pattern[k]}]
      BY <1>5, <3>1 DEF Dispatch
    <3>3. t = u
      BY <1>1, <2>3, <3>2 DEF TypeOK
    <3>4. calls'[t] = {k \in Active : TypeOf[Head(hand[u])] \in Pattern[k]}
      BY <3>2, <3>3 DEF TypeOK
    <3>5. subscriptions_[l] = "active"
      BY <1>1, <3>4 DEF Active
    <3> QED BY <2>1, <3>5
  <2> QED BY <2>2, <2>3
<1>6. ASSUME NEW u \in Threads, Notify(u)
      PROVE  /\ subscriptions_'[l] # "new"
             /\ subscriptions_'[l] = "ended" => Head(hand'[t]) \in before'[l]
  <2>1. UNCHANGED <<subscriptions_, before>> /\ l \in calls[t] /\ hand'[t] = hand[t]
    BY <1>1, <1>6, CallEffect
  <2> QED BY <1>2, <2>1
<1> QED BY <1>3, <1>4, <1>5, <1>6, Calling

LEMMA NextSilent ==
    ASSUME TypeOK, Hands, Once, Seen, Recent, UnsubscribedIsSilent, Next
    PROVE  UnsubscribedIsSilent'
<1>1. SUFFICES ASSUME NEW l \in Listeners, subscriptions_'[l] = "ended"
               PROVE  Range(delivered'[l]) \subseteq before'[l]
  BY Zenon DEF UnsubscribedIsSilent
<1>2. subscriptions_[l] = "ended" => Range(delivered[l]) \subseteq before[l]
  BY Zenon DEF UnsubscribedIsSilent
<1>3. CASE UNCHANGED <<subscriptions_, calls, delivered, before>>
  BY <1>1, <1>2, <1>3
<1>4. ASSUME NEW c \in Clients, NEW k \in Listeners, subscribe(c, k)
      PROVE  Range(delivered'[l]) \subseteq before'[l]
  <2>1. /\ subscriptions_' = [subscriptions_ EXCEPT ![k] = "active"]
        /\ UNCHANGED <<delivered, before>>
    BY <1>4 DEF subscribe, historyVars
  <2>2. subscriptions_[l] = "ended"
    BY <1>1, <2>1 DEF TypeOK
  <2> QED BY <1>2, <2>1, <2>2
<1>5. ASSUME NEW c \in Clients, NEW k \in Listeners, unsubscribe(c, k)
      PROVE  Range(delivered'[l]) \subseteq before'[l]
  <2>1. /\ subscriptions_' = [subscriptions_ EXCEPT ![k] = "ended"]
        /\ before' = [before EXCEPT ![k] = attempted] /\ UNCHANGED delivered
    BY <1>5 DEF unsubscribe
  <2>2. /\ l = k => before'[l] = attempted
        /\ l # k => subscriptions_'[l] = subscriptions_[l] /\ before'[l] = before[l]
    BY <2>1 DEF TypeOK
  <2> QED BY <1>1, <1>2, <2>1, <2>2, SeenAttempted
<1>6. ASSUME NEW t \in Threads, Dispatch(t) PROVE Range(delivered'[l]) \subseteq before'[l]
  BY <1>1, <1>2, <1>6 DEF Dispatch, historyVars
<1>7. ASSUME NEW t \in Threads, Notify(t) PROVE Range(delivered'[l]) \subseteq before'[l]
  <2>1. UNCHANGED <<subscriptions_, before>>
    BY <1>7, CallEffect
  <2>2. \/ Range(delivered'[l]) = Range(delivered[l])
        \/ l \in calls[t] /\ Range(delivered'[l]) = Range(delivered[l]) \cup {Head(hand[t])}
    BY <1>7, CallEffect
  <2>3. l \in calls[t] => Head(hand[t]) \in before[l]
    BY <1>1, <2>1 DEF Recent
  <2> QED BY <1>1, <1>2, <2>1, <2>2, <2>3
<1> QED BY <1>3, <1>4, <1>5, <1>6, <1>7, Calling

-----------------------------------------------------------------------------
(* The order *)

(* A listener is called with an event that is not batched only by the        *)
(* processing thread, after all that it has seen of the same kind.           *)
LEMMA InOrder ==
    ASSUME TypeOK, Hands, Unbatched, Once, Seen, Ordered,
           NEW t \in Threads, pc[t] = "notify", NEW l \in Listeners, l \in calls[t],
           NEW e \in Range(delivered[l]), e \in Events, Alike(e, Head(hand[t]))
    PROVE  e < Head(hand[t])
<1> DEFINE f == Head(hand[t])
<1>1. f \in Held(t) /\ f \in Events /\ TypeOf[f] \notin Batchable /\ TypeOf[e] \notin Batchable
  BY HeadHeld DEF Alike
<1>2. t = "proc"
  BY <1>1 DEF Unbatched
<1>3. CASE e \in done
  BY <1>1, <1>2, <1>3 DEF Ordered
<1>4. ASSUME NEW u \in Threads, pc[u] = "notify", e = Head(hand[u]), l \notin calls[u]
      PROVE  FALSE
  <2>1. e \in Held(u)
    BY <1>4, HeadHeld
  <2>2. u = "proc"
    BY <1>1, <2>1 DEF Unbatched
  <2> QED BY <1>2, <1>4, <2>2
<1> QED BY <1>3, <1>4 DEF Seen

LEMMA NextOrderPreserved ==
    ASSUME TypeOK, Hands, Unbatched, Once, Seen, Ordered, OrderPreserved, Next
    PROVE  OrderPreserved'
<1>0. \A e, f : Alike(e, f) <=> /\ ClientOf[e] = ClientOf[f] /\ PriorityOf[e] = PriorityOf[f]
                                /\ {TypeOf[e], TypeOf[f]} \cap Batchable = {}
  BY Zenon DEF Alike
<1>1. CASE UNCHANGED delivered
  BY <1>1 DEF OrderPreserved
<1>2. ASSUME NEW t \in Threads, Notify(t), NEW l \in Listeners, l \in calls[t],
             delivered'[l] = Append(delivered[l], Head(hand[t])),
             \A k \in Listeners : k # l => delivered'[k] = delivered[k]
      PROVE  OrderPreserved'
  <2> DEFINE s == delivered[l]
             g == Head(hand[t])
  <2>1. s \in Seq(Events) /\ g \in Events /\ pc[t] = "notify"
    BY <1>2, NotifyEffect, Zenon DEF TypeOK, Notify
  <2>2. \A e \in Range(s) : e \in Events /\ (Alike(e, g) => e < g)
    <3>1. Range(s) \subseteq Events
      BY <2>1, SetOfSeq
    <3> QED BY <1>2, <2>1, <3>1, InOrder
  <2> HIDE DEF g
  <2>3. /\ Len(s) \in Nat /\ Len(delivered'[l]) = Len(s) + 1 /\ delivered'[l][Len(s) + 1] = g
        /\ \A i \in 1..Len(s) : delivered'[l][i] = s[i] /\ s[i] \in Range(s)
    BY <1>2, <2>1 DEF Range, g
  <2>4. SUFFICES ASSUME NEW k \in Listeners, NEW i \in 1..Len(delivered'[k]),
                        NEW j \in 1..Len(delivered'[k]), i < j,
                        Alike(delivered'[k][i], delivered'[k][j])
                 PROVE  delivered'[k][i] < delivered'[k][j]
    BY <1>0 DEF OrderPreserved
  <2>5. \A h \in Listeners : \A a, b \in 1..Len(delivered[h]) :
          a < b /\ Alike(delivered[h][a], delivered[h][b]) => delivered[h][a] < delivered[h][b]
    BY <1>0, Zenon DEF OrderPreserved
  <2>6. CASE k # l
    BY <1>2, <2>4, <2>5, <2>6
  <2>7. CASE k = l
    <3>1. i \in 1..Len(s) /\ (j \in 1..Len(s) \/ j = Len(s) + 1)
      BY <2>3, <2>4, <2>7
    <3>2. CASE j \in 1..Len(s)
      <4>1. delivered'[l][i] = s[i] /\ delivered'[l][j] = s[j]
        BY <2>3, <3>1, <3>2
      <4> QED BY <2>4, <2>5, <2>7, <3>1, <3>2, <4>1
    <3>3. CASE j = Len(s) + 1
      <4>1. delivered'[l][i] = s[i] /\ s[i] \in Range(s) /\ delivered'[l][j] = g
        BY <2>3, <3>1, <3>3
      <4> QED BY <2>2, <2>4, <2>7, <4>1
    <3> QED BY <3>1, <3>2, <3>3
  <2> QED BY <2>6, <2>7, Zenon
<1>3. ASSUME NEW t \in Threads, Notify(t) PROVE OrderPreserved'
  BY <1>1, <1>2, <1>3, CallEffect
<1>4. ASSUME NEW t \in Threads, Dispatch(t) PROVE UNCHANGED delivered
  BY <1>4, Zenon DEF Dispatch, historyVars
<1>5. ASSUME NEW c, NEW l, subscribe(c, l) \/ unsubscribe(c, l) PROVE UNCHANGED delivered
  BY <1>5 DEF subscribe, unsubscribe, historyVars
<1> QED BY <1>1, <1>3, <1>4, <1>5, Calling

LEMMA NextOrdered ==
    ASSUME TypeOK, Hands, Unbatched, Once, Ordered, Next
    PROVE  Ordered'
<1>0. "proc" \in Threads /\ Events \subseteq Nat
  BY ThreadNames, EventManagerAssumption
<1>1. /\ \A e \in attempted, f \in Events : ClientOf[e] = ClientOf[f] /\ f < e => f \in attempted
      /\ \A e, f \in Events : Alike(e, f) =>
            /\ e \in done \cup Held("proc") /\ f \in event_queue_ => e < f
            /\ e \in done /\ f \in Held("proc") => e < f
  BY Zenon DEF Ordered
<1>2. ASSUME UNCHANGED attempted,
             \A e, f \in Events : Alike(e, f) =>
               /\ e \in done' \cup Held("proc")' /\ f \in event_queue_' => e < f
               /\ e \in done' /\ f \in Held("proc")' => e < f
      PROVE  Ordered'
  BY <1>1, <1>2 DEF Ordered
<1>3. CASE UNCHANGED <<event_queue_, done, attempted>> /\ Held("proc")' = Held("proc")
  BY <1>1, <1>2, <1>3
<1>4. ASSUME NEW c \in Clients, NEW g \in Events, publish(c, g) PROVE Ordered'
  <2>1. /\ UNCHANGED <<hand, done>> /\ g \notin attempted /\ attempted' = attempted \cup {g}
        /\ ClientOf[g] = c /\ \A f \in Events : ClientOf[f] = c /\ f < g => f \in attempted
        /\ event_queue_' \subseteq event_queue_ \cup {g}
    BY <1>4, PublishEffect
  <2>2. Held("proc")' = Held("proc")
    BY <1>0, <2>1, SameHeld
  <2>3. \A e \in attempted', f \in Events : ClientOf[e] = ClientOf[f] /\ f < e => f \in attempted'
    BY <1>1, <2>1
  <2>4. ASSUME NEW e \in Events, e \in done \cup Held("proc"), Alike(e, g) PROVE e < g
    <3>1. e \in attempted
      BY <1>0, <2>4 DEF Once
    <3>2. e # g /\ ~(g < e)
      BY <1>1, <2>1, <2>4, <3>1 DEF Alike
    <3> QED BY <1>0, <3>2
  <2>5. \A e, f \in Events : Alike(e, f) =>
          /\ e \in done' \cup Held("proc")' /\ f \in event_queue_' => e < f
          /\ e \in done' /\ f \in Held("proc")' => e < f
    BY <1>1, <2>1, <2>2, <2>4
  <2> QED BY <2>3, <2>5 DEF Ordered
<1>5. CASE ProcCheck
  <2>1. UNCHANGED <<attempted, done>> /\ Held("proc") = {}
    BY <1>5, PopEffect
  <2>2. CASE UNCHANGED <<event_queue_, hand>>
    BY <1>0, <1>3, <2>1, <2>2, SameHeld
  <2>3. ASSUME NEW g \in event_queue_, event_queue_' = event_queue_ \ {g}, Held("proc")' = {g},
               \A f \in event_queue_ \ {g} : Before(g, f)
        PROVE  Ordered'
    <3>1. g \in Events
      BY DEF TypeOK
    <3>2. \A f \in event_queue_ \ {g} : Alike(g, f) => g < f
      <4> SUFFICES ASSUME NEW f \in event_queue_ \ {g}, Alike(g, f) PROVE g < f
        BY Zenon
      <4>1. Before(g, f) /\ PriorityOf[g] = PriorityOf[f]
        BY <2>3 DEF Alike
      <4>2. PriorityOf[g] \in Nat
        BY <3>1, EventManagerAssumption
      <4> QED BY <4>1, <4>2 DEF Before
    <3>3. \A e, f \in Events : Alike(e, f) =>
            /\ e \in done' \cup Held("proc")' /\ f \in event_queue_' => e < f
            /\ e \in done' /\ f \in Held("proc")' => e < f
      BY <1>1, <2>1, <2>3, <3>2
    <3> QED BY <1>2, <2>1, <3>3
  <2> QED BY <1>5, <2>2, <2>3, PopEffect
<1>6. CASE ProcRoute
  <2>1. UNCHANGED <<event_queue_, attempted, done>>
    BY <1>6, RouteEffect
  <2>2. Held("proc")' = {} \/ UNCHANGED hand
    BY <1>6, RouteEffect
  <2>3. Held("proc")' = {} \/ Held("proc")' = Held("proc")
    BY <1>0, <2>2, SameHeld
  <2>4. \A e, f \in Events : Alike(e, f) =>
          /\ e \in done' \cup Held("proc")' /\ f \in event_queue_' => e < f
          /\ e \in done' /\ f \in Held("proc")' => e < f
    BY <1>1, <2>1, <2>3
  <2> QED BY <1>2, <2>1, <2>4
<1>7. ASSUME NEW t \in Threads, TakeBatch(t) PROVE Ordered'
  <2>1. UNCHANGED <<event_queue_, attempted, done>>
    BY <1>7, TakeEffect
  <2>2. CASE t # "proc"
    <3>1. Held("proc")' = Held("proc")
      BY <1>0, <1>7, <2>2, TakeEffect
    <3> QED BY <1>3, <2>1, <3>1
  <2>3. CASE t = "proc"
    <3>1. \A f \in Held("proc")' : TypeOf[f] \in Batchable
      <4>1. PICK ty \in Types : Held("proc")' = Batched(ty)
        BY <1>7, <2>3, TakeEffect
      <4>2. CASE ty \in DOMAIN batch_configs_
        <5>1. ty \in Batchable
          BY <4>2 DEF Unbatched
        <5> QED BY <4>1, <5>1, PendingType
      <4>3. CASE ty \notin DOMAIN batch_configs_
        <5>1. Batched(ty) = {}
          BY <4>3, SetOfEmpty DEF Batched, Pending
        <5> QED BY <4>1, <5>1
      <4> QED BY <4>2, <4>3
    <3>2. \A e, f \in Events : Alike(e, f) =>
            /\ e \in done' \cup Held("proc")' /\ f \in event_queue_' => e < f
            /\ e \in done' /\ f \in Held("proc")' => e < f
      BY <1>1, <2>1, <3>1 DEF Alike
    <3> QED BY <1>2, <2>1, <3>2
  <2> QED BY <2>2, <2>3
<1>8. ASSUME NEW t \in Threads, Notify(t) PROVE Ordered'
  <2>1. UNCHANGED <<event_queue_, attempted>> /\ Head(hand[t]) \in Held(t) /\ Head(hand[t]) \in Events
    BY <1>8, NotifyEffect
  <2>2. CASE UNCHANGED <<hand, done>>
    <3>1. Held("proc")' = Held("proc")
      BY <1>0, <2>2, SameHeld
    <3> QED BY <1>3, <2>1, <2>2, <3>1
  <2>3. CASE /\ done' = done \cup {Head(hand[t])}
             /\ hand'[t] = Tail(hand[t]) /\ Held(t) = {Head(hand[t])} \cup Held(t)'
             /\ \A u \in Threads : u # t => hand'[u] = hand[u] /\ Held(u)' = Held(u)
    <3> DEFINE g == Head(hand[t])
    <3>1. Held("proc")' \subseteq Held("proc")
      BY <1>0, <2>3
    <3>2. CASE TypeOf[g] \in Batchable
      <4>1. \A e, f \in Events : Alike(e, f) =>
              /\ e \in done' \cup Held("proc")' /\ f \in event_queue_' => e < f
              /\ e \in done' /\ f \in Held("proc")' => e < f
        BY <1>1, <2>1, <2>3, <3>1, <3>2 DEF Alike
      <4> QED BY <1>2, <2>1, <4>1
    <3>3. CASE t = "proc" /\ hand[t] = <<g>>
      <4>1. Tail(<<g>>) = <<>>
        <5> HIDE DEF g
        <5> QED OBVIOUS
      <4>2. Held("proc")' = {}
        BY <2>3, <3>3, <4>1, SetOfEmpty DEF Held
      <4>3. g \in Held("proc")
        BY <2>1, <3>3
      <4> HIDE DEF g
      <4>4. \A e, f \in Events : Alike(e, f) =>
              /\ e \in done' \cup Held("proc")' /\ f \in event_queue_' => e < f
              /\ e \in done' /\ f \in Held("proc")' => e < f
        <5>1. done' = done \cup {g}
          BY <2>3, Zenon DEF g
        <5> QED BY <1>1, <2>1, <4>2, <4>3, <5>1
      <4> QED BY <1>2, <2>1, <4>4
    <3> QED BY <2>1, <3>2, <3>3 DEF Unbatched
  <2> QED BY <1>8, <2>2, <2>3, NotifyEffect
<1>9. ASSUME NEW c, NEW ty \in Batchable, enableBatching(c, ty) \/ disableBatching(c, ty)
      PROVE  Ordered'
  <2>1. UNCHANGED <<event_queue_, hand, attempted, done>>
    BY <1>9, EnableEffect, DisableEffect
  <2>2. Held("proc")' = Held("proc")
    BY <1>0, <2>1, SameHeld
  <2> QED BY <1>3, <2>1, <2>2
<1>10. CASE UNCHANGED placeVars
  <2>1. Held("proc")' = Held("proc")
    BY <1>0, <1>10, SameHeld, Zenon DEF placeVars
  <2> QED BY <1>3, <1>10, <2>1 DEF placeVars
<1> QED BY <1>4, <1>5, <1>6, <1>7, <1>8, <1>9, <1>10, Moves

===============================================================================
