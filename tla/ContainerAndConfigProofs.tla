----------------------- MODULE ContainerAndConfigProofs -----------------------
(***************************************************************************)
(* Proofs about Container, for every set of pids, readers and exit codes   *)
(* and every bound, and about ConfigManager, for every set of threads,     *)
(* keys, values and documents and every number of layers.  IInv is         *)
(* inductive for Container: the safety properties of its runs and the      *)
(* refinement of ContainerLifecycle follow from it.  ConfigIInv says what  *)
(* a call of ConfigManager that is under way has done to the values.       *)
(***************************************************************************)
EXTENDS TLAPS, ConfigManager, Container

(***************************************************************************)
(* ConfigManager                                                           *)
(***************************************************************************)

Contents == Values \cup {None}

(* The types that ConfigTypeOK leaves open. *)
ConfigTypes ==
    /\ ConfigTypeOK
    /\ layers_ \in [LayerNames -> Documents \cup {NoLayer}]
    /\ values_mutex_ \in Callers \cup {NoCaller}
    /\ at \in [Callers -> {"idle", "write", "notify"}]
    /\ remaining \in [Callers -> SUBSET (Keys \X Contents)]
    /\ loading \in [Callers -> Documents \cup {NoDocument}]
    /\ alone \in [Callers -> BOOLEAN]
    /\ now \in [Callers -> (Keys \X Contents) \cup {<<>>}]

(* A thread that is to tell the listener tells it the value the key has: the *)
(* mutex is still held.                                                      *)
Telling ==
    \A t \in Callers : at[t] = "notify" =>
        now[t] \in Keys \X Contents /\ now[t][2] = values_[now[t][1]]

(* A load that was not disturbed has set what it no longer has to set. *)
Loading ==
    \A t \in Callers : alone[t] =>
        /\ at[t] # "idle" /\ loading[t] \in Documents
        /\ \A n \in LayerNames : layers_[n] = NoLayer
        /\ \A k \in Keys : <<k, loading[t][k]>> \in remaining[t] \/ values_[k] = loading[t][k]
        /\ \A pair \in remaining[t] : pair[2] = loading[t][pair[1]]

ConfigIInv == ConfigTypes /\ Telling /\ Loading /\ MirrorFollows

LEMMA ConfigInitIInv == ConfigInit => ConfigIInv
<1> SUFFICES ASSUME ConfigInit PROVE ConfigIInv
  OBVIOUS
<1> USE ConfigAssumption DEF ConfigInit, Empty, Contents
<1>1. ConfigTypes
  BY Zenon DEF ConfigTypes, ConfigTypeOK, NoLayer
<1> QED BY <1>1 DEF ConfigIInv, Telling, Loading, MirrorFollows

(* The pairs of a document. *)
LEMMA PairsOf ==
    ASSUME NEW doc \in Documents
    PROVE  /\ Pairs(doc) \subseteq Keys \X Contents
           /\ \A k \in Keys : doc[k] # None => <<k, doc[k]>> \in Pairs(doc)
           /\ \A pair \in Pairs(doc) : pair[2] = doc[pair[1]]
BY ConfigAssumption DEF Pairs, Contents

(* A call that begins changes none of what is said of the other threads. *)
LEMMA BeginIInv ==
    ASSUME ConfigIInv, NEW t \in Callers, NEW doc \in Documents \cup {NoDocument},
           NEW pairs \in SUBSET (Keys \X Contents), Begin(t, doc, pairs),
           UNCHANGED <<values_, layers_, missed, alone>>
    PROVE  ConfigIInv'
<1> SUFFICES ASSUME ConfigTypes, Telling, Loading, MirrorFollows PROVE ConfigIInv'
  BY DEF ConfigIInv
<1> USE ConfigAssumption DEF Begin
<1>1. ConfigTypes'
  BY DEF ConfigTypes, ConfigTypeOK, Contents
<1>2. Telling'
  BY DEF Telling
<1>3. ~alone[t]
  BY DEF Loading
<1>4. Loading'
  BY DEF Loading
<1>5. MirrorFollows'
  BY DEF MirrorFollows
<1> QED BY <1>1, <1>2, <1>4, <1>5 DEF ConfigIInv

LEMMA WriteIInv == ASSUME ConfigIInv, NEW t \in Callers, Write(t) PROVE ConfigIInv'
<1> SUFFICES ASSUME ConfigTypes, Telling, Loading, MirrorFollows PROVE ConfigIInv'
  BY DEF ConfigIInv
<1>1. PICK pair \in remaining[t] :
        /\ remaining' = [remaining EXCEPT ![t] = @ \ {pair}]
        /\ values_' = [values_ EXCEPT ![pair[1]] = pair[2]]
        /\ IF change_notifications_enabled_ /\ {pair[2], values_[pair[1]]} # {None}
           THEN /\ values_mutex_' = t
                /\ now' = [now EXCEPT ![t] = pair]
                /\ at' = [at EXCEPT ![t] = "notify"]
                /\ UNCHANGED missed
           ELSE /\ missed' = IF pair[2] = values_[pair[1]] THEN missed ELSE missed \cup {pair[1]}
                /\ UNCHANGED <<values_mutex_, now, at>>
  BY Zenon DEF Write
<1>2. /\ at[t] = "write" /\ values_mutex_ = NoCaller
      /\ alone' = [u \in Callers |-> alone[u] /\ u = t]
      /\ UNCHANGED <<layers_, change_notifications_enabled_, mirror, loading>>
  BY DEF Write, Disturb
<1>3. pair \in Keys \X Contents /\ pair[1] \in Keys /\ pair[2] \in Contents
  BY DEF ConfigTypes
<1>4. \A u \in Callers : at[u] # "notify"
  BY <1>2, ConfigAssumption, Zenon DEF ConfigTypes, ConfigTypeOK
<1>5. \A k \in Keys : values_'[k] = IF k = pair[1] THEN pair[2] ELSE values_[k]
  BY <1>1 DEF ConfigTypes, ConfigTypeOK
<1>6. ConfigTypes'
  <2>1. values_' \in [Keys -> Contents] /\ remaining' \in [Callers -> SUBSET (Keys \X Contents)]
    BY <1>1 DEF ConfigTypes, ConfigTypeOK, Contents
  <2>2. alone' \in [Callers -> BOOLEAN] /\ missed' \subseteq Keys
    BY <1>1, <1>2, <1>3 DEF ConfigTypes, ConfigTypeOK
  <2>3. CASE change_notifications_enabled_ /\ {pair[2], values_[pair[1]]} # {None}
    BY <1>1, <1>2, <2>3, ConfigAssumption DEF ConfigTypes, ConfigTypeOK
  <2>4. CASE ~(change_notifications_enabled_ /\ {pair[2], values_[pair[1]]} # {None})
    BY <1>1, <1>2, <2>1, <2>2, <2>4, ZenonT(30) DEF ConfigTypes, ConfigTypeOK, Contents
  <2> QED BY <2>3, <2>4, Zenon
<1>7. Loading'
  <2> SUFFICES ASSUME alone[t]
               PROVE  /\ at'[t] # "idle" /\ loading[t] \in Documents
                      /\ \A n \in LayerNames : layers_[n] = NoLayer
                      /\ \A k \in Keys :
                            <<k, loading[t][k]>> \in remaining'[t] \/ values_'[k] = loading[t][k]
                      /\ \A p \in remaining'[t] : p[2] = loading[t][p[1]]
    BY <1>2, ZenonT(30) DEF Loading
  <2>1. remaining'[t] = remaining[t] \ {pair}
    BY <1>1, Zenon DEF ConfigTypes
  <2>2. at'[t] # "idle"
    BY <1>1, <1>2, Zenon DEF ConfigTypes
  <2> QED BY <1>5, <2>1, <2>2 DEF Loading
<1>8. CASE change_notifications_enabled_ /\ {pair[2], values_[pair[1]]} # {None}
  <2>1. Telling'
    BY <1>1, <1>4, <1>5, <1>8 DEF ConfigTypes, Telling
  <2>2. MirrorFollows'
    BY <1>1, <1>2, <1>8 DEF ConfigTypes, MirrorFollows
  <2> QED BY <1>6, <1>7, <2>1, <2>2 DEF ConfigIInv
<1>9. CASE ~(change_notifications_enabled_ /\ {pair[2], values_[pair[1]]} # {None})
  <2>1. Telling'
    BY <1>1, <1>4, <1>9, Zenon DEF Telling
  <2>2. MirrorFollows'
    BY <1>1, <1>2, <1>4, <1>9 DEF MirrorFollows
  <2> QED BY <1>6, <1>7, <2>1, <2>2 DEF ConfigIInv
<1> QED BY <1>8, <1>9

LEMMA NotifyIInv == ASSUME ConfigIInv, NEW t \in Callers, notifyChange(t) PROVE ConfigIInv'
<1> SUFFICES ASSUME ConfigTypes, Telling, Loading, MirrorFollows PROVE ConfigIInv'
  BY DEF ConfigIInv
<1>1. /\ at[t] = "notify" /\ values_mutex_ = t /\ values_mutex_' = NoCaller
      /\ mirror' = [mirror EXCEPT ![now[t][1]] = now[t][2]]
      /\ missed' = missed \ {now[t][1]}
      /\ now' = [now EXCEPT ![t] = <<>>] /\ at' = [at EXCEPT ![t] = "write"]
      /\ UNCHANGED <<values_, layers_, change_notifications_enabled_, loading, remaining, alone>>
  BY DEF notifyChange, ConfigTypes, ConfigTypeOK
<1>2. /\ now[t] \in Keys \X Contents /\ now[t][1] \in Keys /\ now[t][2] \in Contents
      /\ now[t][2] = values_[now[t][1]]
  BY <1>1 DEF Telling
<1>3. \A u \in Callers : u # t => at[u] # "notify"
  BY <1>1, Zenon DEF ConfigTypes, ConfigTypeOK
<1>4. ConfigTypes'
  BY <1>1, <1>2, ConfigAssumption DEF ConfigTypes, ConfigTypeOK
<1>5. Telling'
  BY <1>1, Zenon DEF ConfigTypes, Telling
<1>6. Loading'
  BY <1>1 DEF Loading
<1>7. MirrorFollows'
  <2>1. \A k \in Keys : mirror'[k] = IF k = now[t][1] THEN values_[k] ELSE mirror[k]
    BY <1>1, <1>2 DEF ConfigTypes, ConfigTypeOK
  <2> QED BY <1>1, <2>1 DEF MirrorFollows
<1> QED BY <1>4, <1>5, <1>6, <1>7 DEF ConfigIInv

LEMMA ConfigReturnIInv ==
    ASSUME ConfigIInv, NEW t \in Callers, ConfigReturn(t) \/ ParseFails(t)
    PROVE  ConfigIInv'
<1> SUFFICES ASSUME ConfigTypes, Telling, Loading, MirrorFollows PROVE ConfigIInv'
  BY DEF ConfigIInv
<1>1. ConfigTypes'
  <2>1. CASE ConfigReturn(t)
    BY <2>1, Zenon DEF ConfigReturn, ConfigTypes, ConfigTypeOK
  <2>2. CASE ParseFails(t)
    BY <2>2, Zenon DEF ParseFails, ConfigTypes, ConfigTypeOK
  <2> QED BY <2>1, <2>2
<1>2. Telling'
  BY DEF ConfigReturn, ParseFails, ConfigTypes, Telling
<1>3. Loading'
  BY DEF ConfigReturn, ParseFails, ConfigTypes, Loading
<1>4. MirrorFollows'
  BY DEF ConfigReturn, ParseFails, ConfigTypes, MirrorFollows
<1> QED BY <1>1, <1>2, <1>3, <1>4 DEF ConfigIInv

(* clear(), alone or as the first step of a load. *)
LEMMA ClearIInv ==
    ASSUME ConfigIInv, NEW t \in Callers, Clear, at[t] = "idle",
           UNCHANGED <<change_notifications_enabled_, values_mutex_, mirror, now>>,
           at' \in [Callers -> {"idle", "write"}],
           \A u \in Callers \ {t} : at'[u] = at[u]
    PROVE  /\ values_' \in [Keys -> Contents] /\ missed' \subseteq Keys
           /\ layers_' \in [LayerNames -> Documents \cup {NoLayer}]
           /\ \A u \in Callers : at[u] # "notify"
           /\ Telling' /\ MirrorFollows'
<1> USE DEF ConfigIInv
<1>1. \A u \in Callers : at[u] # "notify"
  BY Zenon
<1>2. MirrorFollows'
  BY Zenon DEF Clear, Empty, Changed, MirrorFollows
<1> QED BY <1>2 DEF Clear, Empty, Changed, Contents, Telling, ConfigTypes, ConfigTypeOK

LEMMA ConfigNextIInv == ConfigIInv /\ [ConfigNext]_configVars => ConfigIInv'
<1> SUFFICES ASSUME ConfigIInv, [ConfigNext]_configVars PROVE ConfigIInv'
  OBVIOUS
<1> SUFFICES ASSUME ConfigTypes, Telling, Loading, MirrorFollows PROVE ConfigIInv'
  BY DEF ConfigIInv
<1>1. ASSUME NEW t \in Callers, NEW k \in Keys, NEW v \in Contents, set(t, k, v) PROVE ConfigIInv'
  <2>1. {<<k, v>>} \in SUBSET (Keys \X Contents)
    OBVIOUS
  <2> QED BY <1>1, BeginIInv DEF set
<1>2. ASSUME NEW t \in Callers, NEW doc \in Documents, mergeFromJsonString(t, doc) PROVE ConfigIInv'
  BY <1>2, PairsOf, BeginIInv DEF mergeFromJsonString
<1>3. ASSUME NEW t \in Callers, NEW doc \in Documents, loadFromJsonString(t, doc) PROVE ConfigIInv'
  <2>1. /\ at[t] = "idle" /\ at' = [at EXCEPT ![t] = "write"]
        /\ loading' = [loading EXCEPT ![t] = doc]
        /\ remaining' = [remaining EXCEPT ![t] = Pairs(doc)]
        /\ UNCHANGED <<change_notifications_enabled_, values_mutex_, mirror, now>>
        /\ Clear /\ alone' = [u \in Callers |-> u = t]
    BY <1>3, Zenon DEF loadFromJsonString, Begin
  <2>2. values_mutex_ = NoCaller /\ \A u \in Callers : at[u] # "notify"
    BY <2>1, ConfigAssumption, Zenon DEF Clear, ConfigTypes, ConfigTypeOK
  <2>3. at' \in [Callers -> {"idle", "write"}] /\ \A u \in Callers \ {t} : at'[u] = at[u]
    BY <2>1, <2>2 DEF ConfigTypes
  <2>4. /\ values_' \in [Keys -> Contents] /\ missed' \subseteq Keys
        /\ layers_' \in [LayerNames -> Documents \cup {NoLayer}]
        /\ Telling' /\ MirrorFollows'
    BY <2>1, <2>3, ClearIInv
  <2>5. ConfigTypes'
    BY <2>1, <2>4, PairsOf DEF ConfigTypes, ConfigTypeOK, Contents
  <2>6. Loading'
    <3>1. /\ loading'[t] = doc /\ remaining'[t] = Pairs(doc) /\ at'[t] = "write"
          /\ \A k \in Keys : values_'[k] = None
          /\ \A n \in LayerNames : layers_'[n] = NoLayer
      BY <2>1, Zenon DEF Clear, Empty, ConfigTypes
    <3>2. \A k \in Keys : <<k, doc[k]>> \in Pairs(doc) \/ None = doc[k]
      BY PairsOf
    <3>3. \A pair \in Pairs(doc) : pair[2] = doc[pair[1]]
      BY PairsOf
    <3>4. \A u \in Callers : alone'[u] => u = t
      BY <2>1, Zenon
    <3> QED BY <3>1, <3>2, <3>3, <3>4 DEF Loading
  <2> QED BY <2>4, <2>5, <2>6, Zenon DEF ConfigIInv
<1>4. ASSUME NEW t \in Callers, clear(t) PROVE ConfigIInv'
  <2>1. /\ at[t] = "idle" /\ Clear /\ alone' = [u \in Callers |-> alone[u] /\ u = t]
        /\ UNCHANGED <<change_notifications_enabled_, values_mutex_, mirror, callerVars>>
    BY <1>4, Zenon DEF clear, Disturb
  <2>2. \A u \in Callers : at[u] # "notify" /\ ~alone'[u]
    BY <2>1, ConfigAssumption, Zenon DEF Clear, ConfigTypes, ConfigTypeOK, Loading
  <2>3. at' \in [Callers -> {"idle", "write"}] /\ \A u \in Callers \ {t} : at'[u] = at[u]
    BY <2>1, <2>2, Zenon DEF ConfigTypes, callerVars
  <2>4. /\ values_' \in [Keys -> Contents] /\ missed' \subseteq Keys
        /\ layers_' \in [LayerNames -> Documents \cup {NoLayer}]
        /\ Telling' /\ MirrorFollows'
    BY <2>1, <2>3, ClearIInv DEF callerVars
  <2>5. ConfigTypes'
    BY <2>1, <2>4 DEF ConfigTypes, ConfigTypeOK, Contents, callerVars
  <2> QED BY <2>2, <2>4, <2>5, Zenon DEF ConfigIInv, Loading
<1>5. ASSUME NEW t \in Callers, NEW enabled \in BOOLEAN, enableChangeNotifications(t, enabled)
      PROVE  ConfigIInv'
  <2>1. ConfigTypes'
    BY <1>5, Zenon DEF enableChangeNotifications, callerVars, ConfigTypes, ConfigTypeOK
  <2>2. Telling'
    BY <1>5 DEF enableChangeNotifications, callerVars, Telling
  <2>3. Loading'
    BY <1>5 DEF enableChangeNotifications, callerVars, Loading
  <2>4. MirrorFollows'
    BY <1>5 DEF enableChangeNotifications, callerVars, MirrorFollows
  <2> QED BY <2>1, <2>2, <2>3, <2>4 DEF ConfigIInv
<1>6. ASSUME NEW n \in LayerNames, NEW doc \in Documents \cup {NoLayer}, SetLayer(n, doc)
      PROVE  ConfigIInv'
  <2>1. \A u \in Callers : ~alone[u]
    BY <1>6, Zenon DEF SetLayer, Quiet, Loading
  <2>2. ConfigTypes'
    BY <1>6, Zenon DEF SetLayer, callerVars, ConfigTypes, ConfigTypeOK
  <2>3. Telling'
    BY <1>6, Zenon DEF SetLayer, callerVars, Telling
  <2>4. Loading'
    BY <1>6, <2>1, Zenon DEF SetLayer, Loading
  <2>5. MirrorFollows'
    BY <1>6 DEF SetLayer, callerVars, MirrorFollows
  <2> QED BY <2>2, <2>3, <2>4, <2>5, Zenon DEF ConfigIInv
<1>7. CASE UNCHANGED configVars
  <2>1. ConfigTypes'
    BY <1>7, Zenon DEF configVars, callerVars, ConfigTypes, ConfigTypeOK
  <2>2. Telling' /\ Loading' /\ MirrorFollows'
    BY <1>7 DEF configVars, callerVars, Telling, Loading, MirrorFollows
  <2> QED BY <2>1, <2>2 DEF ConfigIInv
<1>8. None \in Contents /\ Values \subseteq Contents /\ NoLayer \in Documents \cup {NoLayer}
  BY DEF Contents
<1> QED BY <1>1, <1>2, <1>3, <1>4, <1>5, <1>6, <1>7, <1>8, WriteIInv, NotifyIInv,
           ConfigReturnIInv, Zenon DEF ConfigNext, ConfigCall, LayerCall, ConfigStep, remove,
           addLayer, removeLayer

-----------------------------------------------------------------------------
LEMMA ConfigSpecIInv == ConfigSpec => []ConfigIInv
BY ConfigInitIInv, ConfigNextIInv, PTL DEF ConfigSpec

(* The manager's state keeps its type, and the mutex has an owner exactly    *)
(* while the listener is being told.                                         *)
THEOREM ConfigTyped == ConfigSpec => []ConfigTypeOK
<1>1. ConfigIInv => ConfigTypeOK
  BY DEF ConfigIInv, ConfigTypes
<1> QED BY <1>1, ConfigSpecIInv, PTL

(* However many threads write, the listener's picture follows the values. *)
THEOREM ListenerUpToDate == ConfigSpec => []MirrorFollows
<1>1. ConfigIInv => MirrorFollows
  BY Zenon DEF ConfigIInv
<1> QED BY <1>1, ConfigSpecIInv, PTL

(* A load that nobody disturbs leaves exactly what the text holds. *)
THEOREM LoadIsExact == ConfigSpec => []LoadedExactly
<1>1. ConfigIInv => LoadedExactly
  <2> SUFFICES ASSUME ConfigIInv, NEW t \in Callers, alone[t], at[t] = "write", remaining[t] = {}
               PROVE  values_ = loading[t] /\ \A n \in LayerNames : layers_[n] = NoLayer
    BY DEF LoadedExactly
  <2>1. /\ loading[t] \in Documents /\ \A n \in LayerNames : layers_[n] = NoLayer
        /\ \A k \in Keys : values_[k] = loading[t][k]
    BY Zenon DEF ConfigIInv, Loading
  <2> QED BY <2>1, ConfigAssumption DEF ConfigIInv, ConfigTypes, ConfigTypeOK
<1> QED BY <1>1, ConfigSpecIInv, PTL

(* The layers there are, and what getEffectiveConfig() relies on: some of    *)
(* them, whichever, have a last one.  This needs no induction over the       *)
(* names, as the layers come one by one.                                     *)
Present == {n \in LayerNames : layers_[n] # NoLayer}
HasLast(S) == S # {} => \E n \in S : \A m \in S : m <= n
LayersOrdered == \A S \in SUBSET Present : HasLast(S)

LEMMA OneMoreLayer ==
    ASSUME NEW S \in SUBSET LayerNames, NEW n \in LayerNames, HasLast(S \ {n})
    PROVE  HasLast(S)
<1> SUFFICES ASSUME S # {} PROVE \E l \in S : \A m \in S : m <= l
  BY DEF HasLast
<1>1. n \in Nat /\ \A m \in S : m \in Nat
  BY ConfigAssumption DEF LayerNames
<1>2. CASE S \ {n} = {}
  <2>1. n \in S /\ \A m \in S : m = n
    BY <1>2
  <2>2. \A m \in S : m <= n
    BY <1>1, <2>1
  <2> QED BY <2>1, <2>2
<1>3. CASE S \ {n} # {}
  <2>1. PICK l \in S \ {n} : \A m \in S \ {n} : m <= l
    BY <1>3 DEF HasLast
  <2>2. CASE n \in S /\ l <= n
    <3>1. \A m \in S : m <= n
      BY <1>1, <2>1, <2>2
    <3> QED BY <2>2, <3>1
  <2>3. CASE ~(n \in S /\ l <= n)
    <3>1. \A m \in S : m <= l
      BY <1>1, <2>1, <2>3
    <3> QED BY <2>1, <3>1
  <2> QED BY <2>2, <2>3
<1> QED BY <1>2, <1>3

LEMMA SpecLayersOrdered == ConfigSpec => []LayersOrdered
<1>1. ConfigInit => LayersOrdered
  BY DEF ConfigInit, LayersOrdered, Present, HasLast
<1>2. ConfigIInv /\ LayersOrdered /\ [ConfigNext]_configVars => LayersOrdered'
  <2> SUFFICES ASSUME ConfigIInv, LayersOrdered, [ConfigNext]_configVars PROVE LayersOrdered'
    OBVIOUS
  <2>1. CASE UNCHANGED layers_
    BY <2>1 DEF LayersOrdered, Present
  <2>2. CASE Clear
    <3>1. Present' = {}
      BY <2>2 DEF Clear, Present
    <3> QED BY <3>1, Zenon DEF LayersOrdered, HasLast
  <2>3. ASSUME NEW n \in LayerNames, NEW doc, SetLayer(n, doc) PROVE LayersOrdered'
    <3>1. Present' \subseteq Present \cup {n}
      BY <2>3 DEF SetLayer, Present
    <3> SUFFICES ASSUME NEW S \in SUBSET (Present'), S # {} PROVE HasLast(S)
      BY DEF LayersOrdered, HasLast
    <3>2. S \ {n} \in SUBSET Present /\ S \in SUBSET LayerNames
      BY <3>1 DEF Present
    <3> QED BY <3>2, OneMoreLayer, Zenon DEF LayersOrdered
  <2>4. UNCHANGED layers_ \/ Clear \/ \E n \in LayerNames : \E doc : SetLayer(n, doc)
    BY Zenon DEF ConfigNext, ConfigCall, LayerCall, ConfigStep, set, remove, mergeFromJsonString,
       loadFromJsonString, clear, enableChangeNotifications, Write, notifyChange, ConfigReturn,
       ParseFails, addLayer, removeLayer, configVars
  <2> QED BY <2>1, <2>2, <2>3, <2>4
<1> QED BY <1>1, <1>2, ConfigSpecIInv, PTL DEF ConfigSpec

(* The two ways to read a key, get() and getEffectiveConfig(), know the same  *)
(* keys, and disagree only on a key that several of them have.               *)
THEOREM ReadsAgree == ConfigSpec => []EffectiveAgrees
<1>1. LayersOrdered => EffectiveAgrees
  <2> SUFFICES ASSUME LayersOrdered, NEW k \in Keys
               PROVE  /\ has(k) <=> getEffectiveConfig[k] # None
                      /\ getEffectiveValue(k) # getEffectiveConfig[k] =>
                            \E n \in Having(k) : values_[k] # None \/ Having(k) # {n}
    BY Zenon DEF EffectiveAgrees
  <2>1. CASE Having(k) = {}
    BY <2>1, Zenon DEF has, getEffectiveConfig, getEffectiveValue
  <2>2. CASE Having(k) # {}
    <3> DEFINE last == CHOOSE n \in Having(k) : \A m \in Having(k) : m <= n
               first == CHOOSE n \in Having(k) : \A m \in Having(k) : n <= m
    <3>1. Having(k) \in SUBSET LayerNames /\ Having(k) \in SUBSET Present
      BY DEF Having, Present
    <3>2. last \in Having(k)
      BY <2>2, <3>1, Zenon DEF LayersOrdered, HasLast
    <3>3. getEffectiveConfig[k] = layers_[last][k] /\ layers_[last][k] # None
      BY <3>2 DEF getEffectiveConfig, Having
    <3>4. values_[k] = None => getEffectiveValue(k) = layers_[first][k]
      BY <2>2 DEF getEffectiveValue
    <3>5. Having(k) = {last} => first = last
      <4> SUFFICES ASSUME Having(k) = {last} PROVE first = last
        OBVIOUS
      <4>1. last \in Nat
        BY <3>1, <3>2 DEF LayerNames
      <4>2. \E n \in Having(k) : \A m \in Having(k) : n <= m
        <5> HIDE DEF last
        <5> QED BY <4>1
      <4>3. first \in Having(k)
        BY <4>2
      <4> QED BY <4>3
    <3> HIDE DEF last, first
    <3> QED BY <3>2, <3>3, <3>4, <3>5, Zenon DEF has
  <2> QED BY <2>1, <2>2, Zenon
<1> QED BY <1>1, SpecLayersOrdered, PTL

-----------------------------------------------------------------------------
(***************************************************************************)
(* Container                                                               *)
(***************************************************************************)

(* The inductive invariant: neither NoOrphanProcess nor TypeOK is inductive  *)
(* alone, as both rest on which steps can find a process running.            *)
IInv == TypeOK /\ NoOrphanProcess /\ LifecycleInvariant

(* Every exit code, and every decoded wait status, is a value of exit_code_. *)
LEMMA ExitCodeTyping ==
    /\ ExitCodes \subseteq ExitCodeValues
    /\ \A w \in WaitStatus \cup {NoStatus} : ExitCodeOf(w) \in ExitCodeValues
<1>1. ASSUME NEW n \in ExitCodes PROVE n \in ExitCodeValues
  <2>1. [how |-> "exited", n |-> n] \in WaitStatus
    BY DEF WaitStatus
  <2>2. ExitCodeOf([how |-> "exited", n |-> n]) = n
    BY DEF ExitCodeOf
  <2> QED BY <2>1, <2>2 DEF ExitCodeValues
<1>2. ExitCodeOf(NoStatus) = 0
  BY Zenon DEF ExitCodeOf, NoStatus
<1> QED BY <1>1, <1>2 DEF ExitCodeValues

(* Delivering SIGKILL and reaping keep kproc a function into ProcStates, make *)
(* no process alive, and change no pid but the one they are given.           *)
LEMMA DoomReap ==
    ASSUME TypeOK, NEW p
    PROVE  /\ Doom(p) \in [Pids -> ProcStates]
           /\ Reap(p) \in [Pids -> ProcStates]
           /\ \A q \in Pids : Doom(p)[q] = "alive" <=> kproc[q] = "alive" /\ q # p
           /\ \A q \in Pids : Reap(p)[q] = "alive" <=> kproc[q] = "alive"
BY DEF TypeOK, Doom, Reap, ProcStates

LEMMA InitIInv == Init => IInv
<1> SUFFICES ASSUME Init PROVE IInv
  OBVIOUS
<1> USE ContainerAssumption DEF Init
<1>1. TypeOK
  <2>1. exit_code_ \in ExitCodeValues
    BY DEF ExitCodeValues
  <2>2. process_manager_ \subseteq Pids \cup {NoPid} BY DEF NoManager
  <2>3. namespace_managers_ \in 0..MaxNamespaces OBVIOUS
  <2>4. kproc \in [Pids -> ProcStates] BY DEF ProcStates
  <2>5. kstatus \in [Pids -> WaitStatus \cup {NoStatus}] OBVIOUS
  <2>6. stats \in [Readers -> {"idle", "using", "dangling"}] OBVIOUS
  <2>7. state_ \in States /\ op \in Ops /\ pc \in Steps BY DEF States, Ops, Steps
  <2> QED BY <2>1, <2>2, <2>3, <2>4, <2>7, Zenon DEF TypeOK
<1>2. NoOrphanProcess
  BY Zenon DEF NoOrphanProcess
<1>3. LifecycleInvariant
  BY Zenon DEF LifecycleInvariant, ControlConsistent, StateMatchesStep, Quiescent, StartSteps,
     StopSteps, CleanupSteps, NoManager, CallbackWaits
<1> QED BY <1>1, <1>2, <1>3 DEF IInv

(* The edges of the transition table into the states an operation asks for. *)
LEMMA Edges ==
  /\ canTransitionTo("STARTING") => state_ \in StartableStates
  /\ canTransitionTo("STOPPING") => state_ \in {"STARTING", "RUNNING", "PAUSED", "RESTARTING"}
  /\ canTransitionTo("RESTARTING") => state_ \in {"RUNNING", "STOPPED"}
  /\ canTransitionTo("REMOVING") => state_ # "REMOVED"
  /\ canTransitionTo("PAUSED") => state_ = "RUNNING" /\ main_pid_ # NoPid
  /\ canTransitionTo("RUNNING") => state_ \in {"STARTING", "PAUSED"} /\ main_pid_ # NoPid
BY Zenon DEF canTransitionTo, isStateTransitionValid

(* A step that leaves Container's own state alone and starts no process keeps *)
(* every process accounted for: exits, recycled pids, signals, getStats().     *)
LEMMA FadeKeeps ==
  ASSUME NoOrphanProcess, LifecycleInvariant,
         UNCHANGED <<state_, removed_, main_pid_, exit_code_, managerVars, op, pc>>,
         \A p \in Pids : kproc'[p] = "alive" => kproc[p] = "alive"
  PROVE  NoOrphanProcess' /\ LifecycleInvariant'
BY DEF managerVars, At, NoOrphanProcess, LifecycleInvariant, ControlConsistent, StateMatchesStep,
   Quiescent, CallbackWaits

(* Every step of Container preserves IInv: one case per action, and in it one *)
(* step for the types, one for the process and one for the control.          *)
LEMMA NextIInv == IInv /\ [Next]_vars => IInv'
<1> SUFFICES ASSUME TypeOK, NoOrphanProcess, LifecycleInvariant, [Next]_vars
             PROVE  IInv'
  BY DEF IInv
<1> USE DEF CallbackWaits, Notify, Stuck
<1>1. CASE SetupCgroups
  <2>1. TypeOK'
    BY <1>1 DEF SetupCgroups, TypeOK, Steps, StartSteps, StopSteps, CleanupSteps, At, Goto,
       kernelVars
  <2>2. NoOrphanProcess'
    BY <1>1, Zenon DEF SetupCgroups, NoOrphanProcess, At, kernelVars
  <2>3. LifecycleInvariant'
    BY <1>1, Zenon DEF SetupCgroups, StartableStates, LifecycleInvariant, ControlConsistent,
       StateMatchesStep, Quiescent, StartSteps, StopSteps, CleanupSteps, At, Goto, kernelVars
  <2> QED BY <2>1, <2>2, <2>3, Zenon DEF IInv
<1>2. CASE ReplaceManager
  <2>1. TypeOK'
    BY <1>2, DoomReap DEF ReplaceManager, InvalidateStats, TypeOK, Ops, Steps, StartSteps,
       StopSteps, CleanupSteps, At, Goto
  <2>2. NoOrphanProcess'
    BY <1>2, DoomReap, ContainerAssumption DEF ReplaceManager, Managed, Executing,
       NoOrphanProcess, At, Goto
  <2>3. LifecycleInvariant'
    BY <1>2, DoomReap DEF ReplaceManager, StartableStates, Managed, Executing, NoOrphanProcess,
       LifecycleInvariant, ControlConsistent, StateMatchesStep, Quiescent, StartSteps, StopSteps,
       CleanupSteps, At, Goto
  <2> QED BY <2>1, <2>2, <2>3 DEF IInv
<1>3. CASE DropManager
  <2>1. TypeOK'
    BY <1>3, DoomReap, Zenon DEF DropManager, TypeOK, Ops, Steps, StartSteps, StopSteps,
       CleanupSteps, At, Goto, managerVars
  <2>2. NoOrphanProcess'
    BY <1>3, DoomReap DEF DropManager, Executing, NoOrphanProcess, At
  <2>3. LifecycleInvariant'
    BY <1>3, DoomReap DEF DropManager, StartableStates, Executing, NoOrphanProcess,
       LifecycleInvariant, ControlConsistent, StateMatchesStep, StartSteps, StopSteps,
       CleanupSteps, At, Goto, managerVars
  <2> QED BY <2>1, <2>2, <2>3 DEF IInv
<1>4. CASE CreateProcess
  <2>1. TypeOK'
    BY <1>4 DEF CreateProcess, StartFailed, TypeOK, States, Ops, Steps, ProcStates, StartSteps,
       StopSteps, CleanupSteps, At, Goto, Unlock
  <2>2. NoOrphanProcess'
    BY <1>4, Zenon DEF CreateProcess, StartableStates, TypeOK, NoOrphanProcess,
       LifecycleInvariant, Quiescent, At
  <2>3. LifecycleInvariant'
    BY <1>4, ContainerAssumption, Zenon DEF CreateProcess, StartFailed, StartableStates,
       LifecycleInvariant, ControlConsistent, StateMatchesStep, Quiescent, StartSteps, StopSteps,
       CleanupSteps, NoManager, At, Goto, Unlock
  <2> QED BY <2>1, <2>2, <2>3 DEF IInv
<1>5. CASE ProbeProcess
  <2>1. TypeOK'
    <3>1. exit_code_' \in ExitCodeValues
      BY <1>5, ExitCodeTyping DEF ProbeProcess, TypeOK, At
    <3>2. state_' \in States /\ op' \in Ops /\ pc' \in Steps
      BY <1>5, Zenon DEF ProbeProcess, StartFailed, TypeOK, States, Ops, Steps, StartSteps, Goto,
         Unlock
    <3> QED
      BY <1>5, <3>1, <3>2, Zenon DEF ProbeProcess, TypeOK, managerVars, kernelVars
  <2>2. NoOrphanProcess'
    BY <1>5 DEF ProbeProcess, NoOrphanProcess, At, managerVars, kernelVars
  <2>3. LifecycleInvariant'
    <3>1. CASE Signalable(main_pid_)
      BY <1>5, <3>1 DEF ProbeProcess, StartableStates, LifecycleInvariant, ControlConsistent,
         StateMatchesStep, Quiescent, StartSteps, StopSteps, CleanupSteps, At, Goto, managerVars
    <3>2. CASE ~Signalable(main_pid_)
      <4>1. \A p \in Pids : kproc[p] # "alive"
        BY <3>2, Zenon DEF NoOrphanProcess, Signalable
      <4> QED
        BY <1>5, <4>1 DEF ProbeProcess, StartFailed, StartableStates, LifecycleInvariant,
           ControlConsistent, StateMatchesStep, StartSteps, StopSteps, CleanupSteps, At, Goto,
           Unlock, managerVars, kernelVars
    <3> QED BY <3>1, <3>2, Zenon
  <2> QED BY <2>1, <2>2, <2>3 DEF IInv
<1>6. CASE WaitFirst
  <2>1. TypeOK'
    <3>1. main_pid_ \in Pids
      BY <1>6, Zenon DEF WaitFirst, TypeOK, Ops, LifecycleInvariant, ControlConsistent,
         StateMatchesStep, StartSteps, CleanupSteps
    <3> QED
      BY <1>6, <3>1, DoomReap, ExitCodeTyping DEF WaitFirst, ReapMain, AfterWait, TypeOK, States,
         Ops, Steps, StartSteps, StopSteps, CleanupSteps, Goto, Unlock, managerVars
  <2>2. NoOrphanProcess'
    BY <1>6, DoomReap, Zenon DEF WaitFirst, ReapMain, NoOrphanProcess, At, managerVars
  <2>3. LifecycleInvariant'
    <3>1. op \in {"stop", "restart"} /\ state_ \notin {"CREATED", "ERROR"}
      BY <1>6, Zenon DEF WaitFirst, TypeOK, Ops, LifecycleInvariant, ControlConsistent,
         StateMatchesStep, StartSteps, StopSteps, CleanupSteps
    <3>2. CASE op = "stop"
      BY <1>6, <3>2, Zenon DEF WaitFirst, AfterWait, LifecycleInvariant, ControlConsistent,
         StateMatchesStep, Quiescent, StartSteps, StopSteps, CleanupSteps, Goto, managerVars
    <3>3. CASE op = "restart"
      BY <1>6, DoomReap, <3>3 DEF WaitFirst, ReapMain, AfterWait, Executing, LifecycleInvariant,
         ControlConsistent, StateMatchesStep, Quiescent, StartSteps, StopSteps, CleanupSteps,
         Goto, Unlock, managerVars
    <3> QED BY <3>1, <3>2, <3>3, Zenon
  <2> QED BY <2>1, <2>2, <2>3 DEF IInv
<1>7. CASE WaitSecond
  <2>1. TypeOK'
    <3>1. main_pid_ \in Pids
      BY <1>7, Zenon DEF WaitSecond, TypeOK, Ops, LifecycleInvariant, ControlConsistent,
         StateMatchesStep, StartSteps, CleanupSteps
    <3> QED
      BY <1>7, <3>1, DoomReap, ExitCodeTyping, Zenon DEF WaitSecond, ReapMain, AfterWait, TypeOK,
         States, Ops, Steps, StartSteps, StopSteps, CleanupSteps, Goto, Unlock, managerVars
  <2>2. NoOrphanProcess'
    BY <1>7, DoomReap, Zenon DEF WaitSecond, ReapMain, NoOrphanProcess, At, managerVars
  <2>3. LifecycleInvariant'
    <3>1. op \in {"stop", "restart"} /\ state_ \notin {"CREATED", "ERROR"}
      BY <1>7, Zenon DEF WaitSecond, TypeOK, Ops, LifecycleInvariant, ControlConsistent,
         StateMatchesStep, StartSteps, StopSteps, CleanupSteps
    <3>2. CASE op = "stop"
      BY <1>7, <3>2, Zenon DEF WaitSecond, AfterWait, LifecycleInvariant, ControlConsistent,
         StateMatchesStep, Quiescent, StartSteps, StopSteps, CleanupSteps, Goto, managerVars
    <3>3. CASE op = "restart"
      BY <1>7, <3>3, Zenon DEF WaitSecond, AfterWait, LifecycleInvariant, ControlConsistent,
         StateMatchesStep, Quiescent, StartSteps, StopSteps, CleanupSteps, Unlock, managerVars
    <3> QED BY <3>1, <3>2, <3>3
  <2> QED BY <2>1, <2>2, <2>3 DEF IInv
<1>8. CASE PollExit
  <2>1. TypeOK'
    <3>1. kproc' \in [Pids -> ProcStates]
      <4>1. kproc \in [Pids -> ProcStates]
        BY DEF TypeOK
      <4> QED BY <1>8, <4>1, DoomReap, Zenon DEF PollExit
    <3> QED
      BY <1>8, <3>1 DEF PollExit, TypeOK, Ops, Steps, StartSteps, StopSteps, CleanupSteps, At,
         Goto, managerVars
  <2>2. NoOrphanProcess'
    BY <1>8, DoomReap DEF PollExit, NoOrphanProcess, At, managerVars
  <2>3. LifecycleInvariant'
    BY <1>8, DoomReap DEF PollExit, Signalable, NoOrphanProcess, LifecycleInvariant,
       ControlConsistent, StateMatchesStep, StartSteps, StopSteps, CleanupSteps, At, Goto,
       managerVars
  <2> QED BY <2>1, <2>2, <2>3 DEF IInv
<1>9. CASE KillWait
  <2>1. TypeOK'
    <3>1. main_pid_ \in Pids
      BY <1>9, Zenon DEF KillWait, TypeOK, Ops, LifecycleInvariant, StateMatchesStep, StartSteps
    <3> QED
      BY <1>9, <3>1, DoomReap, ExitCodeTyping, Zenon DEF KillWait, ReapMain, TypeOK, Ops, Steps,
         StartSteps, StopSteps, CleanupSteps, Goto, managerVars
  <2>2. NoOrphanProcess'
    BY <1>9, DoomReap, ZenonT(30) DEF KillWait, ReapMain, NoOrphanProcess, At, managerVars
  <2>3. LifecycleInvariant'
    BY <1>9, DoomReap DEF KillWait, ReapMain, LifecycleInvariant, ControlConsistent,
       StateMatchesStep, Quiescent, StartSteps, StopSteps, CleanupSteps, Goto, managerVars
  <2> QED BY <2>1, <2>2, <2>3 DEF IInv
<1>10. CASE CleanupTerm
  <2>1. TypeOK'
    BY <1>10, DoomReap DEF CleanupTerm, InvalidateStats, TypeOK, Steps, StartSteps, StopSteps,
       CleanupSteps, NoManager, Goto
  <2>2. NoOrphanProcess'
    BY <1>10, DoomReap DEF CleanupTerm, Managed, Executing, NoOrphanProcess, NoManager, At
  <2>3. LifecycleInvariant'
    BY <1>10, DoomReap DEF CleanupTerm, Managed, Executing, NoOrphanProcess, LifecycleInvariant,
       ControlConsistent, StateMatchesStep, Quiescent, StartSteps, StopSteps, CleanupSteps, At,
       Goto
  <2> QED BY <2>1, <2>2, <2>3 DEF IInv
<1>11. CASE CleanupKill
  <2>1. TypeOK'
    BY <1>11, DoomReap, Zenon DEF CleanupKill, TypeOK, Steps, StartSteps, StopSteps, CleanupSteps,
       Goto, managerVars
  <2>2. NoOrphanProcess'
    BY <1>11, DoomReap DEF CleanupKill, NoOrphanProcess, At, managerVars
  <2>3. LifecycleInvariant'
    BY <1>11, DoomReap DEF CleanupKill, Executing, NoOrphanProcess, LifecycleInvariant,
       ControlConsistent, StateMatchesStep, StartSteps, StopSteps, CleanupSteps, At, Goto,
       managerVars
  <2> QED BY <2>1, <2>2, <2>3 DEF IInv
<1>12. CASE CleanupDrop
  <2>1. TypeOK'
    BY <1>12, DoomReap, Zenon DEF CleanupDrop, InvalidateStats, TypeOK, Steps, StartSteps,
       StopSteps, CleanupSteps, NoManager, Goto
  <2>2. NoOrphanProcess'
    BY <1>12, DoomReap DEF CleanupDrop, NoOrphanProcess, LifecycleInvariant, Quiescent, At
  <2>3. LifecycleInvariant'
    BY <1>12, DoomReap DEF CleanupDrop, LifecycleInvariant, ControlConsistent, StateMatchesStep,
       Quiescent, StartSteps, StopSteps, CleanupSteps, Goto
  <2> QED BY <2>1, <2>2, <2>3 DEF IInv
<1>13. CASE Release
  <2>1. TypeOK'
    <3>1. cgroup_manager_' \in BOOLEAN /\ cgroupDir' \in BOOLEAN
      BY <1>13, Zenon DEF Release, TypeOK
    <3>2. removed_' \in BOOLEAN /\ state_' \in States
      BY <1>13, Zenon DEF Release, TypeOK, States
    <3> QED
      BY <1>13, <3>1, <3>2, ContainerAssumption DEF Release, TypeOK, Steps, Goto, kernelVars
  <2>2. NoOrphanProcess'
    BY <1>13, Zenon DEF Release, NoOrphanProcess, At, kernelVars
  <2>3. LifecycleInvariant'
    BY <1>13 DEF Release, LifecycleInvariant, ControlConsistent, StateMatchesStep, Quiescent,
       StartSteps, StopSteps, CleanupSteps, Goto, kernelVars
  <2> QED BY <2>1, <2>2, <2>3 DEF IInv
<1>14. CASE Start \/ Stop \/ Restart \/ Destroy \/ \E force \in BOOLEAN : Remove(force)
  <2>1. TypeOK'
    BY <1>14, ContainerAssumption DEF Start, Stop, Restart, Destroy, Remove, TypeOK, Ops, Steps,
       StartSteps, StopSteps, CleanupSteps, Lock, managerVars, kernelVars
  <2>2. NoOrphanProcess'
    BY <1>14, Zenon DEF Start, Stop, Restart, Destroy, Remove, NoOrphanProcess, Lock, At,
       managerVars, kernelVars
  <2>3. /\ op = "none" /\ pc = "idle"
        /\ UNCHANGED <<state_, removed_, main_pid_, process_manager_, cgroup_manager_, kproc>>
        /\ op' = "start" \/ UNCHANGED namespace_managers_
        /\ \/ op' = "start" /\ pc' = "cgroup" /\ state_ \in StartableStates
           \/ /\ op' = "stop" /\ pc' = "wait1"
              /\ state_ \in {"STARTING", "RUNNING", "PAUSED", "RESTARTING"}
           \/ op' = "restart" /\ pc' = "wait1" /\ state_ \in {"RUNNING", "STOPPED"}
           \/ op' = "remove" /\ pc' = "cleanup" /\ state_ # "REMOVED"
           \/ op' = "destroy" /\ pc' = IF removed_ THEN "destroyed" ELSE "cleanup"
    BY <1>14, Edges DEF Start, Stop, Restart, Destroy, Remove, Lock, managerVars, kernelVars
  <2>4. LifecycleInvariant'
    BY <2>3 DEF StartableStates, LifecycleInvariant, ControlConsistent, StateMatchesStep,
       Quiescent, StartSteps, StopSteps, CleanupSteps
  <2> QED BY <2>1, <2>2, <2>4 DEF IInv
<1>15. CASE Pause \/ Resume \/ EnterRunning \/ EnterStopped \/ EnterRemoved
  <2>1. TypeOK'
    <3>1. state_' \in States /\ removed_' \in BOOLEAN /\ op' \in Ops /\ pc' \in Steps
      BY <1>15, ZenonT(30) DEF Pause, Resume, EnterRunning, EnterStopped, EnterRemoved, TypeOK,
         States, Ops, Steps, Unlock
    <3>2. UNCHANGED <<main_pid_, exit_code_, managerVars, kernelVars, stats>>
      BY <1>15, Zenon DEF Pause, Resume, EnterRunning, EnterStopped, EnterRemoved
    <3> QED BY <3>1, <3>2, Zenon DEF TypeOK, managerVars, kernelVars
  <2>2. NoOrphanProcess'
    BY <1>15, Zenon DEF Pause, Resume, EnterRunning, EnterStopped, EnterRemoved, NoOrphanProcess,
       At, managerVars, kernelVars
  <2>3. CASE Pause \/ Resume
    <3>1. op = "none" /\ UNCHANGED <<removed_, main_pid_, managerVars>>
      BY <2>3, Zenon DEF Pause, Resume
    <3>2. UNCHANGED <<op, pc>> \/ (op' \in {"pause", "resume"} /\ pc' = "callback")
      BY <2>3 DEF Pause, Resume
    <3>3. /\ main_pid_ # NoPid
          /\ state_ \in {"STARTING", "RUNNING", "PAUSED"} /\ state_' \in {"RUNNING", "PAUSED"}
      BY <2>3, Edges, Zenon DEF Pause, Resume
    <3>4. LifecycleInvariant'
      BY <3>1, <3>2, <3>3 DEF LifecycleInvariant, ControlConsistent, StateMatchesStep, Quiescent,
         StartSteps, StopSteps, CleanupSteps, managerVars
    <3> QED BY <2>1, <2>2, <3>4, Zenon DEF IInv
  <2>4. CASE EnterRunning \/ EnterStopped \/ EnterRemoved
    <3> USE DEF LifecycleInvariant, ControlConsistent, StateMatchesStep, Quiescent, StartSteps,
                StopSteps, CleanupSteps, At, Unlock, managerVars
    <3>1. CASE EnterRunning
      <4>1. LifecycleInvariant'
        BY <3>1, Edges DEF EnterRunning
      <4> QED BY <2>1, <2>2, <4>1, Zenon DEF IInv
    <3>2. CASE EnterStopped
      <4>1. LifecycleInvariant'
        BY <3>2 DEF EnterStopped, kernelVars
      <4> QED BY <2>1, <2>2, <4>1, Zenon DEF IInv
    <3>3. CASE EnterRemoved
      <4>1. LifecycleInvariant'
        BY <3>3 DEF EnterRemoved, kernelVars
      <4> QED BY <2>1, <2>2, <4>1, Zenon DEF IInv
    <3> QED BY <2>4, <3>1, <3>2, <3>3, Zenon
  <2> QED BY <1>15, <2>3, <2>4, Zenon
<1>16. ASSUME NEW signal \in {SIGTERM, SIGKILL}, Kill(signal)
      PROVE  IInv'
  <2>1. TypeOK'
    BY <1>16, DoomReap, Zenon DEF Kill, TypeOK, Ops, managerVars
  <2>2. \A q \in Pids : kproc'[q] = "alive" => kproc[q] = "alive"
    BY <1>16, DoomReap, Zenon DEF Kill
  <2>3. UNCHANGED <<state_, removed_, main_pid_, exit_code_, managerVars, op, pc>>
    BY <1>16, Zenon DEF Kill
  <2> QED BY <2>1, <2>2, <2>3, FadeKeeps, Zenon DEF IInv
<1>17. ASSUME NEW p \in Pids, ProcessExit(p)
      PROVE  IInv'
  <2>1. TypeOK'
    BY <1>17 DEF ProcessExit, Executing, TypeOK, ProcStates, managerVars
  <2>2. \A q \in Pids : kproc'[q] = "alive" => kproc[q] = "alive"
    BY <1>17 DEF ProcessExit
  <2>3. UNCHANGED <<state_, removed_, main_pid_, exit_code_, managerVars, op, pc>>
    BY <1>17, Zenon DEF ProcessExit
  <2> QED BY <2>1, <2>2, <2>3, FadeKeeps, Zenon DEF IInv
<1>18. ASSUME NEW p \in Pids, PidRecycled(p)
      PROVE  IInv'
  <2>1. TypeOK'
    BY <1>18, Zenon DEF PidRecycled, TypeOK, ProcStates, managerVars
  <2>2. \A q \in Pids : kproc'[q] = "alive" => kproc[q] = "alive"
    BY <1>18 DEF PidRecycled
  <2>3. UNCHANGED <<state_, removed_, main_pid_, exit_code_, managerVars, op, pc>>
    BY <1>18, Zenon DEF PidRecycled
  <2> QED BY <2>1, <2>2, <2>3, FadeKeeps, Zenon DEF IInv
<1>19. ASSUME NEW r \in Readers, StatsBegin(r)
      PROVE  IInv'
  <2>1. TypeOK'
    BY <1>19, Zenon DEF StatsBegin, TypeOK, managerVars, kernelVars
  <2>2. \A q \in Pids : kproc'[q] = "alive" => kproc[q] = "alive"
    BY <1>19, Zenon DEF StatsBegin, kernelVars
  <2>3. UNCHANGED <<state_, removed_, main_pid_, exit_code_, managerVars, op, pc>>
    BY <1>19 DEF StatsBegin
  <2> QED BY <2>1, <2>2, <2>3, FadeKeeps, Zenon DEF IInv
<1>20. ASSUME NEW r \in Readers, StatsEnd(r)
      PROVE  IInv'
  <2>0. /\ kproc' \in {kproc, Reap(main_pid_)}
        /\ kstatus' \in {kstatus, [kstatus EXCEPT ![main_pid_] = NoStatus]}
    BY <1>20, Zenon DEF StatsEnd, kernelVars
  <2>1. TypeOK'
    <3>1. kproc' \in [Pids -> ProcStates] /\ kstatus' \in [Pids -> WaitStatus \cup {NoStatus}]
      BY <2>0, DoomReap DEF TypeOK
    <3> QED BY <1>20, <3>1, Zenon DEF StatsEnd, TypeOK, managerVars
  <2>2. \A q \in Pids : kproc'[q] = "alive" => kproc[q] = "alive"
    BY <2>0, DoomReap
  <2>3. UNCHANGED <<state_, removed_, main_pid_, exit_code_, managerVars, op, pc>>
    BY <1>20, Zenon DEF StatsEnd
  <2> QED BY <2>1, <2>2, <2>3, FadeKeeps DEF IInv
<1>21. CASE UNCHANGED vars
  <2>1. TypeOK'
    BY <1>21, Zenon DEF TypeOK, vars, managerVars, kernelVars
  <2>2. \A q \in Pids : kproc'[q] = "alive" => kproc[q] = "alive"
    BY <1>21, Zenon DEF vars, kernelVars
  <2>3. UNCHANGED <<state_, removed_, main_pid_, exit_code_, managerVars, op, pc>>
    BY <1>21, Zenon DEF vars, managerVars
  <2> QED BY <2>1, <2>2, <2>3, FadeKeeps, Zenon DEF IInv
<1> QED
  BY <1>1, <1>2, <1>3, <1>4, <1>5, <1>6, <1>7, <1>8, <1>9, <1>10, <1>11, <1>12, <1>13, <1>14,
     <1>15, <1>16, <1>17, <1>18, <1>19, <1>20, <1>21, Zenon
  DEF Next, HolderStep, Call, Kernel, Stats

(* IInv holds in every reachable state. *)
LEMMA Invariance == Spec => []IInv
BY InitIInv, NextIInv, PTL DEF Spec

(* Type correctness of Container, for every value of the constants. *)
THEOREM TypeCorrectness == Spec => []TypeOK
BY Invariance, PTL DEF IInv

(* No operation of Container, and no destructor of a replaced ProcessManager, *)
(* loses track of a process that runs and has not been sent SIGKILL.          *)
THEOREM NoOrphans == Spec => []NoOrphanProcess
BY Invariance, PTL DEF IInv

(* state_, the running operation and the process stay consistent. *)
THEOREM LifecycleConsistency == Spec => []LifecycleInvariant
BY Invariance, PTL DEF IInv

(* remove() and the destructor release everything: cleanupResources() leaves *)
(* no process unkilled and no manager behind.                                *)
THEOREM RemovalReleases == Spec => []RemovedReleasesAll
<1>1. IInv => RemovedReleasesAll
  BY DEF IInv, LifecycleInvariant, Quiescent, RemovedReleasesAll, CallbackWaits
<1> QED BY <1>1, Invariance, PTL

(* stop() returns by the step that stores STOPPED, and by no other. *)
LEMMA StopReturns ==
    ASSUME Next, op = "stop", op' = "none"
    PROVE  EnterStopped
<1>1. HolderStep
  BY Zenon DEF Next, Call, Kernel, Stats, Start, Stop, Restart, Pause, Resume, Destroy, Kill,
     Remove, ProcessExit, PidRecycled, StatsBegin, StatsEnd, Lock
<1>2. ~AfterWait
  BY Zenon DEF AfterWait, Goto, Notify, Stuck
<1>3. ~(WaitFirst \/ WaitSecond \/ PollExit \/ KillWait)
  BY <1>2, Zenon DEF WaitFirst, WaitSecond, PollExit, KillWait, Goto
<1>4. ~(CleanupTerm \/ CleanupKill \/ CleanupDrop \/ Release)
  BY Zenon DEF CleanupTerm, CleanupKill, CleanupDrop, Release, Goto
<1> QED
  BY <1>1, <1>3, <1>4, Zenon DEF HolderStep, SetupCgroups, ReplaceManager, DropManager,
     CreateProcess, ProbeProcess, EnterRunning, EnterRemoved, At

(* stop() does not return before the process has exited or been killed. *)
THEOREM StopEnds == Spec => StopEndsProcess
<1>1. IInv /\ [Next]_vars => [op = "stop" /\ op' = "none" => kproc[main_pid_] # "alive"]_vars
  <2> SUFFICES ASSUME IInv, Next, op = "stop", op' = "none"
               PROVE  kproc[main_pid_] # "alive"
    BY Zenon DEF vars
  <2>1. EnterStopped
    BY StopReturns, Zenon
  <2>2. pc = "stopped" /\ main_pid_ \in Pids
    BY <2>1, Zenon DEF EnterStopped, At, IInv, TypeOK, LifecycleInvariant, StateMatchesStep,
       CallbackWaits
  <2> QED BY <2>2, Zenon DEF IInv, LifecycleInvariant, Quiescent
<1> QED BY <1>1, Invariance, PTL DEF Spec, StopEndsProcess

(* The exit code of a managed process is known once it is reaped, unless     *)
(* getStats() has dropped the status, and except between the waitpid of      *)
(* cleanupResources(), which drops it too, and the end of its manager.  The  *)
(* manager that start() replaces is gone before anything is reaped on its    *)
(* behalf, and only getStats() reaps the new process before start() has      *)
(* looked at it.                                                             *)
ExitRecorded ==
    /\ Managed(main_pid_) /\ kproc[main_pid_] \in {"gone", "foreign"} /\ pc # "cleanupDrop"
          /\ kstatus[main_pid_] # NoStatus
          => exit_code_ = ExitCodeOf(kstatus[main_pid_])
    /\ pc \in {"drop", "fork"} => process_manager_ = {}
    /\ pc = "probe" => kproc[main_pid_] \in {"alive", "zombie"} \/ kstatus[main_pid_] = NoStatus

(* A step that leaves the process, its manager and the exit code alone. *)
LEMMA RecordKept ==
    ASSUME ExitRecorded, UNCHANGED <<main_pid_, exit_code_, process_manager_, kproc, kstatus>>,
           pc # "cleanupDrop", pc' \notin {"drop", "fork", "probe"} \/ pc' = pc
    PROVE  ExitRecorded'
BY DEF ExitRecorded, Managed

(* A waitpid that stores the status it obtains. *)
LEMMA ReapRecorded ==
    ASSUME ExitRecorded, kproc \in [Pids -> ProcStates], main_pid_ \in Pids, ReapMain,
           UNCHANGED <<main_pid_, process_manager_, kstatus>>,
           pc # "cleanupDrop", pc' \notin {"drop", "fork", "probe"}
    PROVE  ExitRecorded'
<1>1. CASE kproc[main_pid_] = "zombie"
  BY <1>1 DEF ExitRecorded, Managed, ReapMain
<1>2. CASE kproc[main_pid_] # "zombie"
  <2>1. UNCHANGED <<kproc, exit_code_>>
    BY <1>2 DEF ReapMain, Reap
  <2> QED BY <2>1, RecordKept
<1> QED BY <1>1, <1>2

(* SIGKILL ends no process by itself, and reaps none. *)
LEMMA DoomRecorded ==
    ASSUME ExitRecorded, kproc \in [Pids -> ProcStates],
           UNCHANGED <<main_pid_, exit_code_, process_manager_, kstatus>>,
           kproc' = Doom(main_pid_) \/ kproc' = kproc,
           pc \notin {"cleanupDrop", "probe"}, pc' \notin {"drop", "fork", "probe"}
    PROVE  ExitRecorded'
<1>1. kproc'[main_pid_] \in {"gone", "foreign"} => kproc' = kproc
  BY DEF Doom
<1> QED BY <1>1 DEF ExitRecorded, Managed

(* A process that is not managed has no exit code to record. *)
LEMMA NothingToRecord ==
    ASSUME ~Managed(main_pid_)', pc' \notin {"drop", "fork", "probe"}
    PROVE  ExitRecorded'
BY DEF ExitRecorded

LEMMA HolderRecords ==
    ASSUME ExitRecorded, IInv, HolderStep
    PROVE  ExitRecorded'
<1> USE DEF CallbackWaits, Notify, Stuck
<1>0. /\ kproc \in [Pids -> ProcStates] /\ main_pid_ \in Pids \cup {NoPid}
      /\ pc = "probe" => main_pid_ # NoPid
      /\ pc \in StopSteps => main_pid_ \in Pids
  BY Zenon DEF IInv, TypeOK, LifecycleInvariant, ControlConsistent, StateMatchesStep, StopSteps,
     StartSteps, CleanupSteps, Ops
<1>1. CASE SetupCgroups \/ EnterRunning \/ EnterStopped \/ Release \/ EnterRemoved
  <2>1. /\ UNCHANGED <<main_pid_, exit_code_, process_manager_, kproc, kstatus>>
        /\ pc # "cleanupDrop" /\ pc' \notin {"drop", "fork", "probe"}
    BY <1>1, Zenon DEF SetupCgroups, EnterRunning, EnterStopped, Release, EnterRemoved, At, Goto,
       Unlock, managerVars, kernelVars
  <2> QED BY <2>1, RecordKept
<1>2. CASE ReplaceManager
  <2>1. process_manager_' = {} /\ pc' \in {"drop", "fork"}
    BY <1>2, Zenon DEF ReplaceManager, Goto
  <2> QED BY <2>1 DEF ExitRecorded, Managed
<1>3. CASE DropManager
  <2>1. process_manager_' = {} /\ pc' = "fork"
    BY <1>3, Zenon DEF DropManager, At, Goto, managerVars, ExitRecorded
  <2> QED BY <2>1 DEF ExitRecorded, Managed
<1>4. CASE CreateProcess
  <2>1. CASE pc' = "probe"
    <3>1. main_pid_' \in Pids /\ kproc' = [kproc EXCEPT ![main_pid_'] = "alive"]
      BY <1>4, <2>1, Zenon DEF CreateProcess, StartFailed, Unlock, Goto
    <3> QED BY <1>0, <2>1, <3>1 DEF ExitRecorded
  <2>2. CASE pc' # "probe"
    <3>1. /\ UNCHANGED <<main_pid_, exit_code_, process_manager_, kproc, kstatus>>
          /\ pc # "cleanupDrop" /\ pc' \in {"idle", "callback"}
      BY <1>4, <2>2, Zenon DEF CreateProcess, StartFailed, Unlock, Goto, At
    <3> QED BY <3>1, RecordKept
  <2> QED BY <2>1, <2>2
<1>5. CASE ProbeProcess
  <2>1. /\ pc = "probe" /\ pc' \in {"running", "idle", "callback"}
        /\ UNCHANGED <<main_pid_, process_manager_, kproc, kstatus>>
    BY <1>5, Zenon DEF ProbeProcess, StartFailed, At, Goto, Unlock, managerVars, kernelVars
  <2>2. CASE Signalable(main_pid_)
    <3>1. UNCHANGED exit_code_
      BY <1>5, <2>2, Zenon DEF ProbeProcess
    <3> QED BY <2>1, <3>1, RecordKept
  <2>3. CASE ~Signalable(main_pid_)
    <3>1. kstatus[main_pid_] = NoStatus
      BY <2>1, <2>3, Zenon DEF ExitRecorded, Signalable
    <3> QED BY <2>1, <3>1 DEF ExitRecorded
  <2> QED BY <2>2, <2>3
<1>6. CASE WaitFirst \/ WaitSecond \/ KillWait
  <2>1. /\ ReapMain /\ UNCHANGED <<main_pid_, process_manager_, kstatus>>
        /\ pc \in StopSteps /\ pc' \notin {"drop", "fork", "probe"}
    BY <1>6 DEF WaitFirst, WaitSecond, KillWait, AfterWait, Goto, Unlock, StopSteps, managerVars
  <2>2. pc # "cleanupDrop"
    BY <2>1 DEF StopSteps
  <2> QED BY <1>0, <2>1, <2>2, ReapRecorded
<1>7. CASE PollExit
  <2>1. /\ UNCHANGED <<main_pid_, exit_code_, process_manager_, kstatus>>
        /\ kproc' = Doom(main_pid_) \/ kproc' = kproc
        /\ pc = "poll" /\ pc' \in {"kill1", "stopped"}
    BY <1>7, Zenon DEF PollExit, At, Goto, managerVars
  <2> QED BY <1>0, <2>1, DoomRecorded
<1>8. CASE CleanupTerm
  <2>1. CASE pc' = "cleanupWait"
    <3>1. /\ UNCHANGED <<main_pid_, exit_code_, process_manager_, kproc, kstatus>>
          /\ pc = "cleanup"
      BY <1>8, <2>1, Zenon DEF CleanupTerm, Goto
    <3> QED BY <2>1, <3>1, RecordKept
  <2>2. CASE pc' # "cleanupWait"
    <3>1. process_manager_' = NoManager /\ pc' = "release"
      BY <1>8, <2>2, Zenon DEF CleanupTerm, Goto
    <3> QED BY <3>1, NothingToRecord DEF Managed, NoManager
  <2> QED BY <2>1, <2>2
<1>9. CASE CleanupKill
  <2>1. pc' = "cleanupDrop"
    BY <1>9, Zenon DEF CleanupKill, Goto
  <2> QED BY <2>1 DEF ExitRecorded
<1>10. CASE CleanupDrop
  <2>1. process_manager_' = NoManager /\ pc' = "release"
    BY <1>10, Zenon DEF CleanupDrop, Goto
  <2> QED BY <2>1, NothingToRecord DEF Managed, NoManager
<1> QED BY <1>1, <1>2, <1>3, <1>4, <1>5, <1>6, <1>7, <1>8, <1>9, <1>10, Zenon DEF HolderStep

LEMMA NextRecords ==
    ASSUME ExitRecorded, IInv, [Next]_vars
    PROVE  ExitRecorded'
<1>0. /\ kproc \in [Pids -> ProcStates] /\ kstatus \in [Pids -> WaitStatus \cup {NoStatus}]
      /\ op = "none" => pc = "idle"
  BY Zenon DEF IInv, TypeOK, LifecycleInvariant, ControlConsistent
<1>1. CASE HolderStep
  BY <1>1, HolderRecords
<1>2. CASE Call
  <2>1. /\ UNCHANGED <<main_pid_, exit_code_, process_manager_, kstatus>>
        /\ kproc' = Doom(main_pid_) \/ kproc' = kproc
        /\ pc = "idle" /\ pc' \notin {"drop", "fork", "probe"}
    BY <1>0, <1>2 DEF Call, Start, Stop, Restart, Pause, Resume, Destroy, Kill, Remove, Lock,
       Stuck, managerVars, kernelVars
  <2> QED BY <1>0, <2>1, DoomRecorded
<1>3. ASSUME NEW p \in Pids, ProcessExit(p) PROVE ExitRecorded'
  <2>1. /\ UNCHANGED <<main_pid_, exit_code_, process_manager_, pc>>
        /\ kproc' = [kproc EXCEPT ![p] = "zombie"]
        /\ \E w \in WaitStatus : kstatus' = [kstatus EXCEPT ![p] = w]
    BY <1>3, Zenon DEF ProcessExit, managerVars
  <2> QED BY <1>0, <2>1 DEF ExitRecorded, Managed
<1>4. ASSUME NEW p \in Pids, PidRecycled(p) PROVE ExitRecorded'
  <2>1. /\ UNCHANGED <<main_pid_, exit_code_, process_manager_, pc, kstatus>>
        /\ kproc[p] = "gone" /\ kproc' = [kproc EXCEPT ![p] = "foreign"]
    BY <1>4, Zenon DEF PidRecycled, managerVars
  <2> QED BY <1>0, <2>1 DEF ExitRecorded, Managed
<1>5. CASE UNCHANGED vars
  BY <1>5 DEF ExitRecorded, Managed, vars, managerVars, kernelVars
<1>6. ASSUME NEW r \in Readers, StatsBegin(r) PROVE ExitRecorded'
  <2>1. UNCHANGED <<main_pid_, exit_code_, process_manager_, kproc, kstatus, pc>>
    BY <1>6, Zenon DEF StatsBegin, managerVars, kernelVars
  <2> QED BY <2>1 DEF ExitRecorded, Managed
<1>7. ASSUME NEW r \in Readers, StatsEnd(r) PROVE ExitRecorded'
  <2>1. UNCHANGED <<main_pid_, exit_code_, process_manager_, pc>>
    BY <1>7, Zenon DEF StatsEnd, managerVars
  <2>2. CASE Managed(main_pid_) /\ kproc[main_pid_] = "zombie"
    <3>1. main_pid_ \in Pids
      BY <2>2, Zenon DEF Managed, IInv, TypeOK
    <3>2. kstatus'[main_pid_] = NoStatus
      BY <1>0, <1>7, <2>2, <3>1, Zenon DEF StatsEnd
    <3> QED BY <2>1, <3>2 DEF ExitRecorded
  <2>3. CASE ~(Managed(main_pid_) /\ kproc[main_pid_] = "zombie")
    <3>1. UNCHANGED <<kproc, kstatus>>
      BY <1>7, <2>3, Zenon DEF StatsEnd, kernelVars
    <3> QED BY <2>1, <3>1 DEF ExitRecorded, Managed
  <2> QED BY <2>2, <2>3
<1> QED BY <1>1, <1>2, <1>3, <1>4, <1>5, <1>6, <1>7 DEF Next, Kernel, Stats

(* stop() returns with the exit code of the process it has waited for, unless *)
(* a getStats() dropped it: no other waitpid, and no start() that fails late, *)
(* makes exit_code_ wrong.                                                    *)
THEOREM ExitCodeRecorded == Spec => StopRecordsExitCode
<1>1. Init => ExitRecorded
  BY DEF Init, ExitRecorded, Managed, NoManager
<1>2. ExitRecorded /\ IInv /\ [Next]_vars => ExitRecorded'
  BY NextRecords
<1>3. ExitRecorded /\ IInv /\ [Next]_vars =>
        [op = "stop" /\ op' = "none" /\ Managed(main_pid_)
           /\ kproc[main_pid_] \in {"gone", "foreign"} /\ kstatus[main_pid_] # NoStatus
           => exit_code_' = ExitCodeOf(kstatus[main_pid_])]_vars
  <2> SUFFICES ASSUME ExitRecorded, IInv, Next, op = "stop", op' = "none", Managed(main_pid_),
                      kproc[main_pid_] \in {"gone", "foreign"}, kstatus[main_pid_] # NoStatus
               PROVE  exit_code_' = ExitCodeOf(kstatus[main_pid_])
    BY Zenon DEF vars
  <2>1. EnterStopped
    BY StopReturns, Zenon
  <2>2. pc = "stopped" /\ exit_code_' = exit_code_
    BY <2>1, Zenon DEF EnterStopped, At
  <2> QED BY <2>2 DEF ExitRecorded
<1> QED BY <1>1, <1>2, <1>3, Invariance, PTL DEF Spec, StopRecordsExitCode

(* A step that leaves state_ alone and, but for at most one process that ends, *)
(* every live process too, is a step of the abstract specification.          *)
LEMMA SamePhase ==
    ASSUME TypeOK, NoOrphanProcess, UNCHANGED state_,
           \A q \in Pids : kproc'[q] = "alive" => kproc[q] = "alive"
    PROVE  [Lifecycle!Next]_(Lifecycle!vars)
<1> DEFINE Live == {q \in Pids : kproc[q] = "alive"}
<1>1. CASE \A q \in Pids : kproc[q] = "alive" => kproc'[q] = "alive"
  <2>1. Live' = Live
    BY <1>1, Zenon
  <2> QED BY <2>1, Zenon DEF Lifecycle!vars
<1>2. CASE \E q \in Pids : kproc[q] = "alive" /\ kproc'[q] # "alive"
  <2>1. PICK q \in Pids : kproc[q] = "alive" /\ kproc'[q] # "alive"
    BY <1>2, Zenon
  <2>2. q \in Live /\ Live' = Live \ {q}
    BY <2>1, Zenon DEF NoOrphanProcess
  <2> QED BY <2>2, Zenon DEF Lifecycle!Next, Lifecycle!End
<1> QED BY <1>1, <1>2, Zenon

(* A step to a phase the abstract specification allows, which changes no live *)
(* process, and finds none where the new phase is at rest.                    *)
LEMMA NextPhase ==
    ASSUME TypeOK, state_' \in Lifecycle!Successors(state_),
           \A q \in Pids : kproc'[q] = "alive" <=> kproc[q] = "alive",
           state_' \in Lifecycle!AtRest => \A q \in Pids : kproc[q] # "alive"
    PROVE  [Lifecycle!Next]_(Lifecycle!vars)
<1> DEFINE Live == {q \in Pids : kproc[q] = "alive"}
<1>1. Live' = Live
  BY Zenon
<1>2. state_' \in Lifecycle!AtRest => Live = {}
  OBVIOUS
<1> QED BY Zenon DEF Lifecycle!Next, Lifecycle!Move

(* Container implements ContainerLifecycle: the phases of a container follow *)
(* the abstract graph, a process is launched only when none is live, and none *)
(* is live in a phase at rest.                                                *)
THEOREM Refinement == Spec => ImplementsLifecycle
<1> USE ContainerAssumption DEF At, Goto, Unlock, Notify, Stuck, CallbackWaits, kernelVars,
    managerVars
<1>1. Init => Lifecycle!Init
  BY Zenon DEF Init, Lifecycle!Init
<1>2. IInv /\ [Next]_vars => [Lifecycle!Next]_(Lifecycle!vars)
  <2> SUFFICES ASSUME TypeOK, NoOrphanProcess, LifecycleInvariant, [Next]_vars
               PROVE  [Lifecycle!Next]_(Lifecycle!vars)
    BY Zenon DEF IInv
  <2>1. CASE SetupCgroups \/ Start \/ Stop \/ Restart \/ Destroy \/ UNCHANGED vars
    BY <2>1, SamePhase, Zenon DEF SetupCgroups, Start, Stop, Restart, Destroy, vars
  <2>2. CASE ReplaceManager \/ DropManager \/ CleanupTerm \/ CleanupKill \/ CleanupDrop
    <3>1. UNCHANGED state_ /\ \A q \in Pids : kproc'[q] = "alive" => kproc[q] = "alive"
      BY <2>2, DoomReap DEF ReplaceManager, DropManager, CleanupTerm, CleanupKill, CleanupDrop
    <3> QED BY <3>1, SamePhase
  <2>3. CASE PollExit \/ KillWait
    <3>1. UNCHANGED state_ /\ \A q \in Pids : kproc'[q] = "alive" => kproc[q] = "alive"
      <4>1. CASE PollExit BY <4>1, DoomReap DEF PollExit
      <4>2. CASE KillWait BY <4>2, DoomReap, Zenon DEF KillWait, ReapMain
      <4> QED BY <2>3, <4>1, <4>2
    <3> QED BY <3>1, SamePhase
  <2>4. CASE CreateProcess
    <3>1. \A q \in Pids : kproc[q] # "alive"
      BY <2>4, Zenon DEF CreateProcess, LifecycleInvariant, Quiescent
    <3>2. ASSUME NEW p \in Pids, kproc[p] = "none", kproc' = [kproc EXCEPT ![p] = "alive"],
                 UNCHANGED state_
          PROVE  Lifecycle!Launch(p)
      <4>1. {q \in Pids : kproc[q] = "alive"} = {}
        BY <3>1, Zenon
      <4>2. {q \in Pids : kproc[q] = "alive"}' = {p}
        BY <3>1, <3>2 DEF TypeOK
      <4>3. state_ \in Lifecycle!Launchable
        BY <2>4 DEF CreateProcess, LifecycleInvariant, StateMatchesStep, StartSteps,
                    StartableStates, Lifecycle!Launchable
      <4> QED BY <3>2, <4>2, <4>3 DEF Lifecycle!Launch
    <3>3. CASE StartFailed /\ UNCHANGED kproc
      BY <2>4, <3>1, <3>3, SamePhase, NextPhase, Zenon DEF CreateProcess, StartFailed,
         canTransitionTo, isStateTransitionValid, LifecycleInvariant, StateMatchesStep, StartSteps,
         StartableStates, Lifecycle!Successors
    <3> QED BY <2>4, <3>2, <3>3, Zenon DEF CreateProcess, Lifecycle!Next
  <2>5. CASE ProbeProcess
    <3>1. state_ \in StartableStates
      BY <2>5 DEF ProbeProcess, LifecycleInvariant, StateMatchesStep, StartSteps
    <3>2. CASE state_' = "STARTING"
      BY <2>5, <3>1, <3>2, NextPhase, Zenon DEF ProbeProcess, StartableStates,
         Lifecycle!Successors, Lifecycle!AtRest
    <3>3. CASE ~Signalable(main_pid_) /\ StartFailed
      <4>1. \A q \in Pids : kproc[q] # "alive"
        BY <3>3, Zenon DEF NoOrphanProcess, Signalable
      <4> QED BY <2>5, <3>1, <4>1, SamePhase, NextPhase, Zenon DEF ProbeProcess, StartFailed,
                 canTransitionTo, isStateTransitionValid, StartableStates, Lifecycle!Successors
    <3> QED BY <2>5, <3>2, <3>3 DEF ProbeProcess
  <2>6. CASE WaitFirst \/ WaitSecond
    <3>1. \A q \in Pids : kproc'[q] = "alive" <=> kproc[q] = "alive"
      BY <2>6, DoomReap DEF WaitFirst, WaitSecond, ReapMain
    <3>2. CASE UNCHANGED state_
      BY <3>1, <3>2, SamePhase
    <3>3. CASE AfterWait
      <4>1. \/ op = "stop" /\ state_ \in {"RUNNING", "PAUSED", "RESTARTING"}
            \/ op = "restart" /\ state_ \in {"RUNNING", "STOPPED"}
        BY <2>6, Zenon DEF WaitFirst, WaitSecond, LifecycleInvariant, ControlConsistent,
           StateMatchesStep, StartSteps, CleanupSteps, TypeOK, Ops
      <4> QED BY <3>1, <3>3, <4>1, NextPhase, Zenon DEF AfterWait, Lifecycle!Successors,
                 Lifecycle!AtRest
    <3> QED BY <2>6, <3>2, <3>3 DEF WaitFirst, WaitSecond
  <2>7. CASE EnterRunning \/ EnterStopped \/ EnterRemoved
    BY <2>7, NextPhase, Zenon DEF EnterRunning, EnterStopped, EnterRemoved, LifecycleInvariant,
       StateMatchesStep, Quiescent, Lifecycle!Successors, Lifecycle!AtRest
  <2>8. CASE Pause \/ Resume
    BY <2>8, NextPhase, Zenon DEF Pause, Resume, canTransitionTo, isStateTransitionValid,
       Lifecycle!Successors, Lifecycle!AtRest
  <2>9. CASE Release
    <3>1. \A q \in Pids : kproc[q] # "alive"
      BY <2>9, Zenon DEF Release, LifecycleInvariant, Quiescent
    <3>2. CASE UNCHANGED state_
      BY <2>9, <3>2, SamePhase, Zenon DEF Release
    <3>3. CASE op = "remove"
      <4>1. "REMOVING" \in Lifecycle!Successors(state_)
        BY <2>9, <3>3, Zenon DEF Release, LifecycleInvariant, StateMatchesStep, TypeOK, States,
           Lifecycle!Successors
      <4> QED BY <2>9, <3>1, <3>3, <4>1, NextPhase, Zenon DEF Release
    <3> QED BY <2>9, <3>2, <3>3, Zenon DEF Release
  <2>10. ASSUME NEW signal \in {SIGTERM, SIGKILL}, Kill(signal)
        PROVE  [Lifecycle!Next]_(Lifecycle!vars)
    <3>1. UNCHANGED state_ /\ \A q \in Pids : kproc'[q] = "alive" => kproc[q] = "alive"
      BY <2>10, DoomReap, Zenon DEF Kill
    <3> QED BY <3>1, SamePhase, Zenon
  <2>11. ASSUME NEW force \in BOOLEAN, Remove(force)
        PROVE  [Lifecycle!Next]_(Lifecycle!vars)
    <3>1. UNCHANGED state_ /\ \A q \in Pids : kproc'[q] = "alive" => kproc[q] = "alive"
      BY <2>11, Zenon DEF Remove
    <3> QED BY <3>1, SamePhase, Zenon
  <2>12. ASSUME NEW p \in Pids, ProcessExit(p)
        PROVE  [Lifecycle!Next]_(Lifecycle!vars)
    <3>1. UNCHANGED state_ /\ \A q \in Pids : kproc'[q] = "alive" => kproc[q] = "alive"
      BY <2>12 DEF ProcessExit
    <3> QED BY <3>1, SamePhase
  <2>13. ASSUME NEW p \in Pids, PidRecycled(p)
        PROVE  [Lifecycle!Next]_(Lifecycle!vars)
    <3>1. UNCHANGED state_ /\ \A q \in Pids : kproc'[q] = "alive" => kproc[q] = "alive"
      BY <2>13 DEF PidRecycled
    <3> QED BY <3>1, SamePhase
  <2>14. ASSUME NEW r \in Readers, StatsBegin(r)
        PROVE  [Lifecycle!Next]_(Lifecycle!vars)
    <3>1. UNCHANGED state_ /\ \A q \in Pids : kproc'[q] = "alive" => kproc[q] = "alive"
      BY <2>14, Zenon DEF StatsBegin
    <3> QED BY <3>1, SamePhase, Zenon
  <2>15. ASSUME NEW r \in Readers, StatsEnd(r)
        PROVE  [Lifecycle!Next]_(Lifecycle!vars)
    <3>1. UNCHANGED state_ /\ \A q \in Pids : kproc'[q] = "alive" => kproc[q] = "alive"
      BY <2>15, DoomReap DEF StatsEnd
    <3> QED BY <3>1, SamePhase
  <2> QED BY <2>1, <2>2, <2>3, <2>4, <2>5, <2>6, <2>7, <2>8, <2>9, <2>10, <2>11, <2>12, <2>13,
             <2>14, <2>15 DEF Next, HolderStep, Call, Kernel, Stats
<1> QED BY <1>1, <1>2, Invariance, PTL DEF Spec, ImplementsLifecycle, Lifecycle!Spec

===============================================================================
