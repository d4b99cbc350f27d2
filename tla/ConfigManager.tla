---------------------------- MODULE ConfigManager ----------------------------
(***************************************************************************)
(* ConfigManager (src/src/config/config_manager.cpp and the templates of   *)
(* its header): values, layers of values, and a listener that is told of   *)
(* changes.  Several threads use one manager; each set() and remove()      *)
(* holds values_mutex_ until its notification has been delivered, a load   *)
(* or a merge takes it anew for every key.                                 *)
(*                                                                         *)
(* A document is what a JSON text or another manager holds.  The layers    *)
(* are a std::map: a layer is named by the rank of its name.               *)
(***************************************************************************)
EXTENDS Naturals

CONSTANTS
    Callers, NoCaller,
    Keys, Values, None,
    Documents,      \* functions from Keys to Values or None
    MaxLayers       \* bound: layer names

ASSUME ConfigAssumption ==
    /\ NoCaller \notin Callers
    /\ None \notin Values
    /\ Documents \subseteq [Keys -> Values \cup {None}]
    /\ MaxLayers \in Nat

VARIABLES
    values_,        \* per key: its value, or None
    layers_,        \* per layer name: its values, or NoLayer
    change_notifications_enabled_,
    values_mutex_,  \* its owner
    mirror,         \* the values as the listener was told
    missed,         \* keys changed since the listener was last told of them
    at,             \* per thread: idle, write or notify
    loading,        \* per thread: the document it loads or merges
    remaining,      \* per thread: pairs of key and value it has still to set
    now,            \* per thread: the pair it notifies
    alone           \* per thread: it loads, and nobody else has written meanwhile

callerVars == <<at, loading, remaining, now>>
configVars == <<values_, layers_, change_notifications_enabled_, values_mutex_, mirror, missed,
                callerVars, alone>>

Empty == [k \in Keys |-> None]
NoDocument == [none |-> TRUE]
NoLayer == NoDocument
LayerNames == 1..MaxLayers

Pairs(doc) == {<<k, doc[k]>> : k \in {k \in Keys : doc[k] # None}}

ConfigInit ==
    /\ values_ = Empty
    /\ layers_ = [n \in LayerNames |-> NoLayer]
    /\ change_notifications_enabled_ = FALSE /\ mirror = Empty /\ missed = {}
    /\ values_mutex_ = NoCaller
    /\ at = [t \in Callers |-> "idle"]
    /\ loading = [t \in Callers |-> NoDocument]
    /\ remaining = [t \in Callers |-> {}]
    /\ now = [t \in Callers |-> <<>>]
    /\ alone = [t \in Callers |-> FALSE]

(* Thread t writes; the others are no longer alone. *)
Disturb(t) == alone' = [u \in Callers |-> alone[u] /\ u = t]

-----------------------------------------------------------------------------
(* set(), remove(), merge() and mergeFromJsonString(): some pairs to write *)
Begin(t, doc, pairs) ==
    /\ at[t] = "idle"
    /\ at' = [at EXCEPT ![t] = "write"]
    /\ loading' = [loading EXCEPT ![t] = doc]
    /\ remaining' = [remaining EXCEPT ![t] = pairs]
    /\ UNCHANGED <<change_notifications_enabled_, values_mutex_, mirror, now>>

set(t, k, v) ==
    /\ Begin(t, NoDocument, {<<k, v>>})
    /\ UNCHANGED <<values_, layers_, missed, alone>>

remove(t, k) == set(t, k, None)

mergeFromJsonString(t, doc) ==
    /\ Begin(t, doc, Pairs(doc))
    /\ UNCHANGED <<values_, layers_, missed, alone>>

(* Faulty variant: the mutex is released before the listener is told. *)
WriteUnlocks(t) ==
    /\ at[t] = "write" /\ values_mutex_ = NoCaller
    /\ \E pair \in remaining[t] :
          /\ remaining' = [remaining EXCEPT ![t] = @ \ {pair}]
          /\ values_' = [values_ EXCEPT ![pair[1]] = pair[2]]
          /\ now' = [now EXCEPT ![t] = pair]
          /\ at' = [at EXCEPT ![t] = "notify"]
          /\ UNCHANGED missed
    /\ Disturb(t)
    /\ UNCHANGED <<layers_, change_notifications_enabled_, values_mutex_, mirror, loading>>

(* One pair.  The listener is told, with the mutex held, if notifications    *)
(* are enabled; not of the removal of a key that is not there.               *)
Write(t) ==
    /\ at[t] = "write" /\ values_mutex_ = NoCaller
    /\ \E pair \in remaining[t] :
          /\ remaining' = [remaining EXCEPT ![t] = @ \ {pair}]
          /\ values_' = [values_ EXCEPT ![pair[1]] = pair[2]]
          /\ IF change_notifications_enabled_ /\ {pair[2], values_[pair[1]]} # {None}
             THEN /\ values_mutex_' = t
                  /\ now' = [now EXCEPT ![t] = pair]
                  /\ at' = [at EXCEPT ![t] = "notify"]
                  /\ UNCHANGED missed
             ELSE /\ missed' = IF pair[2] = values_[pair[1]] THEN missed ELSE missed \cup {pair[1]}
                  /\ UNCHANGED <<values_mutex_, now, at>>
    /\ Disturb(t)
    /\ UNCHANGED <<layers_, change_notifications_enabled_, mirror, loading>>

notifyChange(t) ==
    /\ at[t] = "notify"
    /\ mirror' = [mirror EXCEPT ![now[t][1]] = now[t][2]]
    /\ missed' = missed \ {now[t][1]}
    /\ values_mutex_' = IF values_mutex_ = t THEN NoCaller ELSE values_mutex_
    /\ now' = [now EXCEPT ![t] = <<>>]
    /\ at' = [at EXCEPT ![t] = "write"]
    /\ UNCHANGED <<values_, layers_, change_notifications_enabled_, loading, remaining, alone>>

ConfigReturn(t) ==
    /\ at[t] = "write" /\ remaining[t] = {}
    /\ at' = [at EXCEPT ![t] = "idle"]
    /\ loading' = [loading EXCEPT ![t] = NoDocument]
    /\ alone' = [alone EXCEPT ![t] = FALSE]
    /\ UNCHANGED <<values_, layers_, change_notifications_enabled_, values_mutex_, mirror,
                   missed, remaining, now>>

-----------------------------------------------------------------------------
(* clear() and loadFromJsonString() *)

Changed == {k \in Keys : values_[k] # None}

(* Nobody is told. *)
Clear ==
    /\ values_mutex_ = NoCaller
    /\ values_' = Empty
    /\ missed' = missed \cup Changed
    /\ layers_' = [n \in LayerNames |-> NoLayer]

clear(t) ==
    /\ at[t] = "idle" /\ Clear /\ Disturb(t)
    /\ UNCHANGED <<change_notifications_enabled_, values_mutex_, mirror, callerVars>>

(* Faulty variant: the keys the document does not have survive. *)
loadFromJsonStringMerges(t, doc) ==
    /\ Begin(t, doc, Pairs(doc))
    /\ alone' = [u \in Callers |-> u = t]
    /\ UNCHANGED <<values_, layers_, missed>>

(* clear(), and then the keys of the document, each under the mutex. *)
loadFromJsonString(t, doc) ==
    /\ Begin(t, doc, Pairs(doc))
    /\ Clear
    /\ alone' = [u \in Callers |-> u = t]

(* The text turns out to be malformed: what is not set yet never will be.    *)
ParseFails(t) ==
    /\ at[t] = "write" /\ loading[t] # NoDocument /\ remaining[t] # {}
    /\ remaining' = [remaining EXCEPT ![t] = {}]
    /\ alone' = [alone EXCEPT ![t] = FALSE]
    /\ UNCHANGED <<values_, layers_, change_notifications_enabled_, values_mutex_, mirror,
                   missed, at, loading, now>>

enableChangeNotifications(t, enabled) ==
    /\ at[t] = "idle"
    /\ change_notifications_enabled_' = enabled
    /\ UNCHANGED <<values_, layers_, values_mutex_, mirror, missed, callerVars, alone>>

-----------------------------------------------------------------------------
(* Layers.  These functions take no lock: the caller sees to it that nobody *)
(* else is using the manager.                                               *)

Quiet == \A u \in Callers : at[u] = "idle"

SetLayer(n, doc) ==
    /\ Quiet
    /\ layers_' = [layers_ EXCEPT ![n] = doc]
    /\ UNCHANGED <<values_, change_notifications_enabled_, values_mutex_, mirror, missed,
                   callerVars, alone>>

(* emplace(): a layer of that name stays as it is. *)
addLayer(n, doc) == layers_[n] = NoLayer /\ SetLayer(n, doc)

removeLayer(n) == layers_[n] # NoLayer /\ SetLayer(n, NoLayer)

(* The layers that have a value for key k. *)
Having(k) == {n \in LayerNames : layers_[n] # NoLayer /\ layers_[n][k] # None}

has(k) == values_[k] # None \/ Having(k) # {}

(* get(): the manager's own value, else that of the first layer that has one.*)
getEffectiveValue(k) ==
    IF values_[k] # None THEN values_[k]
    ELSE IF Having(k) = {} THEN None
    ELSE layers_[CHOOSE n \in Having(k) : \A m \in Having(k) : n <= m][k]

(* Faulty variant: the layers only. *)
getEffectiveConfigOfLayers ==
    [k \in Keys |->
        IF Having(k) = {} THEN None
        ELSE layers_[CHOOSE n \in Having(k) : \A m \in Having(k) : m <= n][k]]

(* getEffectiveConfig(): the last layer that has a value, else the manager's.*)
getEffectiveConfig ==
    [k \in Keys |->
        IF Having(k) = {} THEN values_[k]
        ELSE layers_[CHOOSE n \in Having(k) : \A m \in Having(k) : m <= n][k]]

-----------------------------------------------------------------------------
ConfigStep(t) == Write(t) \/ notifyChange(t) \/ ConfigReturn(t) \/ ParseFails(t)

ConfigCall(t) ==
    \/ \E k \in Keys : remove(t, k) \/ \E v \in Values : set(t, k, v)
    \/ \E doc \in Documents : mergeFromJsonString(t, doc) \/ loadFromJsonString(t, doc)
    \/ clear(t)
    \/ \E enabled \in BOOLEAN : enableChangeNotifications(t, enabled)

LayerCall == \E n \in LayerNames :
    removeLayer(n) \/ \E doc \in Documents : addLayer(n, doc)

ConfigNext == LayerCall \/ \E t \in Callers : ConfigCall(t) \/ ConfigStep(t)

ConfigSpec == ConfigInit /\ [][ConfigNext]_configVars

-----------------------------------------------------------------------------
(* Types.  A thread owns values_mutex_ exactly while it tells the listener.  *)
ConfigTypeOK ==
    /\ values_ \in [Keys -> Values \cup {None}]
    /\ \A n \in LayerNames : layers_[n] \in Documents \cup {NoLayer}
    /\ change_notifications_enabled_ \in BOOLEAN
    /\ mirror \in [Keys -> Values \cup {None}] /\ missed \subseteq Keys
    /\ \A t \in Callers :
          /\ at[t] \in {"idle", "write", "notify"}
          /\ remaining[t] \subseteq Keys \X (Values \cup {None})
          /\ loading[t] \in Documents \cup {NoDocument}
          /\ alone[t] \in BOOLEAN
          /\ values_mutex_ = t <=> at[t] = "notify"

(* What the listener of set() and remove() was told adds up to the values:   *)
(* however the writers interleave, it has the current value of every key,    *)
(* except for a key about which it is being told and for the keys changed    *)
(* behind its back, by clear(), a load or with the notifications off.        *)
MirrorFollows ==
    \A k \in Keys \ missed :
        \/ mirror[k] = values_[k]
        \/ \E t \in Callers : at[t] = "notify" /\ now[t][1] = k

(* loadFromJsonString() leaves exactly what the text holds, whatever the     *)
(* manager and its layers held before, if it parses and nobody else writes   *)
(* between its clear() and its last set().                                   *)
LoadedExactly ==
    \A t \in Callers : alone[t] /\ at[t] = "write" /\ remaining[t] = {} =>
        /\ values_ = loading[t]
        /\ \A n \in LayerNames : layers_[n] = NoLayer

(* getEffectiveConfig() has the keys that has() knows, and for each a value  *)
(* that get() returns too unless several of the manager and its layers have  *)
(* the key: get() prefers the manager and then the first layer,              *)
(* getEffectiveConfig() the last layer.                                      *)
EffectiveAgrees ==
    \A k \in Keys :
        /\ has(k) <=> getEffectiveConfig[k] # None
        /\ getEffectiveValue(k) # getEffectiveConfig[k] =>
              \E n \in Having(k) : values_[k] # None \/ Having(k) # {n}

=============================================================================
