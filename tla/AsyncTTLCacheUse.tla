-------------------------- MODULE AsyncTTLCacheUse --------------------------
(***************************************************************************)
(* AsyncTTLCache under any sequence of calls, with two histories that say  *)
(* what a reader of its docstring expects: what was stored last under each *)
(* key, and which keys were used more recently than which.                 *)
(***************************************************************************)
EXTENDS AsyncTTLCache

VARIABLES
    usedSince,  \* usedSince[k]: the keys stored or hit since k last was
    stored      \* stored[k]: the last value stored under k since the last
                \* clear and when, in a set that is empty if there is none

useVars == <<cacheVars, usedSince, stored>>

Used(key) ==
    usedSince' =
      [k \in Keys |-> IF k = key THEN {} ELSE usedSince[k] \cup {key}]

UseInit ==
    /\ CacheInit
    /\ usedSince = [k \in Keys |-> {}]
    /\ stored = [k \in Keys |-> {}]

GetCall(key) ==
    /\ Get(key)
    /\ IF Live(key) THEN Used(key) ELSE UNCHANGED usedSince
    /\ UNCHANGED stored

SetCall(key, value) ==
    /\ Set(key, value)
    /\ Used(key)
    /\ stored' = [stored EXCEPT ![key] = {[value |-> value, at |-> time]}]

ClearCall ==
    /\ Clear
    /\ stored' = [k \in Keys |-> {}]
    /\ UNCHANGED usedSince

UseNext ==
    \/ \E k \in Keys : GetCall(k)
    \/ \E k \in Keys, v \in Values : SetCall(k, v)
    \/ ClearCall
    \/ CacheTick /\ UNCHANGED <<usedSince, stored>>

UseSpec == UseInit /\ [][UseNext]_useVars

-----------------------------------------------------------------------------

\* get never returns anything but the last value stored under the key since
\* the last clear, and never one that is TTL old.
HitIsLastStored ==
    \A k \in Keys : Live(k) =>
      \E last \in stored[k] : /\ EntryOf(k).value = last.value
                              /\ time < last.at + TTL

\* The OrderedDict is ordered by last use: what popitem(last=False) drops is
\* what LRU must drop.
OrderIsRecency ==
    \A i, j \in DOMAIN entries :
      i < j <=> entries[j].key \in usedSince[entries[i].key]

\* Nothing unexpired is lost without need: a live entry disappears only in
\* clear, or when a full cache takes a new key and all other entries were used
\* more recently.
LosesOnlyLeastRecent ==
    [][\A k \in Keys :
         k \in CachedKeys /\ ~Expired(EntryOf(k)) /\ k \notin CachedKeys' =>
           \/ entries' = <<>>
           \/ /\ CachedKeys \ {k} \subseteq usedSince[k]
              /\ Len(entries) = MaxEntries
              /\ CachedKeys' \ CachedKeys # {}]_useVars
=============================================================================
