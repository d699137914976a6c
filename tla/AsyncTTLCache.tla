--------------------------- MODULE AsyncTTLCache ---------------------------
(***************************************************************************)
(* The cache of src/src/finance_mcp/infra/cache.py: an OrderedDict of      *)
(* entries, oldest use first, with a time to live and a size limit.  Each  *)
(* HTTP client of the server has one.                                      *)
(*                                                                         *)
(* No method suspends while it holds self._lock, so each is one step.      *)
(* Values are copied in and out (deepcopy), so they are plain values here. *)
(***************************************************************************)
EXTENDS Naturals, Sequences, SequencesExt

CONSTANTS
    Keys,        \* cache keys
    Values,      \* cached values
    None,        \* Python's None: what get returns for a miss
    TTL,         \* self._ttl_seconds, in ticks; 0 switches the cache off
    MaxEntries,  \* self._max_entries
    MaxTime      \* bound on the clock

ASSUME CacheAssumption == /\ TTL \in Nat
                          /\ MaxEntries \in Nat \ {0}
                          /\ MaxTime \in Nat

VARIABLES
    entries,     \* self._entries, the least recently used entry first
    time         \* time.monotonic()

cacheVars == <<entries, time>>

Entries == [key : Keys, expires_at : Nat, value : Values]

\* A key has one entry, as in every OrderedDict, and the limit is respected.
CacheTypeOK ==
    /\ entries \in Seq(Entries)
    /\ \A i, j \in DOMAIN entries : entries[i].key = entries[j].key => i = j
    /\ Len(entries) <= MaxEntries
    /\ time \in Nat

CacheInit ==
    /\ entries = <<>>
    /\ time = 0

CachedKeys == {e.key : e \in ToSet(entries)}

\* The entry of a cached key; keys are unique in an OrderedDict.
PositionOf(key) == CHOOSE i \in DOMAIN entries : entries[i].key = key
EntryOf(key) == entries[PositionOf(key)]

\* The other entries, in their order.
Without(key) ==
    IF key \in CachedKeys THEN RemoveAt(entries, PositionOf(key)) ELSE entries

\* A definition Name_variant just before Name is Name with a bug: the mutation
\* runs use it in place of Name, the specification never does.
Expired_late(e) == e.expires_at < time
Expired(e) == e.expires_at <= time

\* Does get find the key?
Live(key) == TTL # 0 /\ key \in CachedKeys /\ ~Expired(EntryOf(key))

\* What get returns.
Lookup(key) == IF Live(key) THEN EntryOf(key).value ELSE None

\* get: an expired entry is dropped, a live one becomes the newest.
Touched_inPlace(key) == entries
Touched(key) == Append(Without(key), EntryOf(key))

Get(key) ==
    /\ entries' = IF Live(key) THEN Touched(key)
                  ELSE IF TTL = 0 THEN entries ELSE Without(key)
    /\ UNCHANGED time

\* popitem(last=False) until the limit is respected.
Evicted_early(s) ==
    IF Len(s) >= MaxEntries
    THEN SubSeq(s, Len(s) - MaxEntries + 2, Len(s))
    ELSE s
Evicted(s) ==
    IF Len(s) > MaxEntries
    THEN SubSeq(s, Len(s) - MaxEntries + 1, Len(s))
    ELSE s

\* The entries after the new value is stored as the newest.
Stored(key, value) ==
    Append(Without(key),
           [key |-> key, expires_at |-> time + TTL, value |-> value])

Set(key, value) ==
    /\ entries' = IF TTL = 0 THEN entries ELSE Evicted(Stored(key, value))
    /\ UNCHANGED time

Clear ==
    /\ entries' = <<>>
    /\ UNCHANGED time

CacheTick ==
    /\ time < MaxTime
    /\ time' = time + 1
    /\ UNCHANGED entries
=============================================================================
