------------------ MODULE PrivateKeyJWTClientAuthenticator ------------------
(***************************************************************************)
(* The private_key_jwt path of src/src/finance_mcp/oauth_client_auth.py:   *)
(* token and revocation requests that carry a client assertion, and the    *)
(* process-local cache of the assertion identifiers (jti) already used.    *)
(*                                                                         *)
(* authenticate_request suspends while the client's JWKS is fetched; from  *)
(* there to the answer it does not, but it reads the wall clock twice, in  *)
(* _validate_numeric_dates and again in _record_jti.  The clock may move   *)
(* between the two, and so may other requests here: _record_jti alone is   *)
(* serialised, by self._lock.                                              *)
(***************************************************************************)
EXTENDS Integers, Sequences, FiniteSets

CONSTANTS
    Requests,     \* requests being authenticated
    Clients,      \* client ids
    Jtis,         \* values of the jti claim
    Assertions,   \* the client assertions that may be presented
    Leeway,       \* _JWT_LEEWAY_SECONDS
    MaxLifetime,  \* _MAX_ASSERTION_LIFETIME_SECONDS
    MaxEntries,   \* _MAX_REPLAY_CACHE_ENTRIES
    MaxTime,      \* bound on the clock
    MaxAccepted,  \* bound on the assertions accepted
    MaxRestarts   \* bound on the restarts

\* The claims the code reads; the exp and iat claims are whole ticks.
Keys == Clients \X Jtis

ASSUME AssertionsAssumption ==
    \A a \in Assertions : /\ a.client \in Clients
                          /\ a.jti \in Jtis
                          /\ a.iat \in Int
                          /\ a.exp \in Int
ASSUME WindowAssumption == Leeway \in Nat /\ MaxLifetime \in Nat
ASSUME EntriesAssumption == MaxEntries \in Nat \ {0}

VARIABLES
    used_jtis,   \* self._used_jtis: expiry of each (client_id, jti)
    request,     \* what each request is doing
    now,         \* time.time()
    life,        \* the number of restarts so far
    accepted     \* history: the assertions accepted, in order

vars == <<used_jtis, request, now, life, accepted>>

Idle == [step |-> "idle"]

Steps ==
    {Idle}
    \cup [step : {"load_jwks"}, assertion : Assertions]
    \cup [step : {"record_jti"}, assertion : Assertions, checked_at : Nat]

Acceptances ==
    [key : Keys, exp : Int, checked_at : Nat, recorded_at : Nat, life : Nat]

TypeOK ==
    /\ DOMAIN used_jtis \subseteq Keys
    /\ \A k \in DOMAIN used_jtis : used_jtis[k] \in Int
    /\ request \in [Requests -> Steps]
    /\ now \in Nat
    /\ life \in Nat
    /\ accepted \in Seq(Acceptances)

\* What identifies an assertion in the cache.  A definition Name_variant
\* just before Name is Name with a bug: the mutation runs use it in place of
\* Name, the specification never does.
Key_jtiOnly(a) == <<a.jti>>
Key(a) == <<a.client, a.jti>>

NoJtis == [k \in {} |-> 0]

Init ==
    /\ used_jtis = NoJtis
    /\ request = [r \in Requests |-> Idle]
    /\ now = 0
    /\ life = 0
    /\ accepted = <<>>

Tick ==
    /\ now < MaxTime
    /\ now' = now + 1
    /\ UNCHANGED <<used_jtis, request, life, accepted>>

\* authenticate_request, up to the fetch of the client's JWKS.
Receive(r, a) ==
    /\ request[r] = Idle
    /\ request' = [request EXCEPT ![r] = [step |-> "load_jwks", assertion |-> a]]
    /\ UNCHANGED <<used_jtis, now, life, accepted>>

\* _validate_numeric_dates at time t.
DatesValid_anyLifetime(a, t) ==
    /\ a.iat <= t + Leeway
    /\ a.exp > t - Leeway
    /\ a.exp > a.iat
DatesValid(a, t) ==
    /\ a.iat <= t + Leeway
    /\ a.exp > t - Leeway
    /\ a.exp > a.iat
    /\ a.exp - a.iat <= MaxLifetime
    /\ a.exp <= t + MaxLifetime + Leeway

\* The requests between the two clock reads; MaxAccepted bounds them too.
Recording == {r \in Requests : request[r].step = "record_jti"}

\* _verify_assertion up to the dates: the JWKS arrived and the signature and
\* the other claims are right.
Verify(r) ==
    /\ request[r].step = "load_jwks"
    /\ Len(accepted) + Cardinality(Recording) < MaxAccepted
    /\ DatesValid(request[r].assertion, now)
    /\ request' = [request EXCEPT ![r] =
                     [step |-> "record_jti", assertion |-> request[r].assertion,
                      checked_at |-> now]]
    /\ UNCHANGED <<used_jtis, now, life, accepted>>

\* The fetch, the signature, a claim or a date is wrong, or the request is
\* cancelled while it waits: AuthenticationError.
Reject(r) ==
    /\ request[r].step = "load_jwks"
    /\ request' = [request EXCEPT ![r] = Idle]
    /\ UNCHANGED <<used_jtis, now, life, accepted>>

\* The entries that _record_jti keeps at time t.
Unexpired_early(t) == {k \in DOMAIN used_jtis : used_jtis[k] > t + Leeway}
Unexpired(t) == {k \in DOMAIN used_jtis : used_jtis[k] > t}

HasRoom_overfull(keys) == Cardinality(keys) <= MaxEntries
HasRoom(keys) == Cardinality(keys) < MaxEntries

\* _record_jti: prune, refuse a replay, refuse when the cache is full (it
\* never evicts an unexpired entry), else remember the assertion.  The prune
\* stays when the assertion is refused.
RecordJti(r) ==
    /\ request[r].step = "record_jti"
    /\ LET a     == request[r].assertion
           kept  == Unexpired(now)
           fresh == Key(a) \notin kept /\ HasRoom(kept)
       IN  \/ /\ fresh
              /\ used_jtis' = [k \in kept \cup {Key(a)} |->
                                 IF k = Key(a) THEN a.exp + Leeway
                                               ELSE used_jtis[k]]
              /\ accepted' = Append(accepted,
                               [key |-> Key(a), exp |-> a.exp,
                                checked_at |-> request[r].checked_at,
                                recorded_at |-> now, life |-> life])
           \/ /\ ~fresh
              /\ used_jtis' = [k \in kept |-> used_jtis[k]]
              /\ UNCHANGED accepted
    /\ request' = [request EXCEPT ![r] = Idle]
    /\ UNCHANGED <<now, life>>

\* The process restarts; the cache is not persisted.
Restart ==
    /\ life < MaxRestarts
    /\ life' = life + 1
    /\ used_jtis' = NoJtis
    /\ request' = [r \in Requests |-> Idle]
    /\ UNCHANGED <<now, accepted>>

Next ==
    \/ Tick
    \/ \E r \in Requests :
         \/ \E a \in Assertions : Receive(r, a)
         \/ Verify(r)
         \/ Reject(r)
         \/ RecordJti(r)
    \/ Restart

Spec == Init /\ [][Next]_vars

-----------------------------------------------------------------------------
(* Properties                                                              *)

\* An assertion identifier is accepted once per life of the process as long
\* as the assertion it came with is valid: a second acceptance of the same
\* (client, jti) is recorded after the first assertion has expired, leeway
\* included.  With one assertion presented twice this leaves the instant in
\* which the clock passes exp + leeway between the two clock reads of the
\* second presentation, and nothing else.
AcceptedOnce ==
    \A i, j \in 1..Len(accepted) :
      /\ i < j
      /\ accepted[i].key = accepted[j].key
      /\ accepted[i].life = accepted[j].life
      => accepted[i].exp + Leeway <= accepted[j].recorded_at

\* The cache fails closed: what was accepted in this life of the process and
\* could still be replayed is in the cache, however full it is.
ReplayableIsRemembered ==
    \A i \in 1..Len(accepted) :
      accepted[i].life = life /\ accepted[i].exp + Leeway > now =>
        /\ accepted[i].key \in DOMAIN used_jtis
        /\ used_jtis[accepted[i].key] >= accepted[i].exp + Leeway

\* The cache is bounded, and a full cache cannot stay full: each entry is
\* due to leave it within the longest lifetime and two leeways from now.
CacheDrains ==
    /\ Cardinality(DOMAIN used_jtis) <= MaxEntries
    /\ \A k \in DOMAIN used_jtis :
         used_jtis[k] <= now + MaxLifetime + 2 * Leeway

\* What makes the three inductive: a request between its two clock reads
\* carries an assertion whose window was checked at checked_at, and no
\* acceptance comes from a life the process has not had yet.
RecordingInv ==
    \A r \in Requests : request[r].step = "record_jti" =>
      /\ request[r].checked_at <= now
      /\ DatesValid(request[r].assertion, request[r].checked_at)

HistoryInv == \A i \in 1..Len(accepted) : accepted[i].life <= life

CacheInv == IsFiniteSet(DOMAIN used_jtis) /\ CacheDrains

IndInv ==
    /\ TypeOK
    /\ RecordingInv
    /\ HistoryInv
    /\ CacheInv
    /\ ReplayableIsRemembered
    /\ AcceptedOnce
=============================================================================
