-------------- MODULE PrivateKeyJWTClientAuthenticator_proofs --------------
(***************************************************************************)
(* Theorems about PrivateKeyJWTClientAuthenticator, for any requests,      *)
(* clients, assertions, leeway, lifetime, cache size and bounds.           *)
(***************************************************************************)
EXTENDS PrivateKeyJWTClientAuthenticator, FiniteSetTheorems, TLAPS

\* The three outcomes of _record_jti on the cache, one at a time: the cache
\* after a refusal, and after an acceptance.
Refused(r) ==
    /\ used_jtis' = [k \in Unexpired(now) |-> used_jtis[k]]
    /\ UNCHANGED accepted
Accepted(r) ==
    LET a == request[r].assertion
    IN  /\ Key(a) \notin Unexpired(now)
        /\ HasRoom(Unexpired(now))
        /\ used_jtis' = [k \in Unexpired(now) \cup {Key(a)} |->
                           IF k = Key(a) THEN a.exp + Leeway ELSE used_jtis[k]]
        /\ accepted' = Append(accepted,
                         [key |-> Key(a), exp |-> a.exp,
                          checked_at |-> request[r].checked_at,
                          recorded_at |-> now, life |-> life])

\* _record_jti ends in one of the two outcomes.
LEMMA RecordJtiOutcomes ==
    ASSUME NEW r \in Requests, RecordJti(r)
    PROVE  Refused(r) \/ Accepted(r)
  BY DEF RecordJti, Refused, Accepted

\* The request between the two clock reads holds an assertion.
LEMMA RecordingTypes ==
    ASSUME IndInv, NEW r \in Requests, request[r].step = "record_jti"
    PROVE  /\ request[r].assertion \in Assertions
           /\ Key(request[r].assertion) \in Keys
           /\ request[r].assertion.exp \in Int
           /\ request[r].assertion.iat \in Int
           /\ request[r].checked_at \in Nat
           /\ request[r].checked_at <= now
           /\ DatesValid(request[r].assertion, request[r].checked_at)
  <1>1. request[r] \in [step : {"record_jti"}, assertion : Assertions,
                        checked_at : Nat]
    BY DEF IndInv, TypeOK, Steps, Idle
  <1> QED
    BY <1>1, AssertionsAssumption DEF IndInv, RecordingInv, Key, Keys

\* The entries of the history of acceptances have their types.
LEMMA HistoryTypes ==
    ASSUME TypeOK, NEW i \in 1..Len(accepted)
    PROVE  accepted[i].exp \in Int /\ accepted[i].life \in Nat
  <1>1. accepted[i] \in Acceptances
    BY DEF TypeOK
  <1> QED
    BY <1>1 DEF Acceptances

\* Pruning keeps the cache finite, within its size and due to drain.
LEMMA Prune ==
    ASSUME IndInv
    PROVE  /\ Unexpired(now) \subseteq DOMAIN used_jtis
           /\ IsFiniteSet(Unexpired(now))
           /\ Cardinality(Unexpired(now)) <= MaxEntries
           /\ Cardinality(Unexpired(now)) \in Nat
  <1>1. Unexpired(now) \subseteq DOMAIN used_jtis
    BY DEF Unexpired
  <1>2. /\ IsFiniteSet(DOMAIN used_jtis)
        /\ Cardinality(DOMAIN used_jtis) <= MaxEntries
    BY DEF IndInv, CacheInv, CacheDrains
  <1>3. /\ IsFiniteSet(Unexpired(now))
        /\ Cardinality(Unexpired(now)) <= Cardinality(DOMAIN used_jtis)
    BY <1>1, <1>2, FS_Subset
  <1>4. /\ Cardinality(DOMAIN used_jtis) \in Nat
        /\ Cardinality(Unexpired(now)) \in Nat
    BY <1>2, <1>3, FS_CardinalityType
  <1> QED
    BY <1>1, <1>2, <1>3, <1>4, EntriesAssumption

\* A refusal, whose prune stays, keeps what the invariant says of the cache.
LEMMA RefusedInductive ==
    ASSUME IndInv, NEW r \in Requests, Refused(r), UNCHANGED <<now, life>>
    PROVE  /\ DOMAIN used_jtis' \subseteq Keys
           /\ \A k \in DOMAIN used_jtis' : used_jtis'[k] \in Int
           /\ CacheInv'
           /\ ReplayableIsRemembered'
           /\ AcceptedOnce'
  <1>1. /\ DOMAIN used_jtis' = Unexpired(now)
        /\ \A k \in Unexpired(now) : used_jtis'[k] = used_jtis[k]
    BY DEF Refused
  <1>2. CacheInv'
    BY <1>1, Prune DEF IndInv, CacheInv, CacheDrains
  <1>3. ReplayableIsRemembered'
    <2> SUFFICES ASSUME NEW i \in 1..Len(accepted),
                        accepted[i].life = life,
                        accepted[i].exp + Leeway > now
                 PROVE  /\ accepted[i].key \in Unexpired(now)
                        /\ used_jtis[accepted[i].key] >= accepted[i].exp + Leeway
      BY <1>1 DEF ReplayableIsRemembered, Refused
    <2>1. /\ accepted[i].key \in DOMAIN used_jtis
          /\ used_jtis[accepted[i].key] >= accepted[i].exp + Leeway
      BY DEF IndInv, ReplayableIsRemembered
    <2>2. /\ used_jtis[accepted[i].key] \in Int
          /\ accepted[i].exp \in Int /\ now \in Int /\ Leeway \in Int
      BY <2>1, HistoryTypes, WindowAssumption DEF IndInv, TypeOK
    <2> QED
      BY <2>1, <2>2 DEF Unexpired
  <1>4. AcceptedOnce'
    BY DEF IndInv, AcceptedOnce, Refused
  <1> QED
    BY <1>1, <1>2, <1>3, <1>4, Prune DEF IndInv, TypeOK

\* An acceptance keeps it too: the new entry outlives its assertion, fits in
\* the cache, and drains in time because its dates were checked.
LEMMA AcceptedInductive ==
    ASSUME IndInv, NEW r \in Requests, request[r].step = "record_jti",
           Accepted(r), UNCHANGED <<now, life>>
    PROVE  /\ DOMAIN used_jtis' \subseteq Keys
           /\ \A k \in DOMAIN used_jtis' : used_jtis'[k] \in Int
           /\ accepted' \in Seq(Acceptances)
           /\ HistoryInv'
           /\ CacheInv'
           /\ ReplayableIsRemembered'
           /\ AcceptedOnce'
  <1> DEFINE a   == request[r].assertion
             key == Key(a)
             new == [key |-> key, exp |-> a.exp,
                     checked_at |-> request[r].checked_at,
                     recorded_at |-> now, life |-> life]
             n   == Len(accepted) + 1
  <1>1. /\ DOMAIN used_jtis' = Unexpired(now) \cup {key}
        /\ used_jtis'[key] = a.exp + Leeway
        /\ \A k \in Unexpired(now) : used_jtis'[k] = used_jtis[k]
        /\ key \notin Unexpired(now)
        /\ Cardinality(Unexpired(now)) < MaxEntries
        /\ accepted' = Append(accepted, new)
    BY DEF Accepted, HasRoom
  <1>2. /\ now \in Nat /\ life \in Nat /\ Leeway \in Nat /\ MaxLifetime \in Nat
        /\ a.exp \in Int /\ key \in Keys /\ request[r].checked_at \in Nat
        /\ accepted \in Seq(Acceptances)
    BY RecordingTypes, WindowAssumption DEF IndInv, TypeOK
  <1>3. new \in Acceptances
    BY <1>2 DEF Acceptances
  <1>4. /\ new.key = key /\ new.exp = a.exp /\ new.recorded_at = now
        /\ new.life = life
    OBVIOUS
  <1>5. a.exp + Leeway <= now + MaxLifetime + 2 * Leeway
    <2>1. /\ a.exp <= request[r].checked_at + MaxLifetime + Leeway
          /\ request[r].checked_at <= now
      BY RecordingTypes DEF DatesValid
    <2> HIDE DEF a
    <2> QED
      BY <1>2, <2>1
  <1> HIDE DEF a, key, new
  <1>6. /\ accepted' \in Seq(Acceptances)
        /\ Len(accepted') = n /\ Len(accepted) \in Nat
        /\ \A i \in 1..Len(accepted) : accepted'[i] = accepted[i]
        /\ accepted'[n] = new
    BY <1>1, <1>2, <1>3
  <1>7. HistoryInv'
    BY <1>2, <1>4, <1>6 DEF IndInv, HistoryInv
  <1>8. CacheInv'
    <2>1. /\ IsFiniteSet(Unexpired(now) \cup {key})
          /\ Cardinality(Unexpired(now) \cup {key})
             = Cardinality(Unexpired(now)) + 1
      BY <1>1, Prune, FS_AddElement
    <2>2. Cardinality(DOMAIN used_jtis') <= MaxEntries
      BY <1>1, <2>1, Prune, EntriesAssumption
    <2>3. \A k \in DOMAIN used_jtis' :
            used_jtis'[k] <= now + MaxLifetime + 2 * Leeway
      BY <1>1, <1>5, Prune DEF IndInv, CacheInv, CacheDrains
    <2> QED
      BY <1>1, <2>1, <2>2, <2>3 DEF CacheInv, CacheDrains
  <1>9. \A i \in 1..Len(accepted) :
          /\ accepted[i].life = life
          /\ accepted[i].exp + Leeway > now
          => /\ accepted[i].key \in Unexpired(now)
             /\ used_jtis[accepted[i].key] >= accepted[i].exp + Leeway
    <2> SUFFICES ASSUME NEW i \in 1..Len(accepted),
                        accepted[i].life = life,
                        accepted[i].exp + Leeway > now
                 PROVE  /\ accepted[i].key \in Unexpired(now)
                        /\ used_jtis[accepted[i].key] >= accepted[i].exp + Leeway
      OBVIOUS
    <2>1. /\ accepted[i].key \in DOMAIN used_jtis
          /\ used_jtis[accepted[i].key] >= accepted[i].exp + Leeway
      BY DEF IndInv, ReplayableIsRemembered
    <2>2. used_jtis[accepted[i].key] \in Int /\ accepted[i].exp \in Int
      BY <2>1, HistoryTypes DEF IndInv, TypeOK
    <2> QED
      BY <1>2, <2>1, <2>2 DEF Unexpired
  <1>10. ReplayableIsRemembered'
    <2> SUFFICES ASSUME NEW i \in 1..n,
                        accepted'[i].life = life,
                        accepted'[i].exp + Leeway > now
                 PROVE  /\ accepted'[i].key \in DOMAIN used_jtis'
                        /\ used_jtis'[accepted'[i].key]
                           >= accepted'[i].exp + Leeway
      BY <1>6 DEF ReplayableIsRemembered
    <2>1. CASE i = n
      BY <1>1, <1>2, <1>4, <1>6, <2>1
    <2>2. CASE i # n
      <3>1. i \in 1..Len(accepted)
        BY <1>6, <2>2
      <3> QED
        BY <1>1, <1>6, <1>9, <3>1
    <2> QED
      BY <2>1, <2>2
  <1>11. AcceptedOnce'
    <2> SUFFICES ASSUME NEW i \in 1..n, NEW j \in 1..n, i < j,
                        accepted'[i].key = accepted'[j].key,
                        accepted'[i].life = accepted'[j].life
                 PROVE  accepted'[i].exp + Leeway <= accepted'[j].recorded_at
      BY <1>6 DEF AcceptedOnce
    <2>1. i \in 1..Len(accepted) /\ accepted'[i] = accepted[i]
      BY <1>6
    <2>2. CASE j = n
      <3>1. accepted[i].key = key /\ accepted[i].life = life
        BY <1>4, <1>6, <2>1, <2>2
      <3>2. ~(accepted[i].exp + Leeway > now)
        BY <1>1, <1>9, <2>1, <3>1
      <3>3. accepted[i].exp \in Int
        BY <2>1, HistoryTypes DEF IndInv
      <3> QED
        BY <1>2, <1>4, <1>6, <2>1, <2>2, <3>2, <3>3
    <2>3. CASE j # n
      BY <1>6, <2>1, <2>3 DEF IndInv, AcceptedOnce
    <2> QED
      BY <2>2, <2>3
  <1> QED
    BY <1>1, <1>2, <1>6, <1>7, <1>8, <1>10, <1>11, Prune DEF IndInv, TypeOK

\* An empty cache with no request and no history satisfies the invariant.
LEMMA IndInvInit == Init => IndInv
  <1> SUFFICES ASSUME Init PROVE IndInv
    OBVIOUS
  <1>1. DOMAIN used_jtis = {} /\ accepted \in Seq(Acceptances) /\ Len(accepted) = 0
    BY DEF Init, NoJtis
  <1>2. TypeOK
    BY <1>1 DEF Init, TypeOK, Steps
  <1>3. RecordingInv
    BY DEF Init, RecordingInv, Idle
  <1>4. CacheInv
    BY <1>1, FS_EmptySet, EntriesAssumption DEF CacheInv, CacheDrains
  <1> QED
    BY <1>1, <1>2, <1>3, <1>4
       DEF IndInv, HistoryInv, ReplayableIsRemembered, AcceptedOnce

\* Every step of authenticate_request, and a restart, keeps the invariant.
LEMMA IndInvNext == IndInv /\ [Next]_vars => IndInv'
  <1> SUFFICES ASSUME IndInv, [Next]_vars PROVE IndInv'
    OBVIOUS
  <1>1. now \in Nat /\ life \in Nat /\ Leeway \in Nat /\ MaxLifetime \in Nat
    BY WindowAssumption DEF IndInv, TypeOK
  <1>2. CASE Tick
    <2>1. TypeOK' /\ HistoryInv'
      BY <1>2 DEF IndInv, TypeOK, HistoryInv, Tick
    <2>2. RecordingInv'
      <3> SUFFICES ASSUME NEW r \in Requests, request[r].step = "record_jti"
                   PROVE  request[r].checked_at <= now + 1
        BY <1>2 DEF Tick, RecordingInv, IndInv
      <3> QED
        BY <1>1, RecordingTypes
    <2>3. CacheInv'
      BY <1>1, <1>2 DEF IndInv, TypeOK, CacheInv, CacheDrains, Tick
    <2>4. ReplayableIsRemembered' /\ AcceptedOnce'
      <3>1. \A i \in 1..Len(accepted) : accepted[i].exp \in Int
        BY HistoryTypes DEF IndInv
      <3> QED
        BY <1>1, <1>2, <3>1 DEF IndInv, ReplayableIsRemembered, AcceptedOnce, Tick
    <2> QED
      BY <2>1, <2>2, <2>3, <2>4 DEF IndInv
  <1>3. ASSUME UNCHANGED <<used_jtis, now, life, accepted>>,
               request' \in [Requests -> Steps],
               RecordingInv'
        PROVE  IndInv'
    BY <1>3 DEF IndInv, TypeOK, HistoryInv, CacheInv, CacheDrains,
                ReplayableIsRemembered, AcceptedOnce
  <1>4. ASSUME NEW r \in Requests, NEW a \in Assertions, Receive(r, a)
        PROVE  IndInv'
    <2> DEFINE o == [step |-> "load_jwks", assertion |-> a]
    <2>1. o \in Steps /\ o.step # "record_jti"
      BY DEF Steps
    <2>2. request' = [request EXCEPT ![r] = o]
      BY <1>4 DEF Receive
    <2> HIDE DEF o
    <2>3. RecordingInv'
      BY <1>4, <2>1, <2>2 DEF IndInv, TypeOK, RecordingInv, Receive
    <2> QED
      BY <1>3, <1>4, <2>1, <2>2, <2>3 DEF IndInv, TypeOK, Receive
  <1>5. ASSUME NEW r \in Requests, Verify(r) PROVE IndInv'
    <2> DEFINE o == [step |-> "record_jti", assertion |-> request[r].assertion,
                     checked_at |-> now]
    <2>1. request[r].assertion \in Assertions
      BY <1>5 DEF IndInv, TypeOK, Steps, Idle, Verify
    <2>2. o \in Steps
      BY <1>1, <2>1 DEF Steps
    <2>3. /\ o.checked_at = now /\ o.assertion = request[r].assertion
          /\ DatesValid(request[r].assertion, now)
          /\ request' = [request EXCEPT ![r] = o]
          /\ UNCHANGED <<used_jtis, now, life, accepted>>
      BY <1>5 DEF Verify
    <2> HIDE DEF o
    <2>4. RecordingInv'
      <3> SUFFICES ASSUME NEW q \in Requests, request'[q].step = "record_jti"
                   PROVE  /\ request'[q].checked_at <= now
                          /\ DatesValid(request'[q].assertion,
                                        request'[q].checked_at)
        BY <2>3 DEF RecordingInv, DatesValid
      <3>1. CASE q = r
        <4>1. request'[q] = o
          BY <2>3, <3>1 DEF IndInv, TypeOK
        <4> QED
          BY <1>1, <2>3, <4>1
      <3>2. CASE q # r
        <4>1. request'[q] = request[q]
          BY <2>3, <3>2 DEF IndInv, TypeOK
        <4> QED
          BY <4>1 DEF IndInv, RecordingInv
      <3> QED
        BY <3>1, <3>2
    <2> QED
      BY <1>3, <2>2, <2>3, <2>4 DEF IndInv, TypeOK
  <1>6. ASSUME NEW r \in Requests, request' = [request EXCEPT ![r] = Idle],
               UNCHANGED now
        PROVE  request' \in [Requests -> Steps] /\ RecordingInv'
    BY <1>6 DEF IndInv, TypeOK, Steps, RecordingInv, Idle
  <1>7. ASSUME NEW r \in Requests, Reject(r) PROVE IndInv'
    BY <1>3, <1>6, <1>7 DEF Reject
  <1>8. ASSUME NEW r \in Requests, RecordJti(r) PROVE IndInv'
    <2>1. /\ request[r].step = "record_jti"
          /\ UNCHANGED <<now, life>>
          /\ request' \in [Requests -> Steps] /\ RecordingInv'
      BY <1>6, <1>8 DEF RecordJti
    <2>2. CASE Refused(r)
      BY <2>1, <2>2, RefusedInductive DEF IndInv, TypeOK, HistoryInv, Refused
    <2>3. CASE Accepted(r)
      BY <2>1, <2>3, AcceptedInductive DEF IndInv, TypeOK
    <2> QED
      BY <1>8, <2>2, <2>3, RecordJtiOutcomes
  <1>9. CASE Restart
    <2>1. /\ DOMAIN used_jtis' = {} /\ UNCHANGED <<now, accepted>>
          /\ life' = life + 1
          /\ request' = [r \in Requests |-> Idle]
      BY <1>9 DEF Restart, NoJtis
    <2>2. /\ \A i \in 1..Len(accepted) : accepted[i].life <= life
          /\ \A i \in 1..Len(accepted) : accepted[i].life \in Nat
      BY HistoryTypes DEF IndInv, HistoryInv
    <2>3. TypeOK'
      BY <1>1, <2>1 DEF IndInv, TypeOK, Steps
    <2>4. RecordingInv'
      BY <2>1 DEF RecordingInv, Idle
    <2>5. HistoryInv' /\ ReplayableIsRemembered' /\ AcceptedOnce'
      BY <1>1, <2>1, <2>2
         DEF IndInv, HistoryInv, ReplayableIsRemembered, AcceptedOnce
    <2>6. CacheInv'
      BY <2>1, FS_EmptySet, EntriesAssumption DEF CacheInv, CacheDrains
    <2> QED
      BY <2>3, <2>4, <2>5, <2>6 DEF IndInv
  <1>10. CASE UNCHANGED vars
    BY <1>3, <1>10 DEF vars, IndInv, TypeOK, RecordingInv
  <1> QED
    BY <1>2, <1>4, <1>5, <1>7, <1>8, <1>9, <1>10 DEF Next

\* The inductive invariant holds of the cache and the requests for ever.
THEOREM Invariance == Spec => []IndInv
  BY IndInvInit, IndInvNext, PTL DEF Spec

\* Requests, cache and history are well formed in every reachable state.
THEOREM TypeCorrect == Spec => []TypeOK
  <1>1. IndInv => TypeOK
    BY DEF IndInv
  <1> QED
    BY <1>1, Invariance, PTL

\* No identifier is accepted twice in one life of the process before the
\* first assertion that carried it has expired.
THEOREM NoReplay == Spec => []AcceptedOnce
  <1>1. IndInv => AcceptedOnce
    BY DEF IndInv
  <1> QED
    BY <1>1, Invariance, PTL

\* The cache never forgets an assertion that could still be replayed.
THEOREM CacheFailsClosed == Spec => []ReplayableIsRemembered
  <1>1. IndInv => ReplayableIsRemembered
    BY DEF IndInv
  <1> QED
    BY <1>1, Invariance, PTL

\* The cache stays within its size and every entry leaves it in bounded time.
THEOREM CacheIsBounded == Spec => []CacheDrains
  <1>1. IndInv => CacheDrains
    BY DEF IndInv, CacheInv
  <1> QED
    BY <1>1, Invariance, PTL
=============================================================================
