------------------------ MODULE JsonHttpClient_proofs ------------------------
(***************************************************************************)
(* Theorems about JsonHttpClient, for any tasks, keys, payloads, limits    *)
(* and number of attempts.                                                 *)
(***************************************************************************)
EXTENDS JsonHttpClient, ClientParts_proofs

Requests == [key : Keys, use_cache : BOOLEAN]

\* The inductive invariant: the cache, the calls and the semaphore.
IInv == CacheTypeOK /\ CallsOK(Outcomes, Requests) /\ CallInv

\* It holds at the start.
LEMMA InitIInv == Init => IInv
  <1> SUFFICES ASSUME Init PROVE IInv
    OBVIOUS
  <1>1. CacheTypeOK
    BY CacheAssumption DEF Init, CacheInit, CacheTypeOK
  <1>2. CallsOK(Outcomes, Requests) /\ CallInv
    BY Beginning DEF Init, Outcomes
  <1> QED
    BY <1>1, <1>2 DEF IInv

\* Every step keeps the invariant.
LEMMA NextIInv == IInv /\ [Next]_vars => IInv'
  <1> SUFFICES ASSUME IInv, [Next]_vars PROVE IInv'
    OBVIOUS
  <1>1. /\ CacheTypeOK
        /\ CallsOK(Outcomes, Requests)
        /\ CallInv
    BY DEF IInv
  <1>2. /\ "hit" \in Outcomes /\ "payload" \in Outcomes /\ "error" \in Outcomes
        /\ "cancelled" \in Outcomes
    BY DEF Outcomes
  <1>3. CASE Tick
    BY <1>1, <1>3, TickKeeps, Stuttering DEF Tick, IInv
  <1>4. ASSUME NEW t \in Tasks, NEW key \in Keys, CacheHit(t, key)
        PROVE  IInv'
    <2>1. CacheTypeOK'
      BY <1>1, <1>4, GetKeeps DEF CacheHit
    <2>2. CallsOK(Outcomes, Requests)' /\ CallInv'
      BY <1>1, <1>2, <1>4, EndingOver DEF CacheHit
    <2> QED
      BY <2>1, <2>2 DEF IInv
  <1>5. ASSUME NEW t \in Tasks, NEW key \in Keys, NEW use_cache \in BOOLEAN,
               CacheMiss(t, key, use_cache)
        PROVE  IInv'
    <2>1. CacheTypeOK'
      BY <1>1, <1>5, GetKeeps, CacheUnchanged DEF CacheMiss
    <2>2. [key |-> key, use_cache |-> use_cache] \in Requests
      BY DEF Requests
    <2>3. CallsOK(Outcomes, Requests)' /\ CallInv'
      BY <1>1, <1>5, <2>2, BeginKeeps DEF CacheMiss
    <2> QED
      BY <2>1, <2>3 DEF IInv
  <1>6. ASSUME NEW t \in Tasks, Enter(t)
        PROVE  IInv'
    BY <1>1, <1>6, LetInKeeps, CacheUnchanged DEF Enter, IInv
  <1>7. ASSUME NEW t \in Tasks, NEW payload \in Values, Answer(t, payload)
        PROVE  IInv'
    <2>1. IsHolder(call[t])
      BY <1>7 DEF Answer, IsHolder
    <2>2. call[t].req.key \in Keys
      <3>1. call[t].phase # "over"
        BY <1>7 DEF Answer
      <3>2. call[t] \in [phase : {"queued", "sending", "backoff"},
                         req : Requests, attempt : 1..MaxAttempts]
        BY <1>1, <3>1, Phases
      <3> QED
        BY <3>2 DEF Requests
    <2>3. CacheTypeOK'
      BY <1>1, <1>7, <2>2, SetKeeps, CacheUnchanged DEF Answer
    <2>4. CallsOK(Outcomes, Requests)' /\ CallInv'
      BY <1>1, <1>2, <1>7, <2>1, LeaveKeeps DEF Answer
    <2> QED
      BY <2>3, <2>4 DEF IInv
  <1>8. ASSUME NEW t \in Tasks, RetryableFailure(t)
        PROVE  IInv'
    BY <1>1, <1>2, <1>8, FailKeeps, CacheUnchanged DEF RetryableFailure, IInv
  <1>9. ASSUME NEW t \in Tasks, FinalFailure(t)
        PROVE  IInv'
    <2>1. IsHolder(call[t])
      BY <1>9 DEF FinalFailure, IsHolder
    <2> QED
      BY <1>1, <1>2, <1>9, <2>1, LeaveKeeps, CacheUnchanged
      DEF FinalFailure, IInv
  <1>10. ASSUME NEW t \in Tasks, NextAttempt(t)
         PROVE  IInv'
    BY <1>1, <1>10, NextTurnKeeps, CacheUnchanged DEF NextAttempt, IInv
  <1>11. ASSUME NEW t \in Tasks, Cancel(t)
         PROVE  IInv'
    BY <1>1, <1>2, <1>11, CancelledKeeps, CacheUnchanged DEF Cancel, IInv
  <1>12. CASE UNCHANGED vars
    BY <1>1, <1>12, CacheUnchanged, Stuttering DEF vars, IInv
  <1> QED
    BY <1>3, <1>4, <1>5, <1>6, <1>7, <1>8, <1>9, <1>10, <1>11, <1>12
    DEF Next, RequestEnds

\* The invariant in every state.
LEMMA Invariance == Spec => []IInv
  BY InitIInv, NextIInv, PTL DEF Spec

\* The cache is well formed and within its limit, each call is in a state that
\* get_json can be in, and the queue of the semaphore is made of those that
\* wait (infra/http.py, infra/cache.py).
THEOREM TypeCorrect == Spec => []TypeOK
  <1>1. IInv => TypeOK
    BY Implied DEF IInv, TypeOK, CallsOK, CallStates, Requests
  <1> QED
    BY <1>1, Invariance, PTL

\* No permit of get_json is lost or duplicated, whatever ends a call.
THEOREM Conserved == Spec => []PermitsConserved
  <1>1. IInv => PermitsConserved
    BY Implied DEF IInv
  <1> QED
    BY <1>1, Invariance, PTL

\* No task waits while a permit is free that nobody is about to pass on.
THEOREM NobodyForgotten == Spec => []NoForgottenWaiter
  <1>1. IInv => NoForgottenWaiter
    BY Implied DEF IInv
  <1> QED
    BY <1>1, Invariance, PTL

\* The RuntimeError after the retry loop of get_json is unreachable.
THEOREM NeverFallsThrough == Spec => []RetryLoopNeverFallsThrough
  <1>1. IInv => RetryLoopNeverFallsThrough
    BY Implied DEF IInv
  <1> QED
    BY <1>1, Invariance, PTL
=============================================================================
