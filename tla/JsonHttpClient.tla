--------------------------- MODULE JsonHttpClient ---------------------------
(***************************************************************************)
(* JsonHttpClient.get_json of src/src/finance_mcp/infra/http.py: a cache   *)
(* lookup, a bounded number of concurrent requests, retries with backoff   *)
(* while the permit is held, and the store of the answer.                  *)
(***************************************************************************)
EXTENDS AsyncTTLCache, RetryingCalls

CONSTANT Cacheable    \* the payloads that cache_predicate accepts

ASSUME PayloadAssumption == Cacheable \subseteq Values

vars == <<cacheVars, callVars>>

Outcomes == {"none", "hit", "payload", "error", "unreachable", "cancelled"}

TypeOK ==
    /\ CacheTypeOK
    /\ SemaphoreTypeOK
    /\ call \in [Tasks -> {Over(o) : o \in Outcomes}
                          \cup Calls([key : Keys, use_cache : BOOLEAN])]
    /\ QueueOK

Init == CacheInit /\ CallsInit

Tick == CacheTick /\ UNCHANGED callVars

\* get_json until its first suspension, when the answer is cached.
CacheHit(t, key) ==
    /\ call[t].phase = "over"
    /\ Lookup(key) # None
    /\ Get(key)
    /\ call' = [call EXCEPT ![t] = Over("hit")]
    /\ UNCHANGED semaphoreVars

\* get_json until its first suspension, when it is not or use_cache is off.
CacheMiss(t, key, use_cache) ==
    /\ call[t].phase = "over"
    /\ IF use_cache THEN Lookup(key) = None /\ Get(key)
                    ELSE UNCHANGED cacheVars
    /\ Begin(t, [key |-> key, use_cache |-> use_cache])

Enter(t) == LetIn(t) /\ UNCHANGED cacheVars

\* A 2xx answer with a JSON payload: cached when the call and the predicate
\* agree, and returned.
Answer(t, payload) ==
    /\ call[t].phase = "sending"
    /\ IF call[t].req.use_cache /\ payload \in Cacheable
       THEN Set(call[t].req.key, payload)
       ELSE UNCHANGED cacheVars
    /\ Leave(t, "payload")

\* A status of _RETRYABLE_STATUS_CODES, a timeout or a transport error.
RetryableFailure(t) == Fail(t) /\ UNCHANGED cacheVars

\* Any other status, or a body that is not JSON.
FinalFailure(t) ==
    /\ call[t].phase = "sending"
    /\ Leave(t, "error")
    /\ UNCHANGED cacheVars

\* The end of _log_and_wait_for_retry.
NextAttempt(t) == NextTurn(t) /\ UNCHANGED cacheVars

Cancel(t) == Cancelled(t) /\ UNCHANGED cacheVars

\* A request ends: the client's timeout sees to it.
RequestEnds(t) ==
    \/ \E payload \in Values : Answer(t, payload)
    \/ RetryableFailure(t)
    \/ FinalFailure(t)

Next ==
    \/ Tick
    \/ \E t \in Tasks :
         \/ \E key \in Keys : CacheHit(t, key)
         \/ \E key \in Keys, use_cache \in BOOLEAN : CacheMiss(t, key, use_cache)
         \/ Enter(t)
         \/ RequestEnds(t)
         \/ NextAttempt(t)
         \/ Cancel(t)

\* The event loop runs what is ready, requests end and sleeps end.  No call
\* has to be made or cancelled and the clock may stop.
Fairness ==
    \A t \in Tasks : /\ WF_vars(Enter(t))
                     /\ WF_vars(RequestEnds(t))
                     /\ WF_vars(NextAttempt(t))

Spec == Init /\ [][Next]_vars /\ Fairness

-----------------------------------------------------------------------------
(* Properties, beside those of RetryingCalls                               *)

\* Every call comes to an end, although permits are held through backoffs:
\* nobody waits for ever behind the retries of the others.
CallsEnd == \A t \in Tasks : call[t].phase # "over" ~> call[t].phase = "over"
=============================================================================
