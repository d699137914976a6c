---------------------------- MODULE ActionClient ----------------------------
(***************************************************************************)
(* The client of FinMind and Finnhub data, made once at the start by       *)
(* create_action_client of src/src/finance_mcp/action_client.py: with the  *)
(* direct backend a DirectActionClient (direct_action.py), which           *)
(* normalizes the input and asks FinMind or Finnhub; else an               *)
(* OpenConnectorClient (open_connector.py), which posts the input as it is *)
(* to the connector.  Their call methods have the same structure: a cache, *)
(* then a permit with a retry loop inside, then validation and caching.    *)
(*                                                                         *)
(* Data other than null is represented by the question to the upstream     *)
(* that it answers.                                                        *)
(***************************************************************************)
EXTENDS AsyncTTLCache, RetryingCalls

CONSTANTS
    FinmindActions,   \* _FINMIND_DATASETS
    FinnhubActions,   \* _FINNHUB_PATHS
    ConnectorActions, \* _ALLOWED_ACTIONS of the connector
    Actions,          \* actions that may be asked for
    Inputs,           \* action inputs, normalized or not
    Normal,           \* _normalize_action_input, on what it accepts
    Queries,          \* query parameters of FinMind and Finnhub
    Params,           \* those made of a normalized input
    FinnhubKey        \* is a Finnhub API key configured?

DirectActions == FinmindActions \cup FinnhubActions
Requests == Actions \X Inputs

\* What an upstream is asked: the dataset or the path of an action with its
\* parameters, or the input as it was posted to the connector.
Questions == Actions \X (Inputs \cup Queries)

ASSUME ActionsAssumption ==
    /\ FinmindActions \cap FinnhubActions = {}
    /\ DirectActions \cup ConnectorActions \subseteq Actions
ASSUME NormalAssumption ==
    /\ DOMAIN Normal \subseteq DirectActions \X Inputs
    /\ \A c \in DOMAIN Normal : Normal[c] \in Inputs
\* Every field of a normalized input becomes a parameter, so that two of
\* them make the same parameters only if they are the same.
ASSUME ParamsAssumption ==
    /\ DOMAIN Params = {<<c[1], Normal[c]>> : c \in DOMAIN Normal}
    /\ \A x \in DOMAIN Params : Params[x] \in Queries
    /\ \A x, y \in DOMAIN Params :
         x[1] = y[1] /\ Params[x] = Params[y] => x = y
ASSUME FinnhubKeyAssumption == FinnhubKey \in BOOLEAN
ASSUME CachedAssumption ==
    /\ Keys = Requests
    /\ Values = Questions \cup {None}
    /\ None \notin Questions

VARIABLE backend     \* settings.data_backend

vars == <<cacheVars, callVars, backend>>

-----------------------------------------------------------------------------
(* A definition Name_variant just before Name is Name with a bug: the      *)
(* mutation runs use it in place of Name, the specification never does.    *)

\* The calls that are not refused with a ValueError.
Accepted ==
    IF backend = "direct" THEN DOMAIN Normal
                          ELSE ConnectorActions \X Inputs

\* The action with its input, normalized by the direct backend only.
CacheKey_notNormalized(c) == c
CacheKey(c) ==
    IF backend = "direct" THEN <<c[1], Normal[c]>> ELSE c

\* What the call c asks its upstream.
UpstreamRequest(c) ==
    IF backend = "direct" THEN <<c[1], Params[<<c[1], Normal[c]>>]>> ELSE c

\* What a valid answer to the call c holds; the connector may answer null.
DataOf(c) ==
    {UpstreamRequest(c)} \cup (IF backend = "direct" THEN {} ELSE {None})

TypeOK ==
    /\ CacheTypeOK
    /\ SemaphoreTypeOK
    /\ backend \in {"direct", "connector"}
    /\ call \in [Tasks -> {Over(o) : o \in {"none", "payload", "error",
                                            "unreachable", "cancelled"}}
                          \cup Calls(Accepted)]
    /\ QueueOK

Init ==
    /\ CacheInit
    /\ CallsInit
    /\ backend \in {"direct", "connector"}

Tick == CacheTick /\ UNCHANGED <<callVars, backend>>

End(t, outcome) ==
    /\ call' = [call EXCEPT ![t] = Over(outcome)]
    /\ UNCHANGED semaphoreVars

\* An action or an input that is not accepted.
Refuse(t, c) ==
    /\ call[t].phase = "over"
    /\ c \notin Accepted
    /\ End(t, "error")
    /\ UNCHANGED <<cacheVars, backend>>

CacheHit(t, c) ==
    /\ call[t].phase = "over"
    /\ c \in Accepted
    /\ Lookup(CacheKey(c)) # None
    /\ Get(CacheKey(c))
    /\ End(t, "payload")
    /\ UNCHANGED backend

\* The direct backend has no key for a Finnhub action.
NoKeyFor(c) ==
    backend = "direct" /\ c[1] \in FinnhubActions /\ ~FinnhubKey

\* Not cached, or a cached null: it becomes the newest entry, but no hit.
CacheMiss(t, c) ==
    /\ call[t].phase = "over"
    /\ c \in Accepted
    /\ Lookup(CacheKey(c)) = None
    /\ Get(CacheKey(c))
    /\ IF NoKeyFor(c) THEN End(t, "error") ELSE Begin(t, c)
    /\ UNCHANGED backend

Enter(t) == LetIn(t) /\ UNCHANGED <<cacheVars, backend>>

\* A 2xx answer that passes the checks, which follow the release of the
\* permit without a suspension.
Answer(t) ==
    /\ call[t].phase = "sending"
    /\ \E data \in DataOf(call[t].req) : Set(CacheKey(call[t].req), data)
    /\ Leave(t, "payload")
    /\ UNCHANGED backend

RetryableFailure(t) == Fail(t) /\ UNCHANGED <<cacheVars, backend>>

\* Any other status, or an answer too long, not JSON, or not valid.
FinalFailure(t) ==
    /\ call[t].phase = "sending"
    /\ Leave(t, "error")
    /\ UNCHANGED <<cacheVars, backend>>

NextAttempt(t) == NextTurn(t) /\ UNCHANGED <<cacheVars, backend>>

Cancel(t) == Cancelled(t) /\ UNCHANGED <<cacheVars, backend>>

Next ==
    \/ Tick
    \/ \E t \in Tasks :
         \/ \E c \in Requests :
              Refuse(t, c) \/ CacheHit(t, c) \/ CacheMiss(t, c)
         \/ Enter(t)
         \/ Answer(t)
         \/ RetryableFailure(t)
         \/ FinalFailure(t)
         \/ NextAttempt(t)
         \/ Cancel(t)

Spec == Init /\ [][Next]_vars

-----------------------------------------------------------------------------
(* Properties, beside those of RetryingCalls                               *)

\* Whatever is cached, by whichever call: a call that hits gets data that
\* answers its own upstream request, although the key was made before the
\* request and apart from it; and it hits whenever any entry could give it
\* that data, so that inputs of the same meaning share an entry.
HitsAnswerTheirCall ==
    \A c \in Accepted :
      LET hit == Lookup(CacheKey(c)) IN
      /\ hit \in {None, UpstreamRequest(c)}
      /\ (\E key \in Keys : Lookup(key) = UpstreamRequest(c)) => hit # None
=============================================================================
