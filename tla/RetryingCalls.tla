---------------------------- MODULE RetryingCalls ----------------------------
(***************************************************************************)
(* What the HTTP clients of the server have in common: a permit of a       *)
(* semaphore, and inside it a loop of at most MaxAttempts requests with    *)
(* backoffs between them, while the permit is held.  The loop of get_json  *)
(* in src/src/finance_mcp/infra/http.py is the one translated; the other   *)
(* clients repeat it and use these operators for theirs.                   *)
(*                                                                         *)
(* A task runs from one await to the next in one step.  It can be          *)
(* cancelled at each of them: in the queue of the semaphore, during a      *)
(* request and during a backoff.                                           *)
(***************************************************************************)
EXTENDS AsyncioSemaphore

CONSTANT MaxAttempts    \* self._max_attempts

ASSUME AttemptsAssumption == MaxAttempts \in Nat \ {0}

VARIABLE call           \* where each task is

callVars == <<semaphoreVars, call>>

\* A task that makes no call, with the outcome of its last one.
Over(outcome) == [phase |-> "over", outcome |-> outcome]

\* A task that makes the call req.
Calls(requests) ==
    [phase : {"queued", "sending", "backoff"}, req : requests,
     attempt : 1..MaxAttempts]

CallsInit ==
    /\ SemaphoreInit
    /\ call = [t \in Tasks |-> Over("none")]

\* The tasks inside `async with self._semaphore`.
Holders == {t \in Tasks : call[t].phase \in {"sending", "backoff"}}

Goto(t, phase) == call' = [call EXCEPT ![t].phase = phase]

\* acquire: the first request is sent at once, or the task waits.
Begin(t, req) ==
    \E phase \in {"sending", "queued"} :
      /\ IF phase = "sending" THEN AcquireNow ELSE Enqueue(t)
      /\ call' = [call EXCEPT ![t] = [phase |-> phase, req |-> req,
                                      attempt |-> 1]]

\* The semaphore lets the task in.
LetIn(t) ==
    /\ call[t].phase = "queued"
    /\ Resume(t)
    /\ Goto(t, "sending")

\* The exit of `async with'.  (A definition Name_variant just before Name is
\* Name with a bug, for the mutation runs only.)
Leave_keepsPermit(t, outcome) ==
    /\ call' = [call EXCEPT ![t] = Over(outcome)]
    /\ UNCHANGED semaphoreVars
Leave(t, outcome) ==
    /\ call' = [call EXCEPT ![t] = Over(outcome)]
    /\ Release

\* `attempt < self._max_attempts'.
MayRetry_always(attempt) == TRUE
MayRetry(attempt) == attempt < MaxAttempts

\* A retryable status, a timeout or a transport error.
Fail_yieldsPermit(t) ==
    /\ call[t].phase = "sending"
    /\ Goto(t, "backoff")
    /\ Release
Fail(t) ==
    /\ call[t].phase = "sending"
    /\ IF MayRetry(call[t].attempt)
       THEN Goto(t, "backoff") /\ UNCHANGED semaphoreVars
       ELSE Leave(t, "error")

\* The backoff ends: the next turn of the loop, or its end when there is
\* none.
NextTurn(t) ==
    /\ call[t].phase = "backoff"
    /\ IF call[t].attempt + 1 <= MaxAttempts
       THEN /\ call' = [call EXCEPT ![t].phase = "sending",
                                    ![t].attempt = @ + 1]
            /\ UNCHANGED semaphoreVars
       ELSE Leave(t, "unreachable")

\* CancelledError at the await the task is suspended in.
Cancelled(t) ==
    \/ /\ call[t].phase = "queued"
       /\ CancelPending(t) \/ CancelGranted(t)
       /\ call' = [call EXCEPT ![t] = Over("cancelled")]
    \/ /\ call[t].phase \in {"sending", "backoff"}
       /\ Leave(t, "cancelled")

-----------------------------------------------------------------------------
(* What must hold of every client that is built on these.                  *)

\* A task waits for a permit when its future is pending or completed, and no
\* future is both or twice in the queue.
QueueOK ==
    /\ {t \in Tasks : call[t].phase = "queued"} = ToSet(waiters) \cup granted
    /\ granted \cap ToSet(waiters) = {}
    /\ \A i, j \in DOMAIN waiters : waiters[i] = waiters[j] => i = j

\* No permit is lost or duplicated on any path out of the loop: answers,
\* errors, exhausted retries, and cancellations wherever they hit.
PermitsConserved ==
    permits + Cardinality(Holders) + Cardinality(granted) = MaxConcurrency

\* A permit is never idle while a task waits for it with nobody about to
\* pass it on.
NoForgottenWaiter ==
    permits > 0 /\ waiters # <<>> => granted # {}

\* The code after the retry loop, `raise RuntimeError("unreachable HTTP retry
\* state")' in infra/http.py and `request failed' in direct_action.py, is
\* unreachable.
RetryLoopNeverFallsThrough ==
    \A t \in Tasks : call[t] # Over("unreachable")
=============================================================================
