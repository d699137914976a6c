------------------------- MODULE ActionClient_proofs -------------------------
(***************************************************************************)
(* Theorems about ActionClient, for any actions, inputs, limits and number *)
(* of attempts, and either backend.                                        *)
(***************************************************************************)
EXTENDS ActionClient, ClientParts_proofs

Outcomes == {"none", "payload", "error", "unreachable", "cancelled"}

\* The keys of the calls, each with what the call asks.
Answers == {<<CacheKey(c), UpstreamRequest(c)>> : c \in Accepted}

\* An entry holds null or what some call asked whose key it has.
AnswersOf(s) ==
    \A e \in ToSet(s) : e.value = None \/ <<e.key, e.value>> \in Answers

\* The inductive invariant.
IInv ==
    /\ CacheTypeOK
    /\ AnswersOf(entries)
    /\ backend \in {"direct", "connector"}
    /\ CallsOK(Outcomes, Accepted)
    /\ CallInv

\* It holds at the start.
LEMMA InitIInv == Init => IInv
  <1> SUFFICES ASSUME Init PROVE IInv
    OBVIOUS
  <1>1. CacheTypeOK /\ AnswersOf(entries)
    BY CacheAssumption DEF Init, CacheInit, CacheTypeOK, AnswersOf, ToSet
  <1>2. PICK A : A = Accepted
    OBVIOUS
  <1>3. CallsOK(Outcomes, A) /\ CallInv
    BY Beginning DEF Init, Outcomes
  <1> QED
    BY <1>1, <1>2, <1>3 DEF IInv, Init

\* Accepted calls have a cache key and ask something that can be cached.
LEMMA AcceptedCalls ==
    ASSUME NEW c \in Accepted
    PROVE  /\ c \in Requests
           /\ CacheKey(c) \in Keys
           /\ UpstreamRequest(c) \in Questions
  <1>1. CASE backend = "direct"
    <2>1. c \in DOMAIN Normal
      BY <1>1 DEF Accepted
    <2>2. /\ c \in DirectActions \X Inputs
          /\ Normal[c] \in Inputs
      BY <2>1, NormalAssumption
    <2>3. c \in Actions \X Inputs /\ c[1] \in Actions
      BY <2>2, ActionsAssumption
    <2>4. Params[<<c[1], Normal[c]>>] \in Queries
      BY <2>1, ParamsAssumption
    <2> QED
      BY <1>1, <2>2, <2>3, <2>4, CachedAssumption
      DEF CacheKey, UpstreamRequest, Requests, Questions
  <1>2. CASE backend # "direct"
    <2>1. c \in Actions \X Inputs
      BY <1>2, ActionsAssumption DEF Accepted
    <2> QED
      BY <1>2, <2>1, CachedAssumption
      DEF CacheKey, UpstreamRequest, Requests, Questions
  <1> QED
    BY <1>1, <1>2

\* Two calls have the same key if and only if they ask the same.
LEMMA KeysAreQuestions ==
    ASSUME NEW c \in Accepted, NEW d \in Accepted
    PROVE  CacheKey(c) = CacheKey(d) <=> UpstreamRequest(c) = UpstreamRequest(d)
  <1>1. CASE backend = "direct"
    <2> DEFINE x == <<c[1], Normal[c]>>
               y == <<d[1], Normal[d]>>
    <2>1. x \in DOMAIN Params /\ y \in DOMAIN Params
      BY <1>1, ParamsAssumption DEF Accepted
    <2>2. x[1] = y[1] /\ Params[x] = Params[y] => x = y
      BY <2>1, ParamsAssumption
    <2> QED
      BY <1>1, <2>2 DEF CacheKey, UpstreamRequest
  <1>2. CASE backend # "direct"
    BY <1>2 DEF CacheKey, UpstreamRequest
  <1> QED
    BY <1>1, <1>2

\* With the same backend the calls have the same keys and questions.
LEMMA AnswersKept ==
    ASSUME backend' = backend
    PROVE  Answers' = Answers
  BY DEF Answers, Accepted, CacheKey, UpstreamRequest

\* Every step keeps the invariant.
LEMMA NextIInv == IInv /\ [Next]_vars => IInv'
  <1> SUFFICES ASSUME IInv, [Next]_vars PROVE IInv'
    OBVIOUS
  <1>1. PICK A : A = Accepted
    OBVIOUS
  <1>2. /\ CacheTypeOK
        /\ AnswersOf(entries)
        /\ backend \in {"direct", "connector"}
        /\ CallsOK(Outcomes, A)
        /\ CallInv
    BY <1>1 DEF IInv
  <1>3. /\ "none" \in Outcomes /\ "payload" \in Outcomes
        /\ "error" \in Outcomes /\ "cancelled" \in Outcomes
    BY DEF Outcomes
  <1>4. SUFFICES ASSUME backend' = backend
                 PROVE  /\ CacheTypeOK'
                        /\ AnswersOf(entries)'
                        /\ CallsOK(Outcomes, A)'
                        /\ CallInv'
    <2>1. backend' = backend
      BY DEF Next, Tick, Refuse, CacheHit, CacheMiss, Enter, Answer,
             RetryableFailure, FinalFailure, NextAttempt, Cancel, vars
    <2>2. Accepted' = A
      BY <1>1, <2>1 DEF Accepted
    <2> QED
      BY <1>2, <2>1, <2>2 DEF IInv, CallsOK
  <1> DEFINE Good == /\ CacheTypeOK'
                     /\ AnswersOf(entries)'
                     /\ CallsOK(Outcomes, A)'
                     /\ CallInv'
  <1>5. ASSUME UNCHANGED cacheVars
        PROVE  CacheTypeOK' /\ AnswersOf(entries)'
    BY <1>2, <1>4, <1>5, CacheUnchanged, AnswersKept DEF AnswersOf
  <1>6. ASSUME NEW key, Get(key)
        PROVE  CacheTypeOK' /\ AnswersOf(entries)'
    BY <1>2, <1>4, <1>6, GetKeeps, AnswersKept DEF AnswersOf
  <1>7. CASE Tick
    BY <1>2, <1>4, <1>7, TickKeeps, Stuttering, AnswersKept DEF Tick, AnswersOf
  <1>8. ASSUME NEW t \in Tasks, NEW c \in Requests, Refuse(t, c)
        PROVE  Good
    BY <1>2, <1>3, <1>5, <1>8, EndingOver DEF Refuse, End
  <1>9. ASSUME NEW t \in Tasks, NEW c \in Requests, CacheHit(t, c)
        PROVE  Good
    BY <1>2, <1>3, <1>6, <1>9, EndingOver DEF CacheHit, End
  <1>10. ASSUME NEW t \in Tasks, NEW c \in Requests, CacheMiss(t, c)
         PROVE  Good
    <2>1. CacheTypeOK' /\ AnswersOf(entries)'
      BY <1>6, <1>10 DEF CacheMiss
    <2>2. CallsOK(Outcomes, A)' /\ CallInv'
      <3>1. CASE NoKeyFor(c)
        BY <1>2, <1>3, <1>10, <3>1, EndingOver DEF CacheMiss, End
      <3>2. CASE ~NoKeyFor(c)
        <4>1. c \in A
          BY <1>1, <1>10 DEF CacheMiss
        <4> QED
          BY <1>2, <1>10, <3>2, <4>1, BeginKeeps DEF CacheMiss
      <3> QED
        BY <3>1, <3>2
    <2> QED
      BY <2>1, <2>2
  <1>11. ASSUME NEW t \in Tasks, Enter(t)
         PROVE  Good
    BY <1>2, <1>5, <1>11, LetInKeeps DEF Enter
  <1>12. ASSUME NEW t \in Tasks, Answer(t)
         PROVE  Good
    <2> DEFINE c == call[t].req
    <2>1. c \in Accepted
      <3>1. call[t].phase # "over"
        BY <1>12 DEF Answer
      <3>2. call[t] \in [phase : {"queued", "sending", "backoff"},
                         req : A, attempt : 1..MaxAttempts]
        BY <1>2, <3>1, Phases
      <3> QED
        BY <1>1, <3>2
    <2>2. PICK data \in DataOf(c) : Set(CacheKey(c), data)
      BY <1>12 DEF Answer
    <2>3. data = None \/ data = UpstreamRequest(c)
      BY <2>2 DEF DataOf
    <2> HIDE DEF c
    <2>4. CacheKey(c) \in Keys /\ data \in Values
      BY <2>1, <2>3, AcceptedCalls, CachedAssumption
    <2>5. /\ CacheTypeOK'
          /\ \A e \in ToSet(entries') :
               \/ e \in ToSet(entries)
               \/ e.key = CacheKey(c) /\ e.value = data
      BY <1>2, <2>2, <2>4, SetKeeps
    <2>6. AnswersOf(entries)'
      <3>1. data = None \/ <<CacheKey(c), data>> \in Answers
        BY <2>1, <2>3 DEF Answers
      <3>2. ASSUME NEW e \in ToSet(entries')
            PROVE  e.value = None \/ <<e.key, e.value>> \in Answers
        <4>1. CASE e \in ToSet(entries)
          BY <1>2, <4>1 DEF AnswersOf
        <4>2. CASE e.key = CacheKey(c) /\ e.value = data
          BY <3>1, <4>2
        <4> QED
          BY <2>5, <4>1, <4>2
      <3> QED
        BY <1>4, <3>2, AnswersKept DEF AnswersOf
    <2>7. IsHolder(call[t])
      BY <1>12 DEF Answer, IsHolder
    <2>8. CallsOK(Outcomes, A)' /\ CallInv'
      BY <1>2, <1>3, <1>12, <2>7, LeaveKeeps DEF Answer
    <2> QED
      BY <2>5, <2>6, <2>8
  <1>13. ASSUME NEW t \in Tasks, RetryableFailure(t)
         PROVE  Good
    BY <1>2, <1>3, <1>5, <1>13, FailKeeps DEF RetryableFailure
  <1>14. ASSUME NEW t \in Tasks, FinalFailure(t)
         PROVE  Good
    <2>1. IsHolder(call[t])
      BY <1>14 DEF FinalFailure, IsHolder
    <2> QED
      BY <1>2, <1>3, <1>5, <1>14, <2>1, LeaveKeeps DEF FinalFailure
  <1>15. ASSUME NEW t \in Tasks, NextAttempt(t)
         PROVE  Good
    BY <1>2, <1>5, <1>15, NextTurnKeeps DEF NextAttempt
  <1>16. ASSUME NEW t \in Tasks, Cancel(t)
         PROVE  Good
    BY <1>2, <1>3, <1>5, <1>16, CancelledKeeps DEF Cancel
  <1>17. CASE UNCHANGED vars
    BY <1>2, <1>5, <1>17, Stuttering DEF vars
  <1> QED
    BY <1>7, <1>8, <1>9, <1>10, <1>11, <1>12, <1>13, <1>14, <1>15, <1>16, <1>17
    DEF Next

\* The invariant in every state.
LEMMA Invariance == Spec => []IInv
  BY InitIInv, NextIInv, PTL DEF Spec

\* The cache is well formed and within its limit, only accepted calls are
\* under way, and the queue of the semaphore is made of those that wait
\* (direct_action.py, open_connector.py).
THEOREM TypeCorrect == Spec => []TypeOK
  <1>1. IInv => TypeOK
    BY Implied DEF IInv, TypeOK, CallsOK, CallStates, Outcomes
  <1> QED
    BY <1>1, Invariance, PTL

\* No permit of a call is lost or duplicated, whatever ends the call.
THEOREM Conserved == Spec => []PermitsConserved
  <1>1. IInv => PermitsConserved
    BY Implied DEF IInv
  <1> QED
    BY <1>1, Invariance, PTL

\* The error after the retry loops of direct_action.py and open_connector.py
\* is unreachable.
THEOREM NeverFallsThrough == Spec => []RetryLoopNeverFallsThrough
  <1>1. IInv => RetryLoopNeverFallsThrough
    BY Implied DEF IInv
  <1> QED
    BY <1>1, Invariance, PTL

\* A cached answer is given to the calls whose upstream request it answers,
\* to all of them and to no other (direct_action.py, open_connector.py).
THEOREM HitsAreRight == Spec => []HitsAnswerTheirCall
  <1>1. ASSUME IInv, NEW c \in Accepted, NEW key, Lookup(key) # None
        PROVE  \E d \in Accepted : /\ key = CacheKey(d)
                                    /\ Lookup(key) = UpstreamRequest(d)
    BY <1>1, LookingUp DEF IInv, AnswersOf, Answers
  <1>2. ASSUME IInv, NEW c \in Accepted
        PROVE  Lookup(CacheKey(c)) \in {None, UpstreamRequest(c)}
    BY <1>1, <1>2, KeysAreQuestions
  <1>3. ASSUME IInv, NEW c \in Accepted, NEW key \in Keys,
               Lookup(key) = UpstreamRequest(c)
        PROVE  Lookup(CacheKey(c)) # None
    <2>1. UpstreamRequest(c) # None
      BY AcceptedCalls, CachedAssumption
    <2>2. PICK d \in Accepted : /\ key = CacheKey(d)
                                /\ Lookup(key) = UpstreamRequest(d)
      BY <1>1, <1>3, <2>1
    <2>3. key = CacheKey(c)
      BY <1>3, <2>2, KeysAreQuestions
    <2> QED
      BY <1>3, <2>1, <2>3
  <1>4. IInv => HitsAnswerTheirCall
    BY <1>2, <1>3 DEF HitsAnswerTheirCall
  <1> QED
    BY <1>4, Invariance, PTL
=============================================================================
