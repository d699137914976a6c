------------------------- MODULE ServerTools_proofs -------------------------
(***************************************************************************)
(* Theorems about the tools of src/src/finance_mcp/server.py: of           *)
(* GatheringTools, for any slots, sources, number of permits and number of *)
(* attempts; and of TaiwanStockPrices, for any calendar, windows, latency  *)
(* and cache.                                                              *)
(***************************************************************************)
EXTENDS GatheringTools, TaiwanStockPrices, ClientParts_proofs

-----------------------------------------------------------------------------
(* GatheringTools                                                          *)

\* The requests of a slot, whatever the kind.
AllRequestsOf(t) == {t} \X Sources

\* What holds of the call in each slot: its requests are cancelled only
\* through it, it has no outcome while it waits for its gather, and the
\* properties.
SlotOK(t) ==
    /\ ~tool[t].stop => \A r \in AllRequestsOf(t) : call[r] # Over("cancelled")
    /\ tool[t].phase = "gathering" => tool[t].outcome = "none"
    /\ tool[t].phase = "over" /\ tool[t].outcome # "none" /\ ~MayLeaveOrphans(t)
         => \A r \in RequestsOf(t) : Finished(r)
    /\ Answered(t) => IsWhole(t)
    /\ kind = "announcements" => TellsOutage(t)

\* The inductive invariant.
IInv ==
    /\ CallsOK(Outcomes, Sources)
    /\ CallInv
    /\ kind \in Kinds
    /\ tool \in [Slots -> ToolCalls]
    /\ \A t \in Slots : SlotOK(t)

\* The requests of a call are tasks.
LEMMA RequestFacts ==
    ASSUME NEW t \in Slots
    PROVE  /\ RequestsOf(t) \subseteq AllRequestsOf(t)
           /\ AllRequestsOf(t) \subseteq Tasks
           /\ \A r \in AllRequestsOf(t) : r[1] = t /\ r[2] \in Sources
           /\ RequestsOf(t) # {}
  <1>1. SourcesOfKind \subseteq Sources /\ SourcesOfKind # {}
    BY SourcesAssumption DEF SourcesOfKind
  <1>2. /\ RequestsOf(t) \subseteq AllRequestsOf(t)
        /\ AllRequestsOf(t) \subseteq Tasks
    BY <1>1, SourcesAssumption DEF RequestsOf, AllRequestsOf
  <1>3. \A r \in AllRequestsOf(t) : r[1] = t /\ r[2] \in Sources
    BY DEF AllRequestsOf
  <1>4. RequestsOf(t) # {}
    <2>1. PICK s : s \in SourcesOfKind
      BY <1>1
    <2>2. <<t, s>> \in RequestsOf(t)
      BY <2>1 DEF RequestsOf
    <2> QED
      BY <2>2
  <1> QED
    BY <1>2, <1>3, <1>4

\* `Over' keeps outcomes apart.
LEMMA OverFacts ==
    ASSUME NEW o, NEW p
    PROVE  /\ Over(o) = Over(p) => o = p
           /\ Over(o).phase = "over"
  BY DEF Over

\* What a request that is over has ended with.
LEMMA FinishedWith ==
    ASSUME CallsOK(Outcomes, Sources), NEW r \in Tasks, Finished(r)
    PROVE  \E o \in {"rows", "no rows", "error", "cancelled"} : call[r] = Over(o)
  <1>1. call[r].phase = "over" /\ call[r] # Over("none")
    BY DEF Finished
  <1>2. PICK o \in Outcomes : call[r] = Over(o)
    BY <1>1, Phases
  <1> QED
    BY <1>1, <1>2 DEF Outcomes

\* Two announcers: both failed when two requests did.
LEMMA TwoAnnouncers ==
    ASSUME NEW t \in Slots, kind = "announcements"
    PROVE  AllFailed(t) <=> \A r \in RequestsOf(t) : call[r] = Over("error")
  <1>1. PICK twse \in Sources, tpex \in Sources :
          twse # tpex /\ Announcers = {twse, tpex}
    BY SourcesAssumption
  <1> DEFINE a == <<t, twse>>
             b == <<t, tpex>>
             E == EndedWith(t, {"error"})
  <1>2. a # b
    BY <1>1
  <1>3. RequestsOf(t) = {a, b}
    BY <1>1 DEF RequestsOf, SourcesOfKind
  <1>4. E = {r \in RequestsOf(t) : call[r] = Over("error")}
    BY DEF EndedWith
  <1> HIDE DEF a, b, E
  <1>5. /\ Cardinality({}) = 0
        /\ Cardinality({a}) = 1
        /\ Cardinality({b}) = 1
        /\ Cardinality({a, b}) = 2
    <2>1. /\ IsFiniteSet({a})
          /\ Cardinality({}) = 0
          /\ Cardinality({a}) = 1
          /\ Cardinality({b}) = 1
      BY FS_EmptySet, FS_Singleton
    <2>2. Cardinality({a} \cup {b}) = Cardinality({a}) + 1
      BY <2>1, <1>2, FS_AddElement
    <2>3. {a, b} = {a} \cup {b}
      OBVIOUS
    <2> QED
      BY <2>1, <2>2, <2>3
  <1>6. E = {} \/ E = {a} \/ E = {b} \/ E = {a, b}
    BY <1>3, <1>4
  <1>7. Cardinality(E) = 2 <=> E = {a, b}
    BY <1>2, <1>5, <1>6
  <1> QED
    BY <1>3, <1>4, <1>7 DEF AllFailed, E

\* A call whose gather is settled, and which was not stopped: either all its
\* requests have finished, none of them cancelled, or one of them failed and
\* they are no announcements.
LEMMA SettledCalls ==
    ASSUME IInv, NEW t \in Slots, Settled(t), ~tool[t].stop
    PROVE  /\ \/ \A r \in RequestsOf(t) : Finished(r)
              \/ kind # "announcements" /\ EndedWith(t, {"error"}) # {}
           /\ \A r \in RequestsOf(t) : call[r] # Over("cancelled")
  <1>1. \A r \in RequestsOf(t) : call[r] # Over("cancelled")
    BY RequestFacts DEF IInv, SlotOK
  <1>2. EndedWith(t, {"error", "cancelled"}) = EndedWith(t, {"error"})
    BY <1>1 DEF EndedWith
  <1> QED
    BY <1>1, <1>2 DEF Settled

\* It holds at the start.
LEMMA InitIInv == Init => IInv
  <1> SUFFICES ASSUME Init PROVE IInv
    OBVIOUS
  <1>1. CallsOK(Outcomes, Sources) /\ CallInv
    <2>1. "none" \in Outcomes
      BY DEF Outcomes
    <2> QED
      BY <2>1, Beginning DEF Init
  <1> DEFINE idle == [Gathering EXCEPT !.phase = "over"]
  <1>2. /\ kind \in Kinds
        /\ tool = [t \in Slots |-> idle]
        /\ call = [r \in Tasks |-> Over("none")]
    BY DEF Init, CallsInit
  <1>3. /\ idle \in ToolCalls
        /\ idle.phase = "over" /\ ~idle.stop /\ idle.outcome = "none"
    <2>1. Gathering \in ToolCalls
      BY DEF Gathering, ToolCalls
    <2> QED
      BY <2>1 DEF Gathering, ToolCalls
  <1> HIDE DEF idle
  <1>4. ASSUME NEW t \in Slots
        PROVE  SlotOK(t)
    <2>1. \A r \in AllRequestsOf(t) : call[r] = Over("none")
      BY <1>2, RequestFacts
    <2> QED
      BY <1>2, <1>3, <2>1, OverFacts DEF SlotOK, Answered, TellsOutage
  <1> QED
    BY <1>1, <1>2, <1>3, <1>4 DEF IInv

\* A step that leaves the call of a slot alone, and changes only requests that
\* have not finished: it keeps what holds of the slot.
LEMMA SlotKeeps ==
    ASSUME IInv, NEW t \in Slots, kind' = kind, tool'[t] = tool[t],
           \A r \in AllRequestsOf(t) : Finished(r) => call'[r] = call[r],
           ~tool[t].stop =>
             \A r \in AllRequestsOf(t) :
               call'[r] = Over("cancelled") => call[r] = Over("cancelled")
    PROVE  SlotOK(t)'
  <1>1. SlotOK(t) /\ CallsOK(Outcomes, Sources)
    BY DEF IInv
  <1>2. RequestsOf(t)' = RequestsOf(t)
    BY DEF RequestsOf, SourcesOfKind
  <1>3. MayLeaveOrphans(t)' = MayLeaveOrphans(t)
    BY DEF MayLeaveOrphans
  <1>4. ASSUME NEW r \in RequestsOf(t), Finished(r)
        PROVE  Finished(r)' /\ call'[r] = call[r]
    BY <1>4, RequestFacts DEF Finished
  <1>5. Answered(t) => IsWhole(t)'
    <2> SUFFICES ASSUME Answered(t) PROVE IsWhole(t)'
      OBVIOUS
    <2>1. IsWhole(t)
      BY <1>1 DEF SlotOK
    <2>2. \A r \in RequestsOf(t) : Finished(r)' /\ call'[r] = call[r]
      BY <1>4, <2>1 DEF IsWhole
    <2> QED
      BY <1>2, <2>1, <2>2 DEF IsWhole
  <1>6. kind = "announcements" => TellsOutage(t)'
    <2> SUFFICES ASSUME kind = "announcements",
                        tool[t].outcome \in {"both failed", "answer"}
                 PROVE  tool[t].outcome = "both failed"
                          <=> \A r \in RequestsOf(t) : call'[r] = Over("error")
      BY <1>2 DEF TellsOutage
    <2>1. tool[t].phase = "over"
      BY <1>1 DEF SlotOK, IInv, ToolCalls
    <2>2. \A r \in RequestsOf(t) : Finished(r)
      BY <1>1, <2>1 DEF SlotOK, MayLeaveOrphans
    <2>3. \A r \in RequestsOf(t) : call'[r] = call[r]
      BY <1>4, <2>2
    <2> QED
      BY <1>1, <2>3 DEF SlotOK, TellsOutage
  <1>7. Answered(t)' = Answered(t)
    BY DEF Answered
  <1>8. ~tool[t].stop => \A r \in AllRequestsOf(t) : call'[r] # Over("cancelled")
    BY <1>1 DEF SlotOK
  <1>9. AllRequestsOf(t)' = AllRequestsOf(t)
    BY DEF AllRequestsOf
  <1>10. tool[t].phase = "over" /\ tool[t].outcome # "none" /\ ~MayLeaveOrphans(t)
           => \A r \in RequestsOf(t) : Finished(r)'
    BY <1>1, <1>4 DEF SlotOK
  <1>11. tool[t].phase = "gathering" => tool[t].outcome = "none"
    BY <1>1 DEF SlotOK
  <1> QED
    BY <1>2, <1>3, <1>5, <1>6, <1>7, <1>8, <1>9, <1>10, <1>11 DEF SlotOK

(***************************************************************************)
(* The steps of a request                                                  *)
(***************************************************************************)

\* A request step keeps the calls in order ...
LEMMA RequestKeepsCalls ==
    ASSUME IInv, NEW r \in Tasks, RequestRuns(r)
    PROVE  CallsOK(Outcomes, Sources)' /\ CallInv'
  <1>1. CallsOK(Outcomes, Sources) /\ CallInv
    BY DEF IInv
  <1>2. \A o \in {"rows", "no rows", "error", "cancelled"} :
          o \in Outcomes /\ o # "unreachable"
    BY DEF Outcomes
  <1>3. r[2] \in Sources
    BY SourcesAssumption
  <1>4. CASE AnswerAtOnce(r)
    <2>1. PICK o \in {"rows", "no rows", "error"} :
            call' = [call EXCEPT ![r] = Over(o)]
      BY <1>4 DEF AnswerAtOnce
    <2>2. call[r].phase = "over" /\ UNCHANGED semaphoreVars
      BY <1>4, OverFacts DEF AnswerAtOnce, Created
    <2> QED
      BY <1>1, <1>2, <2>1, <2>2, EndingOver
  <1>5. CASE Send(r)
    <2>1. call[r].phase = "over" /\ Begin(r, r[2])
      BY <1>5, OverFacts DEF Send, Created
    <2> QED
      BY <1>1, <1>3, <2>1, BeginKeeps
  <1>6. CASE Enter(r)
    BY <1>1, <1>6, LetInKeeps DEF Enter
  <1>7. CASE Answer(r)
    <2>1. PICK o \in {"rows", "no rows", "error"} : Leave(r, o)
      BY <1>7 DEF Answer
    <2>2. IsHolder(call[r])
      BY <1>7 DEF Answer, IsHolder
    <2> QED
      BY <1>1, <1>2, <2>1, <2>2, LeaveKeeps
  <1>8. CASE RetryableFailure(r)
    BY <1>1, <1>2, <1>8, FailKeeps DEF RetryableFailure
  <1>9. CASE NextAttempt(r)
    BY <1>1, <1>9, NextTurnKeeps DEF NextAttempt
  <1>10. CASE CancelRequest(r)
    <2>1. CASE /\ Created(r)
               /\ call' = [call EXCEPT ![r] = Over("cancelled")]
               /\ UNCHANGED semaphoreVars
      <3>1. call[r].phase = "over"
        BY <2>1, OverFacts DEF Created
      <3> QED
        BY <1>1, <1>2, <2>1, <3>1, EndingOver
    <2>2. CASE Cancelled(r)
      BY <1>1, <1>2, <2>2, CancelledKeeps
    <2> QED
      BY <1>10, <2>1, <2>2 DEF CancelRequest
  <1> QED
    BY <1>4, <1>5, <1>6, <1>7, <1>8, <1>9, <1>10 DEF RequestRuns

\* ... and changes one request, which had not finished and is cancelled only
\* if its tool was.
LEMMA RequestChanges ==
    ASSUME IInv, NEW r \in Tasks, RequestRuns(r)
    PROVE  /\ kind' = kind /\ tool' = tool
           /\ ~Finished(r)
           /\ \A q \in Tasks \ {r} : call'[q] = call[q]
           /\ ~tool[r[1]].stop => call'[r] # Over("cancelled")
  <1>1. CallsOK(Outcomes, Sources)
    BY DEF IInv
  <1>2. kind' = kind /\ tool' = tool
    BY DEF RequestRuns, AnswerAtOnce, Send, Enter, Answer, RetryableFailure,
           NextAttempt, CancelRequest
  <1>3. ~Finished(r)
    BY OverFacts
    DEF RequestRuns, AnswerAtOnce, Send, Enter, Answer, RetryableFailure,
        NextAttempt, CancelRequest, Created, Finished, LetIn, Fail, NextTurn,
        Cancelled
  <1>4. \E c : /\ call' = [call EXCEPT ![r] = c]
               /\ ~tool[r[1]].stop => c # Over("cancelled")
    <2>1. CASE AnswerAtOnce(r)
      <3>1. PICK o \in {"rows", "no rows", "error"} :
              call' = [call EXCEPT ![r] = Over(o)]
        BY <2>1 DEF AnswerAtOnce
      <3> QED
        BY <3>1, OverFacts
    <2>2. CASE Send(r)
      <3>1. PICK phase \in {"sending", "queued"} :
              call' = [call EXCEPT ![r] = [phase |-> phase, req |-> r[2],
                                           attempt |-> 1]]
        BY <2>2 DEF Send, Begin
      <3>2. [phase |-> phase, req |-> r[2], attempt |-> 1] # Over("cancelled")
        BY DEF Over
      <3> QED
        BY <3>1, <3>2
    <2>3. CASE Enter(r)
      <3>1. call' = [call EXCEPT ![r] = [call[r] EXCEPT !.phase = "sending"]]
        BY <2>3 DEF Enter, LetIn, Goto
      <3>2. call[r] \in [phase : {"queued", "sending", "backoff"},
                         req : Sources, attempt : 1..MaxAttempts]
        BY <1>1, <2>3, Phases DEF Enter, LetIn
      <3>3. [call[r] EXCEPT !.phase = "sending"] # Over("cancelled")
        BY <3>2 DEF Over
      <3> QED
        BY <3>1, <3>3
    <2>4. CASE Answer(r)
      <3>1. PICK o \in {"rows", "no rows", "error"} :
              call' = [call EXCEPT ![r] = Over(o)]
        BY <2>4 DEF Answer, Leave
      <3> QED
        BY <3>1, OverFacts
    <2>5. CASE RetryableFailure(r)
      <3>1. \/ call' = [call EXCEPT ![r] = [call[r] EXCEPT !.phase = "backoff"]]
            \/ call' = [call EXCEPT ![r] = Over("error")]
        BY <2>5 DEF RetryableFailure, Fail, Goto, Leave
      <3>2. call[r] \in [phase : {"queued", "sending", "backoff"},
                         req : Sources, attempt : 1..MaxAttempts]
        BY <1>1, <2>5, Phases DEF RetryableFailure, Fail
      <3>3. [call[r] EXCEPT !.phase = "backoff"] # Over("cancelled")
        BY <3>2 DEF Over
      <3> QED
        BY <3>1, <3>3, OverFacts
    <2>6. CASE NextAttempt(r)
      <3>1. \/ call' = [call EXCEPT ![r].phase = "sending", ![r].attempt = @ + 1]
            \/ call' = [call EXCEPT ![r] = Over("unreachable")]
        BY <2>6 DEF NextAttempt, NextTurn, Leave
      <3>2. call' = [call EXCEPT ![r].phase = "sending", ![r].attempt = @ + 1]
              => call' = [call EXCEPT ![r] =
                            [call[r] EXCEPT !.phase = "sending",
                                            !.attempt = call[r].attempt + 1]]
        BY <1>1 DEF CallsOK
      <3>3. call[r] \in [phase : {"queued", "sending", "backoff"},
                         req : Sources, attempt : 1..MaxAttempts]
        BY <1>1, <2>6, Phases DEF NextAttempt, NextTurn
      <3>4. [call[r] EXCEPT !.phase = "sending", !.attempt = call[r].attempt + 1]
              # Over("cancelled")
        BY <3>3 DEF Over
      <3> QED
        BY <3>1, <3>2, <3>4, OverFacts
    <2>7. CASE CancelRequest(r)
      <3>1. tool[r[1]].stop
        BY <2>7 DEF CancelRequest, Unstopped
      <3>2. call' = [call EXCEPT ![r] = Over("cancelled")]
        BY <2>7 DEF CancelRequest, Cancelled, Leave
      <3> QED
        BY <3>1, <3>2
    <2> QED
      BY <2>1, <2>2, <2>3, <2>4, <2>5, <2>6, <2>7 DEF RequestRuns
  <1>5. /\ \A q \in Tasks \ {r} : call'[q] = call[q]
        /\ ~tool[r[1]].stop => call'[r] # Over("cancelled")
    BY <1>1, <1>4 DEF CallsOK
  <1> QED
    BY <1>2, <1>3, <1>5

(***************************************************************************)
(* The steps of a tool                                                     *)
(***************************************************************************)

\* What Close does.
LEMMA Closing ==
    ASSUME IInv, NEW t \in Slots, NEW outcome \in Raised \cup {"answer"},
           NEW from \in SUBSET Sources, Close(t, outcome, from)
    PROVE  /\ tool' \in [Slots -> ToolCalls]
           /\ tool'[t].phase = "over"
           /\ tool'[t].stop = tool[t].stop
           /\ tool'[t].outcome = outcome
           /\ tool'[t].from = from
           /\ \A u \in Slots \ {t} : tool'[u] = tool[u]
  <1> DEFINE c == [tool[t] EXCEPT !.phase = "over", !.outcome = outcome,
                                  !.from = from]
  <1>1. tool \in [Slots -> ToolCalls]
    BY DEF IInv
  <1>2. tool' = [tool EXCEPT ![t] = c]
    BY <1>1 DEF Close
  <1>3. /\ c \in ToolCalls
        /\ c.phase = "over" /\ c.stop = tool[t].stop
        /\ c.outcome = outcome /\ c.from = from
    BY <1>1 DEF ToolCalls
  <1> HIDE DEF c
  <1> QED
    BY <1>1, <1>2, <1>3

\* A step that changes the call of one slot and no request.
LEMMA ToolMoves ==
    ASSUME IInv, NEW t \in Slots, kind' = kind, UNCHANGED callVars,
           tool' \in [Slots -> ToolCalls], SlotOK(t)',
           \A u \in Slots \ {t} : tool'[u] = tool[u]
    PROVE  IInv'
  <1>1. CallsOK(Outcomes, Sources)' /\ CallInv'
    BY Stuttering DEF IInv
  <1>2. call' = call
    BY DEF callVars
  <1>3. \A u \in Slots \ {t} : SlotOK(u)'
    BY <1>2, SlotKeeps
  <1> QED
    BY <1>1, <1>3 DEF IInv

\* The gather of a call has its result and the call returns or raises.
LEMMA ReturnKeeps ==
    ASSUME IInv, NEW t \in Slots, Return(t)
    PROVE  IInv'
  <1> DEFINE outcome == OutcomeOf(t)
             from == IF outcome = "answer"
                     THEN {r[2] : r \in EndedWith(t, {"rows", "no rows"})}
                     ELSE {}
  <1>1. /\ tool[t].phase = "gathering"
        /\ ~tool[t].stop
        /\ Settled(t)
        /\ Close(t, outcome, from)
        /\ UNCHANGED callVars
        /\ kind' = kind
    BY DEF Return
  <1>2. CallsOK(Outcomes, Sources)
    BY DEF IInv
  <1>3. from \in SUBSET Sources
    <2>1. \A r \in EndedWith(t, {"rows", "no rows"}) : r[2] \in Sources
      BY RequestFacts DEF EndedWith
    <2> QED
      BY <2>1
  <1>4. outcome \in Raised \cup {"answer"}
    BY DEF OutcomeOf, Raised
  <1>5. call' = call
    BY <1>1 DEF callVars
  <1>6. /\ \/ \A r \in RequestsOf(t) : Finished(r)
           \/ kind # "announcements" /\ EndedWith(t, {"error"}) # {}
        /\ \A r \in RequestsOf(t) : call[r] # Over("cancelled")
    BY <1>1, SettledCalls
  <1>7. /\ kind = "announcements" =>
             /\ outcome \in {"both failed", "answer"}
             /\ outcome = "both failed"
                  <=> \A r \in RequestsOf(t) : call[r] = Over("error")
        /\ kind # "announcements" =>
             /\ outcome = "error" <=> EndedWith(t, {"error"}) # {}
             /\ kind = "analyze" /\ outcome = "answer" =>
                  EndedWith(t, {"no rows"}) = {}
    BY TwoAnnouncers DEF OutcomeOf
  <1>8. ASSUME outcome # "error"
        PROVE  /\ \A r \in RequestsOf(t) : Finished(r)
               /\ \A r \in RequestsOf(t) :
                    \E o \in {"rows", "no rows", "error"} : call[r] = Over(o)
    <2>1. \A r \in RequestsOf(t) : Finished(r)
      BY <1>6, <1>7, <1>8
    <2> QED
      BY <2>1, <1>2, <1>6, RequestFacts, FinishedWith
  <1>9. outcome = "answer" =>
          /\ \A r \in RequestsOf(t) : Finished(r)
          /\ \A r \in RequestsOf(t) :
               r[2] \notin from =>
                 kind = "announcements" /\ call[r] = Over("error")
          /\ kind = "analyze" => \A r \in RequestsOf(t) : call[r] = Over("rows")
          /\ from # {}
    <2> SUFFICES ASSUME outcome = "answer"
                 PROVE  /\ \A r \in RequestsOf(t) : Finished(r)
                        /\ \A r \in RequestsOf(t) :
                             r[2] \notin from =>
                               kind = "announcements" /\ call[r] = Over("error")
                        /\ kind = "analyze" =>
                             \A r \in RequestsOf(t) : call[r] = Over("rows")
                        /\ from # {}
      OBVIOUS
    <2>1. \A r \in RequestsOf(t) :
            call[r] = Over("rows") \/ call[r] = Over("no rows") => r[2] \in from
      BY DEF EndedWith
    <2>2. kind # "announcements" =>
            \A r \in RequestsOf(t) : call[r] # Over("error")
      BY <1>7 DEF EndedWith
    <2>3. kind = "analyze" => \A r \in RequestsOf(t) : call[r] # Over("no rows")
      BY <1>7 DEF EndedWith
    <2> HIDE DEF outcome, from
    <2>4. \E r \in RequestsOf(t) : call[r] # Over("error")
      <3>1. CASE kind = "announcements"
        BY <1>7, <3>1
      <3>2. CASE kind # "announcements"
        <4>1. PICK r : r \in RequestsOf(t)
          BY RequestFacts
        <4> QED
          BY <2>2, <3>2, <4>1
      <3> QED
        BY <3>1, <3>2
    <2> QED
      BY <1>8, <2>1, <2>2, <2>3, <2>4
  <1> HIDE DEF outcome, from
  <1>10. /\ tool' \in [Slots -> ToolCalls]
         /\ tool'[t].phase = "over"
         /\ tool'[t].stop = tool[t].stop
         /\ tool'[t].outcome = outcome
         /\ tool'[t].from = from
         /\ \A u \in Slots \ {t} : tool'[u] = tool[u]
    BY <1>1, <1>3, <1>4, Closing
  <1>11. SlotOK(t)'
    <2>1. /\ RequestsOf(t)' = RequestsOf(t)
          /\ \A r \in RequestsOf(t) : Finished(r)' = Finished(r)
      BY <1>1, <1>5 DEF RequestsOf, SourcesOfKind, Finished
    <2>2. (~tool[t].stop =>
             \A r \in AllRequestsOf(t) : call[r] # Over("cancelled"))'
      BY <1>1, <1>5, <1>10 DEF IInv, SlotOK, AllRequestsOf
    <2>3. (tool[t].phase = "over" /\ tool[t].outcome # "none"
             /\ ~MayLeaveOrphans(t)
             => \A r \in RequestsOf(t) : Finished(r))'
      BY <1>1, <1>7, <1>8, <1>10, <2>1 DEF MayLeaveOrphans
    <2>4. (Answered(t) => IsWhole(t))'
      BY <1>1, <1>5, <1>9, <1>10, <2>1 DEF Answered, IsWhole
    <2>5. (kind = "announcements" => TellsOutage(t))'
      BY <1>1, <1>5, <1>7, <1>10, <2>1 DEF TellsOutage
    <2> QED
      BY <1>10, <2>2, <2>3, <2>4, <2>5 DEF SlotOK
  <1> QED
    BY <1>1, <1>10, <1>11, ToolMoves

\* A tool is cancelled: its gather has its result, or is told to stop.
LEMMA CancelKeeps ==
    ASSUME IInv, NEW t \in Slots, Cancel(t)
    PROVE  IInv'
  <1>1. /\ tool[t].phase = "gathering"
        /\ ~tool[t].stop
        /\ UNCHANGED callVars
        /\ call' = call
        /\ kind' = kind
        /\ SlotOK(t)
        /\ tool \in [Slots -> ToolCalls]
    BY DEF Cancel, callVars, IInv
  <1>2. /\ RequestsOf(t)' = RequestsOf(t)
        /\ \A r \in RequestsOf(t) : Finished(r)' = Finished(r)
    BY <1>1 DEF RequestsOf, SourcesOfKind, Finished
  <1>3. tool[t].outcome = "none"
    BY <1>1 DEF SlotOK
  <1>4. CASE Settled(t) /\ Close(t, "CancelledError", {})
    <2>1. Close(t, "CancelledError", {})
      BY <1>4
    <2>2. "CancelledError" \in Raised \cup {"answer"} /\ {} \in SUBSET Sources
      BY DEF Raised
    <2>3. /\ tool' \in [Slots -> ToolCalls]
          /\ tool'[t].phase = "over"
          /\ tool'[t].stop = tool[t].stop
          /\ tool'[t].outcome = "CancelledError"
          /\ \A u \in Slots \ {t} : tool'[u] = tool[u]
      BY <2>1, <2>2, Closing
    <2>4. \/ \A r \in RequestsOf(t) : Finished(r)
          \/ kind # "announcements"
      BY <1>1, <1>4, SettledCalls
    <2>5. SlotOK(t)'
      BY <1>1, <1>2, <2>3, <2>4
      DEF SlotOK, AllRequestsOf, MayLeaveOrphans, Answered, TellsOutage
    <2> QED
      BY <1>1, <2>3, <2>5, ToolMoves
  <1>5. CASE tool' = [tool EXCEPT ![t].stop = TRUE]
    <2> DEFINE c == [tool[t] EXCEPT !.stop = TRUE]
    <2>1. tool' = [tool EXCEPT ![t] = c]
      BY <1>1, <1>5
    <2>2. /\ c \in ToolCalls
          /\ c.phase = "gathering" /\ c.stop /\ c.outcome = "none"
      BY <1>1, <1>3 DEF ToolCalls
    <2> HIDE DEF c
    <2>3. /\ tool' \in [Slots -> ToolCalls]
          /\ tool'[t] = c
          /\ \A u \in Slots \ {t} : tool'[u] = tool[u]
      BY <1>1, <2>1, <2>2
    <2>4. SlotOK(t)'
      BY <2>2, <2>3 DEF SlotOK, Answered, TellsOutage
    <2> QED
      BY <1>1, <2>3, <2>4, ToolMoves
  <1> QED
    BY <1>4, <1>5 DEF Cancel

\* The gather of a cancelled tool has its result.
LEMMA ReturnCancelledKeeps ==
    ASSUME IInv, NEW t \in Slots, ReturnCancelled(t)
    PROVE  IInv'
  <1> DEFINE failed == kind # "announcements" /\ EndedWith(t, {"error"}) # {}
             outcome == IF failed THEN "error" ELSE "CancelledError"
  <1>0. \/ outcome = "error" /\ kind # "announcements"
        \/ outcome = "CancelledError"
    OBVIOUS
  <1>1. /\ tool[t].stop
        /\ Settled(t)
        /\ Close(t, outcome, {})
        /\ UNCHANGED callVars
        /\ call' = call
        /\ kind' = kind
    BY DEF ReturnCancelled, callVars
  <1>2. /\ RequestsOf(t)' = RequestsOf(t)
        /\ \A r \in RequestsOf(t) : Finished(r)' = Finished(r)
    BY <1>1 DEF RequestsOf, SourcesOfKind, Finished
  <1> HIDE DEF outcome
  <1>3. outcome \in Raised \cup {"answer"} /\ {} \in SUBSET Sources
    BY <1>0 DEF Raised
  <1>4. /\ tool' \in [Slots -> ToolCalls]
        /\ tool'[t].phase = "over"
        /\ tool'[t].stop
        /\ tool'[t].outcome = outcome
        /\ \A u \in Slots \ {t} : tool'[u] = tool[u]
    BY <1>1, <1>3, Closing
  <1>5. kind = "announcements" => \A r \in RequestsOf(t) : Finished(r)
    BY <1>1 DEF Settled
  <1>6. SlotOK(t)'
    BY <1>0, <1>1, <1>2, <1>4, <1>5
    DEF SlotOK, MayLeaveOrphans, Answered, TellsOutage
  <1> QED
    BY <1>1, <1>4, <1>6, ToolMoves

\* A slot whose requests are all over takes a new call.
LEMMA CallKeeps ==
    ASSUME IInv, NEW t \in Slots, Call(t)
    PROVE  IInv'
  <1>1. /\ \A r \in {t} \X Sources : call[r].phase = "over"
        /\ tool' = [tool EXCEPT ![t] = Gathering]
        /\ call' = [r \in Tasks |-> IF r[1] = t THEN Over("none") ELSE call[r]]
        /\ UNCHANGED semaphoreVars
        /\ kind' = kind
    BY DEF Call
  <1>2. /\ CallsOK(Outcomes, Sources)
        /\ CallInv
        /\ tool \in [Slots -> ToolCalls]
    BY DEF IInv
  <1>3. \A r \in Tasks :
          \/ call'[r] = call[r]
          \/ call[r].phase = "over" /\ call'[r] = Over("none")
    BY <1>1, SourcesAssumption
  <1>4. "none" \in Outcomes
    BY DEF Outcomes
  <1>5. CallsOK(Outcomes, Sources)' /\ CallInv'
    BY <1>1, <1>2, <1>3, <1>4, Resetting
  <1>6. /\ Gathering \in ToolCalls
        /\ Gathering.phase = "gathering" /\ ~Gathering.stop
        /\ Gathering.outcome = "none"
    BY DEF Gathering, ToolCalls
  <1>7. /\ tool' \in [Slots -> ToolCalls]
        /\ tool'[t] = Gathering
        /\ \A u \in Slots \ {t} : tool'[u] = tool[u]
    BY <1>1, <1>2, <1>6
  <1>8. SlotOK(t)'
    <2>1. \A r \in AllRequestsOf(t) : call'[r] = Over("none")
      BY <1>1, RequestFacts
    <2> QED
      BY <1>6, <1>7, <2>1, OverFacts
      DEF SlotOK, AllRequestsOf, Answered, TellsOutage
  <1>9. ASSUME NEW u \in Slots \ {t}
        PROVE  SlotOK(u)'
    <2>1. \A r \in AllRequestsOf(u) : call'[r] = call[r]
      BY <1>1, RequestFacts
    <2> QED
      BY <1>1, <1>7, <2>1, SlotKeeps
  <1> QED
    BY <1>1, <1>5, <1>7, <1>8, <1>9 DEF IInv

\* A request step keeps the invariant.
LEMMA RequestKeeps ==
    ASSUME IInv, NEW r \in Tasks, RequestRuns(r)
    PROVE  IInv'
  <1>1. CallsOK(Outcomes, Sources)' /\ CallInv'
    BY RequestKeepsCalls
  <1>2. /\ kind' = kind /\ tool' = tool
        /\ ~Finished(r)
        /\ \A q \in Tasks \ {r} : call'[q] = call[q]
        /\ ~tool[r[1]].stop => call'[r] # Over("cancelled")
    BY RequestChanges
  <1>3. ASSUME NEW t \in Slots
        PROVE  SlotOK(t)'
    <2>1. \A q \in AllRequestsOf(t) : q \in Tasks /\ q[1] = t
      BY RequestFacts
    <2> QED
      BY <1>2, <2>1, SlotKeeps
  <1> QED
    BY <1>1, <1>2, <1>3 DEF IInv

\* Every step keeps the invariant.
LEMMA NextIInv == IInv /\ [Next]_vars => IInv'
  <1> SUFFICES ASSUME IInv, [Next]_vars PROVE IInv'
    OBVIOUS
  <1>1. CASE UNCHANGED vars
    <2>1. UNCHANGED callVars /\ call' = call /\ kind' = kind /\ tool' = tool
      BY <1>1 DEF vars, callVars
    <2>2. CallsOK(Outcomes, Sources)' /\ CallInv'
      BY <2>1, Stuttering DEF IInv
    <2>3. \A t \in Slots : SlotOK(t)'
      BY <2>1, SlotKeeps
    <2> QED
      BY <2>1, <2>2, <2>3 DEF IInv
  <1> QED
    BY <1>1, CallKeeps, ReturnKeeps, CancelKeeps, ReturnCancelledKeeps,
       RequestKeeps
    DEF Next

\* The invariant in every state.
LEMMA Invariance == Spec => []IInv
  BY InitIInv, NextIInv, PTL DEF Spec

\* Calls and requests are in states that the tools and their client can be
\* in, and the queue of the semaphore is made of the requests that wait.
THEOREM TypeCorrect == Spec => []TypeOK
  <1>1. IInv => TypeOK
    BY Implied DEF IInv, TypeOK, CallsOK, CallStates
  <1> QED
    BY <1>1, Invariance, PTL

\* No permit is lost, although gathers let go of requests that hold one.
THEOREM Conserved == Spec => []PermitsConserved
  <1>1. IInv => PermitsConserved
    BY Implied DEF IInv
  <1> QED
    BY <1>1, Invariance, PTL

\* No tool returns an answer that lacks what one of its sources brings.
THEOREM AnswersAreWhole == Spec => []AnswerIsWhole
  <1>1. IInv => AnswerIsWhole
    BY DEF IInv, SlotOK, AnswerIsWhole
  <1> QED
    BY <1>1, Invariance, PTL

\* The outage of both markets, and nothing less, is told by the announcements
\* (providers/announcements.py, `len(errors) == 2').
THEOREM OutagesAreTold == Spec => []AnnouncementsRaiseWhenBothFail
  <1>1. IInv => AnnouncementsRaiseWhenBothFail
    BY DEF IInv, SlotOK, AnnouncementsRaiseWhenBothFail
  <1> QED
    BY <1>1, Invariance, PTL

\* Only failed and cancelled calls leave requests behind, and announcements
\* never do.
THEOREM OrphansOnlyOfFailures == Spec => []OnlyFailuresLeaveOrphans
  <1>1. IInv => OnlyFailuresLeaveOrphans
    BY DEF IInv, SlotOK, OnlyFailuresLeaveOrphans
  <1> QED
    BY <1>1, Invariance, PTL

-----------------------------------------------------------------------------
(* TaiwanStockPrices, from here on.  The invariant says of every entry of  *)
(* the cache that it was right when it was stored, and of the call that is *)
(* followed that its rows are those of the months it has left behind: only *)
(* both together are inductive, because a hit takes rows from an answer to *)
(* another call.                                                           *)

-----------------------------------------------------------------------------
(* Months                                                                  *)

AllMonths == Nat \X (1..12)

\* The order in which the code compares months as pairs is that of their
\* numbers, and the following month has the following number.
LEMMA MonthNumbers ==
    ASSUME NEW month \in AllMonths, NEW other \in AllMonths
    PROVE  /\ MonthNumber(month) \in Nat
           /\ NotAfter(month, other) <=> MonthNumber(month) <= MonthNumber(other)
           /\ MonthNumber(month) = MonthNumber(other) => month = other
           /\ Following(month) \in AllMonths
           /\ MonthNumber(Following(month)) = MonthNumber(month) + 1
  <1>1. PICK y \in Nat, m \in 1..12 : month = <<y, m>>
    BY DEF AllMonths
  <1>2. PICK z \in Nat, n \in 1..12 : other = <<z, n>>
    BY DEF AllMonths
  <1>3. MonthNumber(month) = 12 * y + m /\ MonthNumber(other) = 12 * z + n
    BY <1>1, <1>2 DEF MonthNumber
  <1>4. NotAfter(month, other) <=> y < z \/ (y = z /\ m <= n)
    BY <1>1, <1>2 DEF NotAfter
  <1>5. y < z \/ (y = z /\ m <= n) <=> 12 * y + m <= 12 * z + n
    OBVIOUS
  <1>6. 12 * y + m = 12 * z + n => y = z /\ m = n
    OBVIOUS
  <1>7. /\ Following(month) \in AllMonths
        /\ MonthNumber(Following(month)) = MonthNumber(month) + 1
    <2>1. CASE m = 12
      <3>1. Following(month) = <<y + 1, 1>>
        BY <1>1, <2>1 DEF Following
      <3> QED
        BY <1>3, <2>1, <3>1 DEF AllMonths, MonthNumber
    <2>2. CASE m # 12
      <3>1. Following(month) = <<y, m + 1>>
        BY <1>1, <2>2 DEF Following
      <3> QED
        BY <1>3, <2>2, <3>1 DEF AllMonths, MonthNumber
    <2> QED
      BY <2>1, <2>2
  <1>8. MonthNumber(month) \in Nat
    BY <1>3
  <1> QED
    BY <1>1, <1>2, <1>3, <1>4, <1>5, <1>6, <1>7, <1>8

\* The number of the month of a day.
NumberOf(d) == MonthNumber(MonthOf[d])

\* Days have months, which are the keys of the cache.
LEMMA MonthsOfDays ==
    /\ \A d \in Days : /\ MonthOf[d] \in AllMonths
                       /\ MonthOf[d] \in Keys
                       /\ NumberOf(d) \in Nat
    /\ Keys \subseteq AllMonths
    /\ \A d \in Days : d + 1 \in Days =>
         NumberOf(d + 1) = NumberOf(d) \/ NumberOf(d + 1) = NumberOf(d) + 1
  <1>1. MonthOf \in [Days -> AllMonths] /\ Keys = {MonthOf[d] : d \in Days}
    BY CalendarAssumption, PayloadsAssumption DEF AllMonths
  <1>2. \A d \in Days : MonthOf[d] \in AllMonths /\ MonthOf[d] \in Keys
    BY <1>1
  <1>3. \A d \in Days : NumberOf(d) \in Nat
    BY <1>2, MonthNumbers DEF NumberOf
  <1>4. ASSUME NEW d \in Days, d + 1 \in Days
        PROVE  NumberOf(d + 1) = NumberOf(d) \/ NumberOf(d + 1) = NumberOf(d) + 1
    <2>1. NumberOf(d + 1) - NumberOf(d) \in {0, 1}
      BY <1>4, CalendarAssumption DEF NumberOf
    <2>2. NumberOf(d) \in Nat /\ NumberOf(d + 1) \in Nat
      BY <1>3, <1>4
    <2> QED
      BY <2>1, <2>2
  <1> QED
    BY <1>1, <1>2, <1>3, <1>4

\* The bounds of an interval.
LEMMA Between ==
    ASSUME NEW k \in Nat, NEW n \in Nat, NEW e \in k..n
    PROVE  k <= e /\ e <= n
  OBVIOUS

\* Below a number that is one more.
LEMMA Below ==
    ASSUME NEW k \in Nat, NEW n \in Nat
    PROVE  /\ k < n + 1 <=> k < n \/ k = n
           /\ k < n => k # n
  OBVIOUS

\* As days pass, months pass in their order and none is left out.
LEMMA CalendarGoesOn ==
    ASSUME NEW d \in Days, NEW e \in Days, d <= e
    PROVE  /\ NumberOf(d) <= NumberOf(e)
           /\ \A month \in AllMonths :
                /\ NumberOf(d) <= MonthNumber(month)
                /\ MonthNumber(month) <= NumberOf(e)
                => month \in Keys
  <1> DEFINE Upto(n) == /\ NumberOf(d) <= NumberOf(d + n)
                        /\ \A month \in AllMonths :
                             /\ NumberOf(d) <= MonthNumber(month)
                             /\ MonthNumber(month) <= NumberOf(d + n)
                             => month \in Keys
             P == {n \in Nat : d + n \in Days => Upto(n)}
  <1>0. Days = 1..LastDay /\ LastDay \in Nat /\ d \in Nat /\ e \in Nat
    BY CalendarAssumption DEF Days
  <1>1. ASSUME NEW f \in Days, NEW month \in AllMonths,
               MonthNumber(month) = NumberOf(f)
        PROVE  month \in Keys
    BY <1>1, MonthsOfDays, MonthNumbers DEF NumberOf
  <1>2. 0 \in P
    <2>1. d + 0 = d /\ NumberOf(d) \in Nat
      BY <1>0, MonthsOfDays
    <2>2. ASSUME NEW month \in AllMonths,
                 NumberOf(d) <= MonthNumber(month),
                 MonthNumber(month) <= NumberOf(d)
          PROVE  month \in Keys
      <3>1. MonthNumber(month) = NumberOf(d)
        BY <2>1, <2>2, MonthNumbers
      <3> QED
        BY <1>1, <3>1
    <2>3. Upto(0)
      BY <2>1, <2>2
    <2> QED
      BY <2>3
  <1>3. ASSUME NEW n \in P PROVE n + 1 \in P
    <2> SUFFICES ASSUME d + (n + 1) \in Days PROVE Upto(n + 1)
      OBVIOUS
    <2>1. n \in Nat /\ d + n \in Days /\ (d + n) + 1 = d + (n + 1)
      BY <1>0
    <2>2. Upto(n)
      BY <2>1
    <2> DEFINE here == NumberOf(d + n)
               there == NumberOf(d + (n + 1))
    <2>3. there = here \/ there = here + 1
      BY <2>1, MonthsOfDays
    <2>4. NumberOf(d) \in Nat /\ here \in Nat /\ there \in Nat
      BY <2>1, MonthsOfDays
    <2> HIDE DEF here, there
    <2>5. NumberOf(d) <= here
      BY <2>2 DEF here
    <2>6. ASSUME NEW month \in AllMonths,
                 NumberOf(d) <= MonthNumber(month),
                 MonthNumber(month) <= there
          PROVE  month \in Keys
      <3>1. MonthNumber(month) <= here \/ MonthNumber(month) = there
        BY <2>3, <2>4, <2>6, MonthNumbers
      <3>2. CASE MonthNumber(month) <= here
        BY <2>2, <2>6, <3>2 DEF here
      <3>3. CASE MonthNumber(month) = there
        BY <1>1, <3>3 DEF there
      <3> QED
        BY <3>1, <3>2, <3>3
    <2>7. NumberOf(d) <= there
      BY <2>3, <2>4, <2>5
    <2> QED
      BY <2>6, <2>7 DEF there
  <1>4. e - d \in P
    <2>1. P \subseteq Nat
      OBVIOUS
    <2> HIDE DEF P
    <2>2. P = Nat
      BY <2>1, <1>2, <1>3, Induction
    <2> QED
      BY <2>2, <1>0
  <1>5. d + (e - d) = e
    BY <1>0
  <1> QED
    BY <1>4, <1>5

-----------------------------------------------------------------------------
(* Rows                                                                    *)

\* s lists the numbers of S in their order.
IsListOf(s, S) ==
    /\ s \in [1..Cardinality(S) -> S]
    /\ ToSet(s) = S
    /\ \A i, j \in DOMAIN s : i < j => s[i] < s[j]

\* Every set of numbers up to a bound has such a list.
LEMMA ListExists ==
    ASSUME NEW n \in Nat, NEW S \in SUBSET (1..n)
    PROVE  \E s : IsListOf(s, S)
  <1> DEFINE P == {m \in Nat : \A T \in SUBSET (1..m) : \E s : IsListOf(s, T)}
  <1>1. 0 \in P
    <2> SUFFICES ASSUME NEW T \in SUBSET (1..0) PROVE \E s : IsListOf(s, T)
      OBVIOUS
    <2>1. T = {} /\ Cardinality(T) = 0
      <3>1. T = {}
        OBVIOUS
      <3> QED
        BY <3>1, FS_EmptySet
    <2>2. IsListOf(<<>>, T)
      BY <2>1 DEF IsListOf, ToSet
    <2> QED
      BY <2>2
  <1>2. ASSUME NEW m \in P PROVE m + 1 \in P
    <2> SUFFICES ASSUME NEW T \in SUBSET (1..(m + 1))
                 PROVE  \E s : IsListOf(s, T)
      OBVIOUS
    <2>1. CASE m + 1 \notin T
      <3>1. T \in SUBSET (1..m)
        BY <2>1
      <3> QED
        BY <3>1
    <2>2. CASE m + 1 \in T
      <3> DEFINE U == T \ {m + 1}
                 k == Cardinality(U)
      <3>1. U \in SUBSET (1..m)
        OBVIOUS
      <3>2. PICK s : IsListOf(s, U)
        BY <3>1
      <3>3. IsFiniteSet(1..(m + 1)) /\ IsFiniteSet(1..m)
        BY FS_Interval
      <3>4. IsFiniteSet(T) /\ IsFiniteSet(U) /\ k \in Nat
        BY <3>1, <3>3, FS_Subset, FS_CardinalityType
      <3>5. Cardinality(T) = k + 1
        <4>1. Cardinality(U) = Cardinality(T) - 1
          BY <2>2, <3>4, FS_RemoveElement
        <4>2. Cardinality(T) \in Nat
          BY <3>4, FS_CardinalityType
        <4> QED
          BY <4>1, <4>2
      <3> HIDE DEF U, k
      <3> DEFINE t == [i \in 1..(k + 1) |-> IF i = k + 1 THEN m + 1 ELSE s[i]]
      <3>6. /\ s \in [1..k -> U] /\ ToSet(s) = U
            /\ \A i, j \in 1..k : i < j => s[i] < s[j]
        BY <3>2 DEF IsListOf, k
      <3>7. \A i \in 1..k : t[i] = s[i] /\ s[i] \in U
        BY <3>4, <3>6
      <3>8. t[k + 1] = m + 1
        BY <3>4
      <3>9. \A i \in 1..(k + 1) : i \in 1..k \/ i = k + 1
        BY <3>4
      <3>10. U \subseteq T /\ T = U \cup {m + 1} /\ \A d \in U : d < m + 1
        BY <2>2, <3>1 DEF U
      <3>11. DOMAIN t = 1..(k + 1)
        OBVIOUS
      <3> HIDE DEF t
      <3>12. t \in [1..(k + 1) -> T]
        <4>1. \A i \in 1..(k + 1) : t[i] \in T
          BY <3>7, <3>8, <3>9, <3>10
        <4>2. t = [i \in 1..(k + 1) |-> t[i]]
          BY DEF t
        <4> QED
          BY <4>1, <4>2
      <3>13. ToSet(t) = T
        <4>1. \A d \in U : \E i \in 1..k : s[i] = d
          BY <3>6 DEF ToSet
        <4>2. 1..k \subseteq 1..(k + 1) /\ k + 1 \in 1..(k + 1)
          BY <3>4
        <4>3. \A d \in T : \E i \in 1..(k + 1) : t[i] = d
          BY <3>7, <3>8, <3>10, <4>1, <4>2
        <4> QED
          BY <3>11, <3>12, <4>3 DEF ToSet
      <3>14. ASSUME NEW i \in 1..(k + 1), NEW j \in 1..(k + 1), i < j
             PROVE  t[i] < t[j]
        <4>1. i \in 1..k
          BY <3>4, <3>14
        <4>2. CASE j \in 1..k
          BY <3>6, <3>7, <3>14, <4>1, <4>2
        <4>3. CASE j = k + 1
          BY <3>7, <3>8, <3>10, <4>1, <4>3
        <4> QED
          BY <3>9, <4>2, <4>3
      <3> QED
        BY <3>5, <3>11, <3>12, <3>13, <3>14 DEF IsListOf
    <2> QED
      BY <2>1, <2>2
  <1>3. P \subseteq Nat
    OBVIOUS
  <1> HIDE DEF P
  <1>4. P = Nat
    BY <1>1, <1>2, <1>3, Induction
  <1> QED
    BY <1>4 DEF P

\* InOrder lists the days of a set.
LEMMA InOrderLists ==
    ASSUME NEW n \in Nat, NEW S \in SUBSET (1..n)
    PROVE  IsListOf(InOrder(S), S)
  <1>1. PICK s : IsListOf(s, S)
    BY ListExists
  <1>2. \E t \in [1..Cardinality(S) -> S] :
          /\ ToSet(t) = S
          /\ \A i, j \in DOMAIN t : i < j => t[i] < t[j]
    BY <1>1 DEF IsListOf
  <1> QED
    BY <1>2 DEF IsListOf, InOrder

\* A function on the first numbers is a sequence.
LEMMA FunctionsAreLists ==
    ASSUME NEW S, NEW n \in Nat, NEW f \in [1..n -> S]
    PROVE  f \in Seq(S) /\ Len(f) = n
  OBVIOUS

\* No day twice.
NoneTwice(rows) == \A i, j \in DOMAIN rows : rows[i] = rows[j] => i = j

\* Sorting orders the rows and changes nothing else.
LEMMA SortedRows ==
    ASSUME NEW rows \in Seq(Days), NoneTwice(rows)
    PROVE  /\ Sorted(rows) \in Seq(Days)
           /\ ToSet(Sorted(rows)) = ToSet(rows)
           /\ \A i, j \in DOMAIN Sorted(rows) :
                i < j => Sorted(rows)[i] < Sorted(rows)[j]
  <1> DEFINE n == Len(rows)
             S == ToSet(rows)
             Sorts(place) == \A i, j \in DOMAIN rows :
                               i < j => rows[place[i]] <= rows[place[j]]
             place == CHOOSE place \in Bijection(DOMAIN rows, DOMAIN rows) :
                        Sorts(place)
  <1>1. n \in Nat /\ DOMAIN rows = 1..n /\ LastDay \in Nat /\ Days = 1..LastDay
    BY CalendarAssumption DEF Days
  <1>2. /\ S \in SUBSET (1..LastDay)
        /\ \A i \in 1..n : rows[i] \in S
        /\ \A x \in S : x \in Nat
    BY <1>1 DEF ToSet
  <1>3. PICK s : IsListOf(s, S)
    BY <1>1, <1>2, ListExists
  <1>4. Cardinality(S) = n
    <2>1. rows \in Bijection(1..n, S)
      <3>1. rows \in [1..n -> S]
        BY <1>1, <1>2
      <3>2. \A x \in S : \E i \in 1..n : rows[i] = x
        BY <1>1 DEF ToSet
      <3>3. \A i, j \in 1..n : rows[i] = rows[j] => i = j
        BY <1>1 DEF NoneTwice
      <3> HIDE DEF S, n
      <3> QED
        BY <3>1, <3>2, <3>3 DEF Bijection, Injection, Surjection, IsInjective
    <2>2. ExistsBijection(1..n, S)
      BY <2>1 DEF ExistsBijection
    <2> QED
      BY <1>1, <2>2, FS_CountingElements
  <1> HIDE DEF n, S
  <1>5. /\ s \in [1..n -> S]
        /\ \A x \in S : \E i \in 1..n : s[i] = x
        /\ \A i, j \in 1..n : i < j => s[i] < s[j]
    BY <1>3, <1>4 DEF IsListOf, ToSet
  <1> DEFINE p == [i \in 1..n |-> CHOOSE j \in 1..n : rows[j] = s[i]]
  <1>6. \A i \in 1..n : p[i] \in 1..n /\ rows[p[i]] = s[i]
    <2>1. \A i \in 1..n : \E j \in 1..n : rows[j] = s[i]
      BY <1>1, <1>5 DEF S, ToSet
    <2> QED
      BY <2>1
  <1>7. p \in [1..n -> 1..n]
    BY <1>6
  <1> HIDE DEF p
  <1>8. p \in Bijection(1..n, 1..n)
    <2>1. ASSUME NEW i \in 1..n, NEW j \in 1..n, p[i] = p[j]
          PROVE  i = j
      <3>1. s[i] = s[j]
        BY <1>6, <2>1
      <3>2. s[i] \in Nat /\ s[j] \in Nat
        BY <1>1, <1>2, <1>5
      <3> QED
        BY <1>1, <1>5, <3>1, <3>2
    <2>2. ASSUME NEW j \in 1..n
          PROVE  \E i \in 1..n : p[i] = j
      <3>1. PICK i \in 1..n : s[i] = rows[j]
        BY <1>2, <1>5
      <3>2. rows[p[i]] = rows[j] /\ p[i] \in 1..n
        BY <1>6, <3>1
      <3> QED
        BY <1>1, <3>2 DEF NoneTwice
    <2> QED
      BY <1>7, <2>1, <2>2 DEF Bijection, Injection, Surjection, IsInjective
  <1>9. Sorts(p)
    <2> SUFFICES ASSUME NEW i \in 1..n, NEW j \in 1..n, i < j
                 PROVE  rows[p[i]] <= rows[p[j]]
      BY <1>1
    <2>1. s[i] < s[j] /\ s[i] \in Nat /\ s[j] \in Nat
      BY <1>1, <1>2, <1>5
    <2> QED
      BY <1>6, <2>1
  <1>10. place \in Bijection(1..n, 1..n) /\ Sorts(place)
    <2> HIDE DEF Sorts
    <2> QED
      BY <1>1, <1>8, <1>9
  <1>11. Sorted(rows) = [i \in 1..n |-> rows[place[i]]]
    BY <1>1 DEF Sorted
  <1> HIDE DEF place
  <1>12. /\ \A i \in 1..n : place[i] \in 1..n
         /\ \A i, j \in 1..n : place[i] = place[j] => i = j
         /\ \A j \in 1..n : \E i \in 1..n : place[i] = j
    BY <1>10 DEF Bijection, Injection, Surjection, IsInjective
  <1>13. /\ \A i \in 1..n : rows[i] \in Days
         /\ \A i, j \in 1..n : rows[i] = rows[j] => i = j
    BY <1>1 DEF NoneTwice
  <1>14. Sorted(rows) \in Seq(Days)
    <2>1. Sorted(rows) \in [1..n -> Days]
      BY <1>11, <1>12, <1>13
    <2> QED
      BY <1>1, <2>1
  <1>15. ToSet(Sorted(rows)) = S
    <2>1. DOMAIN Sorted(rows) = 1..n
      BY <1>11
    <2>2. ASSUME NEW x \in S PROVE x \in ToSet(Sorted(rows))
      <3>1. PICK j \in 1..n : rows[j] = x
        BY <1>1 DEF S, ToSet
      <3>2. PICK i \in 1..n : place[i] = j
        BY <1>12
      <3> QED
        BY <1>11, <2>1, <3>1, <3>2 DEF ToSet
    <2>3. ASSUME NEW x \in ToSet(Sorted(rows)) PROVE x \in S
      <3>1. PICK i \in 1..n : Sorted(rows)[i] = x
        BY <2>1, <2>3 DEF ToSet
      <3> QED
        BY <1>2, <1>11, <1>12, <3>1
    <2> QED
      BY <2>2, <2>3
  <1>16. ASSUME NEW i \in 1..n, NEW j \in 1..n, i < j
         PROVE  Sorted(rows)[i] < Sorted(rows)[j]
    <2>1. rows[place[i]] <= rows[place[j]]
      BY <1>1, <1>10, <1>16
    <2>2. i # j
      BY <1>1, <1>16
    <2>3. place[i] # place[j] /\ place[i] \in 1..n /\ place[j] \in 1..n
      BY <1>12, <2>2
    <2>4. rows[place[i]] # rows[place[j]]
      BY <1>13, <2>3
    <2>5. rows[place[i]] \in Nat /\ rows[place[j]] \in Nat
      BY <1>1, <1>13, <2>3
    <2> QED
      BY <1>11, <2>1, <2>4, <2>5
  <1> QED
    BY <1>11, <1>14, <1>15, <1>16 DEF S

\* The turns of the loop over the rows of a month.
Turns(rows, c, days) ==
    rows = [n \in 0..Len(days) |->
              IF n = 0 THEN c.rows
              ELSE IF Wanted(c, days[n]) THEN Append(rows[n - 1], days[n])
              ELSE rows[n - 1]]

\* The recursion is well defined and gives what the loop leaves.
LEMMA WithRowsTurns ==
    ASSUME NEW c, c.rows \in Seq(Days), NEW days \in Seq(Days)
    PROVE  \E rows : Turns(rows, c, days) /\ WithRows(c, days) = rows[Len(days)]
  <1> DEFINE n == Len(days)
             R == Seq(Days)
             step == [x \in (1..n) \X R |->
                        IF Wanted(c, days[x[1]]) THEN Append(x[2], days[x[1]])
                        ELSE x[2]]
  <1>1. n \in Nat /\ c.rows \in R /\ \A i \in 1..n : days[i] \in Days
    OBVIOUS
  <1>2. ASSUME NEW i \in 1..n, NEW r \in R
        PROVE  (IF Wanted(c, days[i]) THEN Append(r, days[i]) ELSE r) \in R
    BY <1>1
  <1> HIDE DEF n, R
  <1>3. \A i \in 1..n : \A r \in R :
          step[<<i, r>>] = IF Wanted(c, days[i]) THEN Append(r, days[i]) ELSE r
    OBVIOUS
  <1>4. step \in [(1..n) \X R -> R]
    BY <1>2
  <1> HIDE DEF step
  <1>5. PICK f : IsMadeBy(f, R, c.rows, n, step)
    <2>1. c.rows \in R /\ n \in Nat
      BY <1>1
    <2> QED
      BY <1>4, <2>1, Recursion
  <1>6. /\ f \in [0..n -> R]
        /\ f[0] = c.rows
        /\ \A i \in 1..n : f[i] = step[<<i, f[i - 1]>>]
    BY <1>5 DEF IsMadeBy
  <1>7. ASSUME NEW i \in 0..n
        PROVE  f[i] = IF i = 0 THEN c.rows
                      ELSE IF Wanted(c, days[i]) THEN Append(f[i - 1], days[i])
                      ELSE f[i - 1]
    <2>1. i # 0 => i \in 1..n /\ f[i - 1] \in R
      BY <1>1, <1>6
    <2>2. i # 0 => step[<<i, f[i - 1]>>] =
                     IF Wanted(c, days[i]) THEN Append(f[i - 1], days[i])
                     ELSE f[i - 1]
      BY <1>3, <2>1
    <2> QED
      BY <1>6, <2>1, <2>2
  <1>8. f = [i \in 0..n |-> f[i]]
    BY <1>6
  <1>9. f = [i \in 0..n |-> IF i = 0 THEN c.rows
                            ELSE IF Wanted(c, days[i])
                                 THEN Append(f[i - 1], days[i])
                            ELSE f[i - 1]]
    BY <1>7, <1>8, Zenon
  <1>10. Turns(f, c, days)
    BY <1>9 DEF Turns, n
  <1> DEFINE rows[k \in 0..Len(days)] ==
               IF k = 0 THEN c.rows
               ELSE IF Wanted(c, days[k]) THEN Append(rows[k - 1], days[k])
               ELSE rows[k - 1]
  <1>11. WithRows(c, days) = rows[Len(days)]
    BY DEF WithRows
  <1>12. rows = CHOOSE g : g = [k \in 0..Len(days) |->
           IF k = 0 THEN c.rows
           ELSE IF Wanted(c, days[k]) THEN Append(g[k - 1], days[k])
           ELSE g[k - 1]]
    OBVIOUS
  <1> HIDE DEF rows
  <1>13. rows = CHOOSE g : Turns(g, c, days)
    BY <1>12 DEF Turns
  <1>14. Turns(rows, c, days)
    BY <1>10, <1>13
  <1> QED
    BY <1>11, <1>14

\* The loop adds the days that are wanted, none of them twice.
LEMMA RowsAdded ==
    ASSUME NEW c, c.rows \in Seq(Days), NoneTwice(c.rows),
           NEW days \in Seq(Days), NoneTwice(days),
           ToSet(days) \cap ToSet(c.rows) = {}
    PROVE  /\ WithRows(c, days) \in Seq(Days)
           /\ NoneTwice(WithRows(c, days))
           /\ ToSet(WithRows(c, days)) =
                ToSet(c.rows) \cup {d \in ToSet(days) : Wanted(c, d)}
  <1> DEFINE last == Len(days)
             Added(n, r) ==
               /\ r \in Seq(Days)
               /\ NoneTwice(r)
               /\ ToSet(r) = ToSet(c.rows)
                               \cup {days[i] : i \in {j \in 1..n : Wanted(c, days[j])}}
  <1>1. PICK rows : Turns(rows, c, days) /\ WithRows(c, days) = rows[last]
    BY WithRowsTurns
  <1> DEFINE P == {n \in Nat : n <= last => Added(n, rows[n])}
  <1>2. last \in Nat /\ DOMAIN days = 1..last /\ \A i \in 1..last : days[i] \in Days
    OBVIOUS
  <1>3. \A n \in 0..last :
          rows[n] = IF n = 0 THEN c.rows
                    ELSE IF Wanted(c, days[n]) THEN Append(rows[n - 1], days[n])
                    ELSE rows[n - 1]
    BY <1>1 DEF Turns
  <1> HIDE DEF last
  <1>4. 0 \in P
    <2>1. 0 \in 0..last /\ 1..0 = {}
      BY <1>2
    <2>2. rows[0] = c.rows
      BY <1>3, <2>1
    <2> QED
      BY <2>1, <2>2
  <1>5. ASSUME NEW n \in P PROVE n + 1 \in P
    <2> SUFFICES ASSUME n + 1 <= last PROVE Added(n + 1, rows[n + 1])
      OBVIOUS
    <2>1. /\ n \in Nat /\ n + 1 \in 0..last /\ n + 1 \in 1..last
          /\ n + 1 # 0 /\ (n + 1) - 1 = n
          /\ \A i \in 1..(n + 1) : i \in 1..n \/ i = n + 1
          /\ 1..n \subseteq 1..(n + 1) /\ n + 1 \in 1..(n + 1)
          /\ 1..n \subseteq 1..last /\ n + 1 \notin 1..n
      BY <1>2
    <2>2. Added(n, rows[n])
      BY <1>2, <2>1
    <2> DEFINE d == days[n + 1]
               r == rows[n]
               W(k) == {days[i] : i \in {j \in 1..k : Wanted(c, days[j])}}
    <2>3. rows[n + 1] = IF Wanted(c, d) THEN Append(r, d) ELSE r
      BY <1>3, <2>1
    <2>4. r \in Seq(Days) /\ NoneTwice(r) /\ ToSet(r) = ToSet(c.rows) \cup W(n)
      BY <2>2
    <2>5. d \in Days
      BY <1>2, <2>1
    <2>6. CASE ~Wanted(c, d)
      <3>1. W(n + 1) = W(n)
        BY <2>1, <2>6
      <3> HIDE DEF W
      <3>2. rows[n + 1] = r
        BY <2>3, <2>6
      <3>3. ToSet(rows[n + 1]) = ToSet(c.rows) \cup W(n + 1)
        BY <2>4, <3>1, <3>2
      <3> QED
        BY <2>4, <3>2, <3>3 DEF W
    <2>7. CASE Wanted(c, d)
      <3>1. W(n + 1) = W(n) \cup {d}
        BY <2>1, <2>7
      <3>2. rows[n + 1] = Append(r, d)
        BY <2>3, <2>7
      <3>3. d \notin ToSet(r)
        <4>1. d \notin ToSet(c.rows)
          BY <1>2, <2>1 DEF ToSet
        <4>2. d \notin W(n)
          BY <1>2, <2>1 DEF NoneTwice
        <4> QED
          BY <2>4, <4>1, <4>2
      <3> HIDE DEF W, d, r
      <3>4. /\ Append(r, d) \in Seq(Days)
            /\ NoneTwice(Append(r, d))
            /\ ToSet(Append(r, d)) = ToSet(r) \cup {d}
        <4>1. /\ Len(r) \in Nat /\ DOMAIN r = 1..Len(r)
              /\ DOMAIN Append(r, d) = 1..(Len(r) + 1)
              /\ \A i \in 1..Len(r) : Append(r, d)[i] = r[i]
              /\ Append(r, d)[Len(r) + 1] = d
          BY <2>4, <2>5
        <4>2. /\ \A i \in 1..(Len(r) + 1) : i \in 1..Len(r) \/ i = Len(r) + 1
              /\ 1..Len(r) \subseteq 1..(Len(r) + 1)
              /\ Len(r) + 1 \in 1..(Len(r) + 1)
          BY <4>1
        <4>3. \A i \in 1..Len(r) : r[i] # d
          BY <3>3, <4>1 DEF ToSet
        <4>4. NoneTwice(Append(r, d))
          <5>1. \A i, j \in 1..Len(r) : r[i] = r[j] => i = j
            BY <2>4, <4>1 DEF NoneTwice
          <5> HIDE DEF NoneTwice
          <5> QED
            BY <4>1, <4>2, <4>3, <5>1 DEF NoneTwice
        <4>5. ToSet(Append(r, d)) = ToSet(r) \cup {d}
          BY <4>1, <4>2 DEF ToSet
        <4> QED
          BY <2>4, <2>5, <4>4, <4>5
      <3>5. ToSet(rows[n + 1]) = ToSet(c.rows) \cup W(n + 1)
        BY <2>4, <3>1, <3>2, <3>4
      <3> QED
        BY <3>2, <3>4, <3>5 DEF W
    <2> QED
      BY <2>6, <2>7
  <1>6. Added(last, rows[last])
    <2>1. P \subseteq Nat
      OBVIOUS
    <2> HIDE DEF P
    <2>2. last \in P
      BY <1>2, <1>4, <1>5, <2>1, Induction
    <2> QED
      BY <1>2, <2>2 DEF P
  <1>7. {days[i] : i \in {j \in 1..last : Wanted(c, days[j])}}
          = {d \in ToSet(days) : Wanted(c, d)}
    BY <1>2 DEF ToSet
  <1> QED
    BY <1>1, <1>6, <1>7

-----------------------------------------------------------------------------
(* What TWSE answers and what the cache holds, when the days in pub have   *)
(* been published.                                                         *)

\* What TWSE had published of a month at some time, each day once.
RightRows(month, days, at, pub) ==
    /\ days \in Seq(Days)
    /\ NoneTwice(days)
    /\ \A d \in ToSet(days) : d \in DOMAIN pub /\ MonthOf[d] = month
    /\ \A d \in DOMAIN pub :
         MonthOf[d] = month /\ pub[d] + Latency < at => d \in ToSet(days)

RightPayload(month, payload, at, pub) ==
    /\ payload \in Payloads
    /\ payload.answer = "rows" => RightRows(month, payload.days, at, pub)

\* An entry is no refusal, and was right when it was stored, a TTL before it
\* expires.
RightEntry(e, pub, now) ==
    /\ e.value.answer # "not OK"
    /\ \E at \in 0..now :
         e.expires_at = at + TTL /\ RightPayload(e.key, e.value, at, pub)

\* The days that are published, and when.
Publications == {pub \in Seq(0..MaxTime) : Len(pub) <= LastDay}

\* The published days are days.
LEMMA PublishedDays ==
    ASSUME NEW pub \in Publications
    PROVE  /\ Len(pub) \in Nat /\ Len(pub) <= LastDay /\ LastDay \in Nat
           /\ DOMAIN pub = 1..Len(pub) /\ DOMAIN pub \subseteq Days
           /\ \A d \in DOMAIN pub : pub[d] \in Nat /\ pub[d] <= MaxTime
           /\ \A d \in Days : d \in Nat
  <1>1. /\ pub \in Seq(0..MaxTime) /\ Len(pub) <= LastDay
        /\ LastDay \in Nat /\ MaxTime \in Nat /\ Days = 1..LastDay
    BY CalendarAssumption, CacheAssumption DEF Publications, Days
  <1>2. Len(pub) \in Nat /\ DOMAIN pub = 1..Len(pub)
    BY <1>1
  <1> QED
    BY <1>1, <1>2

\* A list of days is what TWSE may list for a month, and so is the list in
\* reverse.
LEMMA ListsAreRows ==
    ASSUME NEW pub \in Publications, NEW n \in 0..Len(pub), NEW month, NEW at,
           \A d \in DOMAIN pub : pub[d] + Latency < at => d <= n,
           NEW s, IsListOf(s, {d \in 1..n : MonthOf[d] = month})
    PROVE  /\ RightPayload(month, Payload("rows", s), at, pub)
           /\ RightPayload(month, Payload("rows", Reverse(s)), at, pub)
  <1> DEFINE S == {d \in 1..n : MonthOf[d] = month}
             k == Cardinality(S)
  <1>1. /\ Len(pub) \in Nat /\ LastDay \in Nat /\ Days = 1..LastDay
        /\ n \in Nat /\ n <= Len(pub) /\ n <= LastDay
        /\ DOMAIN pub = 1..Len(pub)
    BY PublishedDays DEF Days
  <1>2. S \subseteq Days /\ S \subseteq DOMAIN pub /\ \A d \in S : d \in Nat
    BY <1>1
  <1>3. k \in 0..LastDay
    <2>1. IsFiniteSet(1..LastDay) /\ Cardinality(1..LastDay) = LastDay
      BY <1>1, FS_Interval
    <2>2. IsFiniteSet(S) /\ Cardinality(S) <= LastDay
      BY <1>1, <1>2, <2>1, FS_Subset
    <2>3. k \in Nat
      BY <2>2, FS_CardinalityType
    <2> QED
      BY <1>1, <2>2, <2>3
  <1>4. /\ \A d \in S : MonthOf[d] = month
        /\ \A d \in DOMAIN pub :
             MonthOf[d] = month /\ pub[d] + Latency < at => d \in S
    BY <1>1
  <1>5. IsListOf(s, S)
    OBVIOUS
  <1> HIDE DEF S
  <1>6. /\ s \in [1..k -> S]
        /\ ToSet(s) = S
        /\ \A i, j \in 1..k : i < j => s[i] < s[j]
    BY <1>5 DEF IsListOf
  <1> HIDE DEF k
  <1>7. ASSUME NEW t \in [1..k -> S], ToSet(t) = S, NoneTwice(t)
        PROVE  RightPayload(month, Payload("rows", t), at, pub)
    <2>1. t \in [1..k -> Days] /\ k \in Nat
      BY <1>1, <1>2, <1>3, <1>7
    <2>2. t \in Seq(Days)
      BY <2>1
    <2>3. Payload("rows", t) \in Payloads
      BY <1>3, <2>1 DEF Payload, Payloads
    <2>4. RightRows(month, t, at, pub)
      BY <1>2, <1>4, <1>7, <2>2 DEF RightRows
    <2> QED
      BY <2>3, <2>4 DEF RightPayload, Payload
  <1>8. \A i, j \in 1..k : s[i] = s[j] => i = j
    <2> SUFFICES ASSUME NEW i \in 1..k, NEW j \in 1..k, s[i] = s[j]
                 PROVE  i = j
      OBVIOUS
    <2>1. s[i] \in Nat /\ s[j] \in Nat
      BY <1>2, <1>6
    <2> QED
      BY <1>3, <1>6, <2>1
  <1>9. NoneTwice(s)
    BY <1>6, <1>8 DEF NoneTwice
  <1> DEFINE r == [i \in 1..k |-> s[(k - i) + 1]]
  <1>10. Reverse(s) = r
    <2>1. Len(s) = k
      BY <1>3, <1>6
    <2> QED
      BY <2>1 DEF Reverse
  <1>11. /\ \A i \in 1..k : (k - i) + 1 \in 1..k /\ (k - ((k - i) + 1)) + 1 = i
         /\ \A i, j \in 1..k : (k - i) + 1 = (k - j) + 1 => i = j
    BY <1>1, <1>3
  <1>12. r \in [1..k -> S]
    BY <1>6, <1>11
  <1>13. NoneTwice(r)
    BY <1>8, <1>11 DEF NoneTwice
  <1>14. ToSet(r) = S
    <2>1. ASSUME NEW d \in S PROVE d \in ToSet(r)
      <3>1. PICK i \in 1..k : s[i] = d
        BY <1>6 DEF ToSet
      <3>2. r[(k - i) + 1] = d
        BY <1>11, <3>1
      <3> HIDE DEF r
      <3> QED
        BY <1>11, <1>12, <3>2 DEF ToSet
    <2> HIDE DEF r
    <2>2. ToSet(r) \subseteq S
      BY <1>12 DEF ToSet
    <2> QED
      BY <2>1, <2>2
  <1> HIDE DEF r
  <1> QED
    BY <1>6, <1>7, <1>9, <1>10, <1>12, <1>13, <1>14

\* No rows.
LEMMA NoRows ==
    /\ <<>> \in Seq(Days)
    /\ NoneTwice(<<>>)
    /\ ToSet(<<>>) = {}
    /\ \A a \in {"RuntimeError", "not OK"} : Payload(a, <<>>) \in Payloads
  <1>1. LastDay \in Nat
    BY CalendarAssumption
  <1>2. 0 \in 0..LastDay
    BY <1>1
  <1>3. <<>> \in [1..0 -> Days]
    <2>1. 1..0 = {}
      OBVIOUS
    <2> QED
      BY <2>1
  <1>4. <<>> \in UNION {[1..n -> Days] : n \in 0..LastDay}
    BY <1>2, <1>3
  <1>5. \A a \in {"RuntimeError", "not OK"} : Payload(a, <<>>) \in Payloads
    BY <1>4 DEF Payload, Payloads
  <1>6. /\ <<>> \in Seq(Days)
        /\ NoneTwice(<<>>)
        /\ ToSet(<<>>) = {}
    BY DEF NoneTwice, ToSet
  <1> QED
    BY <1>5, <1>6

\* Every answer of TWSE is right.
LEMMA AnswersAreRight ==
    ASSUME published \in Publications, time \in Nat, NEW month,
           NEW payload \in Answers(month)
    PROVE  RightPayload(month, payload, time, published)
  <1> DEFINE S(n) == {d \in 1..n : MonthOf[d] = month}
             ascending == {InOrder(S(n)) : n \in PublishedCounts}
  <1>1. \/ \E rows \in ascending : payload = Payload("rows", rows)
        \/ \E rows \in ascending : payload = Payload("rows", Reverse(rows))
        \/ \E a \in {"RuntimeError", "not OK"} : payload = Payload(a, <<>>)
    BY DEF Answers
  <1>2. ASSUME NEW rows \in ascending
        PROVE  /\ RightPayload(month, Payload("rows", rows), time, published)
               /\ RightPayload(month, Payload("rows", Reverse(rows)), time, published)
    <2>1. PICK n \in PublishedCounts : rows = InOrder(S(n))
      OBVIOUS
    <2>2. /\ n \in 0..Len(published) /\ n \in Nat
          /\ \A d \in DOMAIN published : published[d] + Latency < time => d <= n
      BY PublishedDays DEF PublishedCounts
    <2>3. S(n) \in SUBSET (1..n)
      OBVIOUS
    <2>4. IsListOf(InOrder(S(n)), S(n))
      <3> HIDE DEF S
      <3> QED
        BY <2>2, <2>3, InOrderLists
    <2> QED
      BY <2>1, <2>2, <2>4, ListsAreRows
  <1>3. ASSUME NEW a \in {"RuntimeError", "not OK"}
        PROVE  RightPayload(month, Payload(a, <<>>), time, published)
    BY NoRows DEF RightPayload, Payload
  <1> QED
    BY <1>1, <1>2, <1>3

-----------------------------------------------------------------------------
(* What a call knows                                                       *)

\* Due, when the days in pub have been published.
DueOf(c, pub) ==
    {d \in DOMAIN pub \cap (c.start..c.end) :
       /\ pub[d] + Latency < c.began
       /\ pub[d] + TTL + Latency <= c.began
       /\ d \notin NotTraded
       /\ MonthOf[d] \notin c.omitted}

\* The rows are those of the months before the one with the number n.
Gathered(c, pub, n) ==
    /\ c.rows \in Seq(Days)
    /\ NoneTwice(c.rows)
    /\ \A d \in ToSet(c.rows) :
         d \in DOMAIN pub /\ Wanted(c, d) /\ NumberOf(d) < n
    /\ \A d \in DueOf(c, pub) : NumberOf(d) < n => d \in ToSet(c.rows)

\* A call in the loop over the months.
InLoop(c) ==
    /\ c.tool = "prices"
    /\ c.month \in Keys /\ c.end \in Days /\ c.start <= c.end
    /\ NumberOf(c.start) <= MonthNumber(c.month)
    /\ MonthNumber(c.month) <= NumberOf(c.end)
    /\ c.source = "auto" => c.first # "found"

\* The properties of a call that is over.
Complete(c, pub) ==
    c.tool = "prices" /\ c.outcome = "TWSE" =>
      /\ \A i, j \in DOMAIN c.rows : i < j => c.rows[i] < c.rows[j]
      /\ DueOf(c, pub) \subseteq ToSet(c.rows)
      /\ ToSet(c.rows) \subseteq (c.start..c.end) \cap (DOMAIN pub \ NotTraded)

\* Whether a call with source auto may end with the outcome.
MayEndWith(c, outcome) ==
    c.source = "auto" =>
      /\ c.first = "found"
           <=> outcome = IF c.tool = "prices" THEN "FinMind" ELSE "TWSE"
      /\ outcome \in {"HTTPError", "RuntimeError"} =>
           IF c.tool = "prices" THEN c.month # None ELSE c.tpex = outcome
      /\ outcome = "not found" => c.tpex = "none"

FetchOK(c, pub, now) ==
    /\ c \in FetchRecords
    /\ c.began <= now
    /\ c.phase = "finmind" =>
         /\ c.tool = "prices" /\ c.first = "not asked"
         /\ c.rows = <<>> /\ c.omitted = {}
    /\ c.phase \in {"look up", "wait"} =>
         InLoop(c) /\ Gathered(c, pub, MonthNumber(c.month))
    /\ c.phase = "TWSE quote" => c.tool = "quote" /\ c.first = "not asked"
    /\ c.phase = "TPEx quote" =>
         c.tool = "quote" /\ (c.source = "auto" => c.first # "found")
    /\ c.phase = "over" => Complete(c, pub) /\ MayEndWith(c, c.outcome)

\* The parts of a call.
LEMMA FetchFields ==
    ASSUME NEW c \in FetchRecords
    PROVE  /\ c.start \in Days /\ c.end \in Days \cup {None}
           /\ c.source \in {"auto", "finmind", "twse", "tpex"}
           /\ c.tool \in {"prices", "quote"}
           /\ c.rows \in Seq(Days) /\ c.omitted \in SUBSET Keys /\ c.began \in Nat
           /\ c.month \in Keys \cup {None}
  BY DEF FetchRecords

\* A call that raises has not lost an answer that it had.
LEMMA RaisesOK ==
    ASSUME NEW pub, NEW now, NEW c \in FetchRecords, c.began <= now,
           NEW error \in Exceptions, MayEndWith(c, error)
    PROVE  FetchOK(Raises(c, error), pub, now)
  <1> DEFINE d == Raises(c, error)
  <1>1. error \notin {"FinMind", "TWSE", "TPEx"}
    BY DEF Exceptions
  <1>2. /\ d \in FetchRecords
        /\ d.phase = "over" /\ d.outcome = error /\ d.began = c.began
        /\ d.source = c.source /\ d.tool = c.tool /\ d.month = c.month
        /\ d.first = c.first /\ d.tpex = c.tpex
    <2>1. <<>> \in Seq(Days)
      OBVIOUS
    <2> QED
      BY <2>1 DEF Raises, FetchRecords
  <1> HIDE DEF d
  <1>3. Complete(d, pub)
    BY <1>1, <1>2 DEF Complete
  <1>4. MayEndWith(d, d.outcome)
    BY <1>2 DEF MayEndWith
  <1> QED
    BY <1>2, <1>3, <1>4 DEF FetchOK, d

\* A call returns what a source told that has no months.
LEMMA QuickReturnsOK ==
    ASSUME NEW pub, NEW now, NEW c \in FetchRecords, c.began <= now,
           NEW source \in {"FinMind", "TWSE", "TPEx"},
           c.tool = "prices" => source # "TWSE", MayEndWith(c, source)
    PROVE  FetchOK(Returns(c, source, <<>>), pub, now)
  <1> DEFINE d == Returns(c, source, <<>>)
  <1>1. /\ d \in FetchRecords
        /\ d.phase = "over" /\ d.outcome = source /\ d.began = c.began
        /\ d.source = c.source /\ d.tool = c.tool /\ d.month = c.month
        /\ d.first = c.first /\ d.tpex = c.tpex
    <2>1. <<>> \in Seq(Days)
      OBVIOUS
    <2> QED
      BY <2>1 DEF Returns, FetchRecords
  <1> HIDE DEF d
  <1>2. Complete(d, pub)
    BY <1>1 DEF Complete
  <1>3. MayEndWith(d, d.outcome)
    BY <1>1 DEF MayEndWith
  <1> QED
    BY <1>1, <1>2, <1>3 DEF FetchOK, d

\* The loop begins with no rows, and before its first month none are wanted.
LEMMA FetchStockPricesOK ==
    ASSUME today \in Days, NEW pub \in Publications, NEW now,
           NEW c \in FetchRecords, c.began <= now, c.tool = "prices",
           c.rows = <<>>, c.omitted = {}, c.source = "auto" => c.first # "found"
    PROVE  FetchOK(FetchStockPrices(c), pub, now)
  <1> DEFINE resolved == IF c.end = None THEN today ELSE c.end
             d == [c EXCEPT !.phase = "look up", !.end = resolved,
                            !.month = MonthOf[c.start]]
  <1>1. c.start \in Days /\ resolved \in Days
    BY FetchFields
  <1>2. \/ FetchStockPrices(c) = Raises(c, "ValueError")
        \/ resolved >= c.start /\ FetchStockPrices(c) = d
    <2>1. resolved \in Nat /\ c.start \in Nat
      BY <1>1, PublishedDays
    <2> QED
      BY <2>1 DEF FetchStockPrices
  <1>3. FetchOK(Raises(c, "ValueError"), pub, now)
    <2>1. MayEndWith(c, "ValueError")
      BY DEF MayEndWith
    <2> QED
      BY <2>1, RaisesOK DEF Exceptions
  <1>4. ASSUME resolved >= c.start
        PROVE  FetchOK(d, pub, now)
    <2>1. MonthOf[c.start] \in Keys
      BY <1>1, MonthsOfDays
    <2> HIDE DEF resolved
    <2>2. /\ d \in FetchRecords
          /\ d.phase = "look up" /\ d.end = resolved /\ d.start = c.start
          /\ d.month = MonthOf[c.start] /\ d.began = c.began /\ d.tool = c.tool
          /\ d.source = c.source /\ d.first = c.first /\ d.rows = <<>>
      BY <1>1, <2>1 DEF FetchRecords
    <2> HIDE DEF d
    <2>3. /\ d.start \in Days /\ d.end \in Days /\ d.start <= d.end
          /\ MonthNumber(d.month) = NumberOf(d.start)
          /\ NumberOf(d.start) \in Nat /\ NumberOf(d.end) \in Nat
          /\ NumberOf(d.start) <= MonthNumber(d.month)
      <3>1. c.start \in Nat /\ resolved \in Nat
        BY <1>1, PublishedDays
      <3>2. d.start \in Days /\ d.end \in Days /\ d.start <= d.end
        BY <1>1, <1>4, <2>2, <3>1
      <3>3. MonthNumber(d.month) = NumberOf(d.start)
        BY <2>2 DEF NumberOf
      <3>4. NumberOf(d.start) \in Nat /\ NumberOf(d.end) \in Nat
        BY <3>2, MonthsOfDays
      <3> QED
        BY <3>2, <3>3, <3>4
    <2>4. InLoop(d)
      <3>1. NumberOf(d.start) <= NumberOf(d.end)
        BY <2>3, CalendarGoesOn
      <3> QED
        BY <2>1, <2>2, <2>3, <3>1, Zenon DEF InLoop
    <2>5. Gathered(d, pub, MonthNumber(d.month))
      <3>1. ASSUME NEW e \in DueOf(d, pub)
            PROVE  ~(NumberOf(e) < NumberOf(d.start))
        <4>1. e \in Days /\ e \in d.start..d.end
          BY PublishedDays DEF DueOf
        <4>2. e \in Nat /\ d.start \in Nat /\ d.end \in Nat
          BY <2>3, <4>1, PublishedDays
        <4>3. d.start <= e
          BY <4>1, <4>2
        <4>4. NumberOf(d.start) <= NumberOf(e) /\ NumberOf(e) \in Nat
          BY <2>3, <4>1, <4>3, CalendarGoesOn, MonthsOfDays
        <4> QED
          BY <2>3, <4>4
      <3>2. d.rows \in Seq(Days) /\ NoneTwice(d.rows) /\ ToSet(d.rows) = {}
        BY <2>2, NoRows
      <3> QED
        BY <2>3, <3>1, <3>2 DEF Gathered
    <2> QED
      BY <2>2, <2>4, <2>5 DEF FetchOK
  <1> QED
    BY <1>2, <1>3, <1>4

\* The turn for a month is over.
LEMMA NextMonthOK ==
    ASSUME NEW pub \in Publications, NEW now, NEW c \in FetchRecords,
           c.began <= now, InLoop(c),
           Gathered(c, pub, MonthNumber(c.month) + 1)
    PROVE  FetchOK(NextMonth(c), pub, now) /\ NextMonth(c).omitted = c.omitted
  <1> DEFINE next == Following(c.month)
             n == MonthNumber(c.month)
  <1>1. /\ c.start \in Days /\ c.end \in Days /\ c.start <= c.end
        /\ c.month \in Keys /\ c.month \in AllMonths
        /\ MonthOf[c.end] \in AllMonths /\ MonthOf[c.end] \in Keys
        /\ NumberOf(c.start) \in Nat /\ NumberOf(c.end) \in Nat /\ n \in Nat
        /\ NumberOf(c.start) <= n /\ n <= NumberOf(c.end)
        /\ c.tool = "prices" /\ (c.source = "auto" => c.first # "found")
    BY FetchFields, MonthsOfDays, MonthNumbers DEF InLoop
  <1>2. /\ next \in AllMonths /\ MonthNumber(next) = n + 1
        /\ NotAfter(next, MonthOf[c.end]) <=> n + 1 <= NumberOf(c.end)
    <2>1. next \in AllMonths /\ MonthNumber(next) = n + 1
      BY <1>1, MonthNumbers
    <2> HIDE DEF next, n
    <2> QED
      BY <1>1, <2>1, MonthNumbers DEF NumberOf
  <1> HIDE DEF next, n
  <1>3. CASE NotAfter(next, MonthOf[c.end])
    <2> DEFINE d == [c EXCEPT !.phase = "look up", !.month = next]
    <2>1. NextMonth(c) = d
      BY <1>3 DEF NextMonth, next
    <2>2. next \in Keys
      <3>1. NumberOf(c.start) <= MonthNumber(next)
        BY <1>1, <1>2
      <3> QED
        BY <1>1, <1>2, <1>3, <3>1, CalendarGoesOn
    <2>3. /\ d \in FetchRecords
          /\ d.phase = "look up" /\ d.month = next
          /\ d.end = c.end /\ d.start = c.start /\ d.began = c.began
          /\ d.tool = c.tool /\ d.source = c.source /\ d.first = c.first
          /\ d.rows = c.rows /\ d.omitted = c.omitted
      BY <2>2 DEF FetchRecords
    <2> HIDE DEF d
    <2>4. InLoop(d)
      <3>1. NumberOf(c.start) <= n + 1
        BY <1>1
      <3> QED
        BY <1>1, <1>2, <1>3, <2>2, <2>3, <3>1 DEF InLoop
    <2>5. DueOf(d, pub) = DueOf(c, pub)
      BY <2>3 DEF DueOf
    <2>6. Gathered(d, pub, MonthNumber(d.month))
      BY <1>2, <2>3, <2>5 DEF Gathered, Wanted, n
    <2> QED
      BY <2>1, <2>3, <2>4, <2>6 DEF FetchOK
  <1>4. CASE ~NotAfter(next, MonthOf[c.end])
    <2> DEFINE d == Returns(c, "TWSE", Sorted(c.rows))
    <2>1. NextMonth(c) = d
      BY <1>4 DEF NextMonth, next
    <2>2. /\ Sorted(c.rows) \in Seq(Days)
          /\ ToSet(Sorted(c.rows)) = ToSet(c.rows)
          /\ \A i, j \in DOMAIN Sorted(c.rows) :
               i < j => Sorted(c.rows)[i] < Sorted(c.rows)[j]
      BY SortedRows DEF Gathered
    <2>3. /\ d \in FetchRecords
          /\ d.phase = "over" /\ d.outcome = "TWSE" /\ d.month = c.month
          /\ d.end = c.end /\ d.start = c.start /\ d.began = c.began
          /\ d.tool = c.tool /\ d.source = c.source /\ d.first = c.first
          /\ d.rows = Sorted(c.rows) /\ d.omitted = c.omitted
      BY <2>2 DEF FetchRecords, Returns
    <2> HIDE DEF d
    <2>4. DueOf(d, pub) = DueOf(c, pub)
      BY <2>3 DEF DueOf
    <2>5. ASSUME NEW e \in DueOf(c, pub) PROVE e \in ToSet(c.rows)
      <3>1. e \in Days /\ e \in c.start..c.end
        BY PublishedDays DEF DueOf
      <3>2. e \in Nat /\ c.start \in Nat /\ c.end \in Nat
        BY <1>1, <3>1, PublishedDays
      <3>3. e <= c.end
        BY <3>1, <3>2
      <3>4. NumberOf(e) <= NumberOf(c.end) /\ NumberOf(e) \in Nat
        BY <1>1, <3>1, <3>3, CalendarGoesOn, MonthsOfDays
      <3>5. NumberOf(e) < n + 1
        BY <1>1, <1>2, <1>4, <3>4
      <3> QED
        BY <3>5 DEF Gathered, n
    <2>6. ToSet(c.rows) \subseteq (c.start..c.end) \cap (DOMAIN pub \ NotTraded)
      <3> SUFFICES ASSUME NEW e \in ToSet(c.rows)
                   PROVE  e \in c.start..c.end /\ e \in DOMAIN pub /\ e \notin NotTraded
        OBVIOUS
      <3>1. e \in DOMAIN pub /\ Wanted(c, e)
        BY DEF Gathered
      <3>2. e \in Nat /\ c.start \in Nat /\ c.end \in Nat
        BY <1>1, <3>1, PublishedDays
      <3> QED
        BY <3>1, <3>2 DEF Wanted
    <2>7. Complete(d, pub)
      BY <2>2, <2>3, <2>4, <2>5, <2>6 DEF Complete
    <2>8. MayEndWith(d, d.outcome)
      BY <1>1, <2>3 DEF MayEndWith
    <2> QED
      BY <2>1, <2>3, <2>7, <2>8 DEF FetchOK
  <1> QED
    BY <1>3, <1>4

\* An answer for a month, whether it comes from TWSE or from the cache, if it
\* was right when what was due had been published.
LEMMA AfterMonthOK ==
    ASSUME NEW pub \in Publications, NEW now, NEW c,
           FetchOK(c, pub, now), c.phase \in {"look up", "wait"},
           NEW payload, NEW at, RightPayload(c.month, payload, at, pub),
           \A d \in DueOf(c, pub) : pub[d] + Latency < at
    PROVE  /\ FetchOK(AfterMonth(c, payload), pub, now)
           /\ payload.answer # "not OK" =>
                AfterMonth(c, payload).omitted = c.omitted
  <1> DEFINE n == MonthNumber(c.month)
  <1>1. /\ c \in FetchRecords /\ c.began <= now
        /\ InLoop(c) /\ Gathered(c, pub, n)
    BY DEF FetchOK
  <1>2. c.month \in Keys /\ c.month \in AllMonths /\ n \in Nat
    BY <1>1, MonthsOfDays, MonthNumbers DEF InLoop
  <1> HIDE DEF n
  <1>3. payload.answer \in {"rows", "RuntimeError", "not OK"}
    BY DEF RightPayload, Payloads
  <1>4. CASE payload.answer = "rows"
    <2> DEFINE days == payload.days
               d == [c EXCEPT !.rows = WithRows(c, days)]
    <2>1. AfterMonth(c, payload) = NextMonth(d)
      BY <1>4 DEF AfterMonth
    <2>2. RightRows(c.month, days, at, pub)
      BY <1>4 DEF RightPayload
    <2> HIDE DEF days
    <2>3. /\ days \in Seq(Days) /\ NoneTwice(days)
          /\ \A e \in ToSet(days) :
               e \in DOMAIN pub /\ e \in Days /\ MonthOf[e] = c.month
               /\ NumberOf(e) = n
      BY <2>2, PublishedDays DEF RightRows, NumberOf, n
    <2>4. /\ c.rows \in Seq(Days) /\ NoneTwice(c.rows)
          /\ \A e \in ToSet(c.rows) :
               e \in DOMAIN pub /\ Wanted(c, e) /\ NumberOf(e) < n /\ e \in Days
      BY <1>1, PublishedDays DEF Gathered
    <2>5. ToSet(days) \cap ToSet(c.rows) = {}
      <3> SUFFICES ASSUME NEW e \in ToSet(days), e \in ToSet(c.rows)
                   PROVE  FALSE
        OBVIOUS
      <3>1. NumberOf(e) = n /\ NumberOf(e) < n
        BY <2>3, <2>4
      <3> QED
        BY <1>2, <3>1, Below
    <2> DEFINE rows == WithRows(c, days)
    <2>6. /\ rows \in Seq(Days) /\ NoneTwice(rows)
          /\ ToSet(rows) = ToSet(c.rows) \cup {e \in ToSet(days) : Wanted(c, e)}
      BY <2>3, <2>4, <2>5, RowsAdded
    <2>7. /\ d \in FetchRecords
          /\ d.month = c.month /\ d.end = c.end /\ d.start = c.start
          /\ d.began = c.began /\ d.tool = c.tool /\ d.source = c.source
          /\ d.first = c.first /\ d.rows = rows /\ d.omitted = c.omitted
      BY <1>1, <2>6 DEF FetchRecords
    <2> HIDE DEF d, rows
    <2>8. InLoop(d)
      BY <1>1, <2>7 DEF InLoop
    <2>9. DueOf(d, pub) = DueOf(c, pub)
      BY <2>7 DEF DueOf
    <2>10. ASSUME NEW e \in ToSet(rows)
           PROVE  e \in DOMAIN pub /\ Wanted(d, e) /\ NumberOf(e) < n + 1
      <3>1. /\ e \in DOMAIN pub /\ Wanted(c, e) /\ e \in Days
            /\ NumberOf(e) < n \/ NumberOf(e) = n
        BY <2>3, <2>4, <2>6
      <3>2. NumberOf(e) \in Nat
        BY <3>1, MonthsOfDays
      <3>3. Wanted(d, e)
        BY <2>7, <3>1 DEF Wanted
      <3> QED
        BY <1>2, <3>1, <3>2, <3>3, Below
    <2>11. ASSUME NEW e \in DueOf(c, pub), NumberOf(e) < n + 1
           PROVE  e \in ToSet(rows)
      <3>1. /\ e \in DOMAIN pub /\ e \in Days /\ e \in c.start..c.end
            /\ e \notin NotTraded /\ pub[e] + Latency < at
        BY PublishedDays DEF DueOf
      <3>2. NumberOf(e) \in Nat /\ MonthOf[e] \in AllMonths
        BY <3>1, MonthsOfDays
      <3>3. CASE NumberOf(e) < n
        <4>1. e \in ToSet(c.rows)
          BY <1>1, <3>3 DEF Gathered
        <4> QED
          BY <2>6, <4>1
      <3>4. CASE NumberOf(e) = n
        <4>1. MonthOf[e] = c.month
          BY <1>2, <3>2, <3>4, MonthNumbers DEF NumberOf, n
        <4>2. e \in ToSet(days)
          BY <2>2, <3>1, <4>1 DEF RightRows
        <4>3. Wanted(c, e)
          <5>1. c.start \in Nat /\ c.end \in Nat /\ e \in Nat
            BY <1>1, <3>1, FetchFields, PublishedDays DEF InLoop
          <5>2. c.start <= e /\ e <= c.end
            BY <3>1, <5>1, Between
          <5> QED
            BY <3>1, <5>2 DEF Wanted
        <4> QED
          BY <2>6, <4>2, <4>3
      <3> QED
        BY <1>2, <2>11, <3>2, <3>3, <3>4, Below
    <2>12. Gathered(d, pub, MonthNumber(d.month) + 1)
      <3>1. MonthNumber(d.month) = n
        BY <2>7 DEF n
      <3> QED
        BY <2>6, <2>7, <2>9, <2>10, <2>11, <3>1 DEF Gathered
    <2>13. d.began <= now
      BY <1>1, <2>7
    <2> QED
      BY <2>1, <2>7, <2>8, <2>12, <2>13, NextMonthOK
  <1>5. CASE payload.answer = "not OK"
    <2> DEFINE d == [c EXCEPT !.omitted = @ \cup {c.month}]
    <2>1. AfterMonth(c, payload) = NextMonth(d)
      BY <1>5 DEF AfterMonth, Skip
    <2>2. /\ d \in FetchRecords
          /\ d.month = c.month /\ d.end = c.end /\ d.start = c.start
          /\ d.began = c.began /\ d.tool = c.tool /\ d.source = c.source
          /\ d.first = c.first /\ d.rows = c.rows
          /\ d.omitted = c.omitted \cup {c.month}
      BY <1>1, <1>2 DEF FetchRecords
    <2> HIDE DEF d
    <2>3. InLoop(d)
      BY <1>1, <2>2 DEF InLoop
    <2>4. ASSUME NEW e \in DueOf(d, pub), NumberOf(e) < n + 1
          PROVE  e \in ToSet(c.rows)
      <3>1. e \in DueOf(c, pub) /\ e \in DOMAIN pub /\ MonthOf[e] # c.month
        BY <2>2 DEF DueOf
      <3>2. NumberOf(e) \in Nat /\ MonthOf[e] \in AllMonths
        BY <3>1, MonthsOfDays, PublishedDays
      <3>3. NumberOf(e) # n
        BY <1>2, <3>1, <3>2, MonthNumbers DEF NumberOf, n
      <3>4. NumberOf(e) < n
        BY <1>2, <2>4, <3>2, <3>3, Below
      <3> QED
        BY <1>1, <3>1, <3>4 DEF Gathered
    <2>5. ASSUME NEW e \in ToSet(c.rows)
          PROVE  e \in DOMAIN pub /\ Wanted(d, e) /\ NumberOf(e) < n + 1
      <3>1. e \in DOMAIN pub /\ Wanted(c, e) /\ NumberOf(e) < n
        BY <1>1 DEF Gathered
      <3>2. NumberOf(e) \in Nat
        BY <3>1, MonthsOfDays, PublishedDays
      <3>3. Wanted(d, e)
        BY <2>2, <3>1 DEF Wanted
      <3> QED
        BY <1>2, <3>1, <3>2, <3>3, Below
    <2>6. Gathered(d, pub, MonthNumber(d.month) + 1)
      <3>1. MonthNumber(d.month) = n
        BY <2>2 DEF n
      <3>2. c.rows \in Seq(Days) /\ NoneTwice(c.rows)
        BY <1>1 DEF Gathered
      <3> QED
        BY <2>2, <2>4, <2>5, <3>1, <3>2 DEF Gathered
    <2>7. d.began <= now
      BY <1>1, <2>2
    <2> QED
      BY <1>5, <2>1, <2>2, <2>3, <2>6, <2>7, NextMonthOK
  <1>6. CASE payload.answer = "RuntimeError"
    <2>1. AfterMonth(c, payload) = Raises(c, "RuntimeError")
      BY <1>6 DEF AfterMonth
    <2>2. MayEndWith(c, "RuntimeError")
      BY <1>1, PayloadsAssumption DEF MayEndWith, InLoop
    <2>3. Raises(c, "RuntimeError").omitted = c.omitted
      BY <1>1 DEF Raises, FetchRecords
    <2> QED
      BY <1>1, <2>1, <2>2, <2>3, RaisesOK DEF Exceptions
  <1> QED
    BY <1>3, <1>4, <1>5, <1>6

\* What FinMind told, or failed to.
LEMMA AfterFinMindOK ==
    ASSUME today \in Days, NEW pub \in Publications, NEW now, NEW c,
           FetchOK(c, pub, now), c.phase = "finmind", NEW answer \in QuickAnswers
    PROVE  FetchOK(AfterFinMind(c, answer), pub, now)
  <1> DEFINE told == [c EXCEPT !.first = answer]
  <1>1. /\ c \in FetchRecords /\ c.began <= now
        /\ c.tool = "prices" /\ c.rows = <<>> /\ c.omitted = {}
    BY DEF FetchOK
  <1>2. /\ told \in FetchRecords /\ told.began <= now
        /\ told.tool = "prices" /\ told.rows = <<>> /\ told.omitted = {}
        /\ told.first = answer /\ told.source = c.source /\ told.month = c.month
    BY <1>1 DEF FetchRecords
  <1>3. AfterFinMind(c, answer) =
          CASE answer = "found" -> Returns(told, "FinMind", <<>>)
            [] FallsBack(c, answer) -> FetchStockPrices(told)
            [] answer = "none" /\ c.source # "auto" ->
                 Returns(told, "FinMind", <<>>)
            [] OTHER -> Raises(told, answer)
    BY DEF AfterFinMind
  <1> HIDE DEF told
  <1>4. CASE answer = "found"
    <2>1. MayEndWith(told, "FinMind")
      BY <1>2, <1>4 DEF MayEndWith
    <2>2. AfterFinMind(c, answer) = Returns(told, "FinMind", <<>>)
      BY <1>3, <1>4 DEF FallsBack, Caught
    <2> QED
      BY <1>2, <2>1, <2>2, QuickReturnsOK
  <1>5. CASE FallsBack(c, answer)
    <2>1. answer # "found" /\ answer \in {"none", "HTTPError", "RuntimeError"}
      BY <1>5 DEF FallsBack, Caught
    <2>2. AfterFinMind(c, answer) = FetchStockPrices(told)
      BY <1>3, <1>5, <2>1 DEF FallsBack
    <2> QED
      BY <1>2, <2>1, <2>2, FetchStockPricesOK
  <1>6. CASE answer = "none" /\ c.source # "auto"
    <2>1. MayEndWith(told, "FinMind")
      BY <1>2, <1>6 DEF MayEndWith
    <2>2. AfterFinMind(c, answer) = Returns(told, "FinMind", <<>>)
      BY <1>3, <1>6 DEF FallsBack
    <2> QED
      BY <1>2, <2>1, <2>2, QuickReturnsOK
  <1>7. CASE answer # "found" /\ ~FallsBack(c, answer)
             /\ ~(answer = "none" /\ c.source # "auto")
    <2>1. AfterFinMind(c, answer) = Raises(told, answer)
      BY <1>3, <1>7
    <2>2. /\ answer \in {"HTTPError", "RuntimeError", "ValueError"}
          /\ c.source = "auto" => answer = "ValueError"
      BY <1>7 DEF FallsBack, Caught, QuickAnswers
    <2>3. MayEndWith(told, answer)
      BY <1>2, <2>2 DEF MayEndWith
    <2> QED
      BY <1>2, <2>1, <2>2, <2>3, RaisesOK DEF Exceptions
  <1> QED
    BY <1>4, <1>5, <1>6, <1>7

\* What TWSE told of the quote.
LEMMA AfterTwseQuoteOK ==
    ASSUME NEW pub, NEW now, NEW c,
           FetchOK(c, pub, now), c.phase = "TWSE quote", NEW answer \in QuickAnswers
    PROVE  FetchOK(AfterTwseQuote(c, answer), pub, now)
  <1> DEFINE told == [c EXCEPT !.first = answer]
  <1>1. c \in FetchRecords /\ c.began <= now /\ c.tool = "quote"
    BY DEF FetchOK
  <1>2. /\ told \in FetchRecords /\ told.began <= now /\ told.tool = "quote"
        /\ told.first = answer /\ told.source = c.source
    BY <1>1 DEF FetchRecords
  <1>3. AfterTwseQuote(c, answer) =
          CASE answer = "found" -> Returns(told, "TWSE", <<>>)
            [] FallsBack(c, answer) -> [told EXCEPT !.phase = "TPEx quote"]
            [] answer = "none" /\ c.source # "auto" -> Raises(told, "not found")
            [] OTHER -> Raises(told, answer)
    BY DEF AfterTwseQuote
  <1> HIDE DEF told
  <1>4. CASE answer = "found"
    <2>1. MayEndWith(told, "TWSE")
      BY <1>2, <1>4 DEF MayEndWith
    <2>2. AfterTwseQuote(c, answer) = Returns(told, "TWSE", <<>>)
      BY <1>3, <1>4 DEF FallsBack, Caught
    <2> QED
      BY <1>2, <2>1, <2>2, QuickReturnsOK
  <1>5. CASE FallsBack(c, answer)
    <2> DEFINE d == [told EXCEPT !.phase = "TPEx quote"]
    <2>1. answer # "found" /\ answer \in {"none", "HTTPError", "RuntimeError"}
      BY <1>5 DEF FallsBack, Caught
    <2>2. AfterTwseQuote(c, answer) = d
      BY <1>3, <1>5, <2>1 DEF FallsBack
    <2>3. /\ d \in FetchRecords /\ d.began <= now /\ d.tool = "quote"
          /\ d.phase = "TPEx quote" /\ d.first = answer
      BY <1>2 DEF FetchRecords
    <2> HIDE DEF d
    <2> QED
      BY <2>1, <2>2, <2>3 DEF FetchOK
  <1>6. CASE answer = "none" /\ c.source # "auto"
    <2>1. MayEndWith(told, "not found")
      BY <1>2, <1>6 DEF MayEndWith
    <2>2. AfterTwseQuote(c, answer) = Raises(told, "not found")
      BY <1>3, <1>6 DEF FallsBack
    <2> QED
      BY <1>2, <2>1, <2>2, RaisesOK DEF Exceptions
  <1>7. CASE answer # "found" /\ ~FallsBack(c, answer)
             /\ ~(answer = "none" /\ c.source # "auto")
    <2>1. AfterTwseQuote(c, answer) = Raises(told, answer)
      BY <1>3, <1>7
    <2>2. /\ answer \in {"HTTPError", "RuntimeError", "ValueError"}
          /\ c.source = "auto" => answer = "ValueError"
      BY <1>7 DEF FallsBack, Caught, QuickAnswers
    <2>3. MayEndWith(told, answer)
      BY <1>2, <2>2 DEF MayEndWith
    <2> QED
      BY <1>2, <2>1, <2>2, <2>3, RaisesOK DEF Exceptions
  <1> QED
    BY <1>4, <1>5, <1>6, <1>7

\* What TPEx told of the quote.
LEMMA AfterTpexQuoteOK ==
    ASSUME NEW pub, NEW now, NEW c,
           FetchOK(c, pub, now), c.phase = "TPEx quote", NEW answer \in QuickAnswers
    PROVE  FetchOK(AfterTpexQuote(c, answer), pub, now)
  <1> DEFINE told == [c EXCEPT !.tpex = answer]
  <1>1. /\ c \in FetchRecords /\ c.began <= now /\ c.tool = "quote"
        /\ c.source = "auto" => c.first # "found"
    BY DEF FetchOK
  <1>2. /\ told \in FetchRecords /\ told.began <= now /\ told.tool = "quote"
        /\ told.tpex = answer /\ told.source = c.source /\ told.first = c.first
    BY <1>1 DEF FetchRecords
  <1>3. AfterTpexQuote(c, answer) =
          CASE answer = "found" -> Returns(told, "TPEx", <<>>)
            [] answer = "none" -> Raises(told, "not found")
            [] OTHER -> Raises(told, answer)
    BY DEF AfterTpexQuote
  <1> HIDE DEF told
  <1>4. CASE answer = "found"
    <2>1. MayEndWith(told, "TPEx")
      BY <1>1, <1>2 DEF MayEndWith
    <2> QED
      BY <1>2, <1>3, <1>4, <2>1, QuickReturnsOK
  <1>5. CASE answer = "none"
    <2>1. MayEndWith(told, "not found")
      BY <1>1, <1>2, <1>5 DEF MayEndWith
    <2> QED
      BY <1>2, <1>3, <1>5, <2>1, RaisesOK DEF Exceptions
  <1>6. CASE answer \in {"HTTPError", "RuntimeError", "ValueError"}
    <2>1. MayEndWith(told, answer)
      BY <1>1, <1>2, <1>6 DEF MayEndWith
    <2> QED
      BY <1>2, <1>3, <1>6, <2>1, RaisesOK DEF Exceptions
  <1> QED
    BY <1>4, <1>5, <1>6 DEF QuickAnswers

-----------------------------------------------------------------------------
(* The invariant of the prices                                             *)

MarketOK ==
    /\ time \in 0..MaxTime
    /\ today \in Days
    /\ published \in Publications
    /\ Len(published) <= today

PricesInv ==
    /\ CacheTypeOK
    /\ MarketOK
    /\ \A e \in ToSet(entries) : RightEntry(e, published, time)
    /\ FetchOK(fetch, published, time)

\* What a call knows stays right when time passes and TWSE publishes another
\* day, which is due for no call that has begun.
LEMMA LaterOK ==
    ASSUME NEW pub \in Publications, NEW later \in Publications,
           NEW now \in Nat, NEW then \in Nat, now <= then,
           DOMAIN pub \subseteq DOMAIN later,
           \A d \in DOMAIN pub : later[d] = pub[d],
           \A d \in DOMAIN later : d \notin DOMAIN pub => now <= later[d]
    PROVE  /\ \A c : FetchOK(c, pub, now) => FetchOK(c, later, then)
           /\ \A e : RightEntry(e, pub, now) => RightEntry(e, later, then)
  <1>1. ASSUME NEW at \in Nat, at <= now, NEW d \in DOMAIN later,
               later[d] + Latency < at
        PROVE  d \in DOMAIN pub /\ pub[d] + Latency < at
    <2>1. later[d] \in Nat /\ Latency \in Nat
      BY PublishedDays, CalendarAssumption
    <2>2. d \in DOMAIN pub
      BY <1>1, <2>1
    <2> QED
      BY <1>1, <2>2
  <1>2. ASSUME NEW c, FetchOK(c, pub, now)
        PROVE  FetchOK(c, later, then)
    <2>1. c \in FetchRecords /\ c.began \in Nat /\ c.began <= now
      BY <1>2, FetchFields DEF FetchOK
    <2>2. DueOf(c, later) \subseteq DueOf(c, pub)
      <3> SUFFICES ASSUME NEW d \in DueOf(c, later) PROVE d \in DueOf(c, pub)
        OBVIOUS
      <3>1. d \in DOMAIN later /\ later[d] + Latency < c.began
        BY DEF DueOf
      <3>2. d \in DOMAIN pub /\ later[d] = pub[d]
        BY <1>1, <2>1, <3>1
      <3> QED
        BY <3>2 DEF DueOf
    <2>3. ASSUME NEW n, Gathered(c, pub, n) PROVE Gathered(c, later, n)
      BY <2>2, <2>3 DEF Gathered
    <2>4. Complete(c, pub) => Complete(c, later)
      BY <2>2 DEF Complete
    <2>5. c.began <= then
      BY <2>1
    <2> QED
      BY <1>2, <2>3, <2>4, <2>5 DEF FetchOK
  <1>3. ASSUME NEW e, RightEntry(e, pub, now)
        PROVE  RightEntry(e, later, then)
    <2>1. PICK at \in 0..now :
            e.expires_at = at + TTL /\ RightPayload(e.key, e.value, at, pub)
      BY <1>3 DEF RightEntry
    <2>2. at \in Nat /\ at <= now /\ at \in 0..then
      OBVIOUS
    <2>3. ASSUME NEW month, NEW days, RightRows(month, days, at, pub)
          PROVE  RightRows(month, days, at, later)
      BY <1>1, <2>2, <2>3 DEF RightRows
    <2>4. RightPayload(e.key, e.value, at, later)
      BY <2>1, <2>3 DEF RightPayload
    <2> QED
      BY <1>3, <2>1, <2>2, <2>4 DEF RightEntry
  <1> QED
    BY <1>2, <1>3

\* A step of the call that is followed, or of none, while the day stays and
\* nothing is published.
LEMMA FetchMoves ==
    ASSUME PricesInv, NEW c, FetchOK(c, published, time), fetch' = c,
           UNCHANGED <<today, published>>, time' = time,
           CacheTypeOK', \A e \in ToSet(entries') : RightEntry(e, published, time)
    PROVE  PricesInv'
  BY DEF PricesInv, MarketOK

\* The cache is left alone.
LEMMA QuietCache ==
    ASSUME PricesInv, UNCHANGED cacheVars
    PROVE  /\ time' = time /\ CacheTypeOK'
           /\ \A e \in ToSet(entries') : RightEntry(e, published, time)
  BY CacheUnchanged DEF PricesInv, cacheVars

\* A lookup by anybody leaves entries that are right.
LEMMA LookUpKeepsEntries ==
    ASSUME PricesInv, NEW month, Get(month)
    PROVE  /\ time' = time /\ CacheTypeOK'
           /\ \A e \in ToSet(entries') : RightEntry(e, published, time)
  BY GetKeeps DEF PricesInv, Get

\* So does the answer that anybody gets.
LEMMA StoreKeepsEntries ==
    ASSUME PricesInv, NEW month \in Keys, NEW payload \in Answers(month),
           Store(month, payload)
    PROVE  /\ time' = time /\ CacheTypeOK'
           /\ \A e \in ToSet(entries') : RightEntry(e, published, time)
  <1>1. CASE ~Cacheable(payload)
    BY <1>1, QuietCache DEF Store
  <1>2. CASE Cacheable(payload)
    <2>1. Set(month, payload)
      BY <1>2 DEF Store
    <2>2. RightPayload(month, payload, time, published)
      BY AnswersAreRight DEF PricesInv, MarketOK
    <2>3. payload \in Values
      BY <2>2, PayloadsAssumption DEF RightPayload
    <2>4. /\ CacheTypeOK'
          /\ \A e \in ToSet(entries') :
               \/ e \in ToSet(entries)
               \/ /\ e.key = month /\ e.value = payload
                  /\ e.expires_at = time + TTL
      BY <2>1, <2>3, SetKeeps DEF PricesInv
    <2>5. time \in 0..time
      BY DEF PricesInv, MarketOK
    <2>6. ASSUME NEW e \in ToSet(entries') PROVE RightEntry(e, published, time)
      <3>1. CASE e \in ToSet(entries)
        BY <3>1 DEF PricesInv
      <3>2. CASE e.key = month /\ e.value = payload /\ e.expires_at = time + TTL
        BY <1>2, <2>2, <2>5, <3>2 DEF RightEntry, Cacheable
      <3> QED
        BY <2>4, <3>1, <3>2
    <2>7. time' = time
      BY <2>1 DEF Set
    <2> QED
      BY <2>4, <2>6, <2>7
  <1> QED
    BY <1>1, <1>2

\* What a lookup finds was right at a time at which all that is due had been
\* published.
LEMMA HitsAreRight ==
    ASSUME PricesInv, NEW month, Lookup(month) # None
    PROVE  /\ Lookup(month).answer # "not OK"
           /\ \E at \in Nat :
                /\ RightPayload(month, Lookup(month), at, published)
                /\ \A d \in DueOf(fetch, published) : published[d] + Latency < at
  <1>1. PICK e \in ToSet(entries) :
          e.key = month /\ e.value = Lookup(month) /\ ~Expired(e)
    BY LookingUp
  <1>2. RightEntry(e, published, time)
    BY DEF PricesInv
  <1>3. PICK at \in 0..time :
          e.expires_at = at + TTL /\ RightPayload(e.key, e.value, at, published)
    BY <1>2 DEF RightEntry
  <1>4. at \in Nat /\ TTL \in Nat /\ Latency \in Nat /\ time \in Nat
    BY CacheAssumption, CalendarAssumption DEF PricesInv, MarketOK
  <1>5. time < at + TTL
    BY <1>1, <1>3, <1>4 DEF Expired
  <1>6. ASSUME NEW d \in DueOf(fetch, published)
        PROVE  published[d] + Latency < at
    <2>1. fetch.began \in Nat /\ fetch.began <= time
      BY FetchFields DEF PricesInv, FetchOK
    <2>2. published[d] \in Nat
      BY PublishedDays DEF PricesInv, MarketOK, DueOf
    <2>3. published[d] + TTL + Latency <= fetch.began
      BY DEF DueOf
    <2> QED
      BY <1>4, <1>5, <2>1, <2>2, <2>3
  <1> QED
    BY <1>1, <1>2, <1>3, <1>4, <1>6 DEF RightEntry

\* A hit goes on as an answer does, and leaves no month out.
LEMMA LookUpKeeps ==
    ASSUME PricesInv, LookUp
    PROVE  PricesInv' /\ fetch'.omitted = fetch.omitted
  <1> DEFINE hit == Lookup(fetch.month)
             c == IF hit # None THEN AfterMonth(fetch, hit)
                  ELSE [fetch EXCEPT !.phase = "wait"]
  <1>1. /\ fetch.phase = "look up"
        /\ fetch' = c
        /\ Get(fetch.month)
        /\ UNCHANGED <<today, published>>
    BY DEF LookUp
  <1>2. FetchOK(fetch, published, time) /\ published \in Publications
    BY DEF PricesInv, MarketOK
  <1>3. FetchOK(c, published, time) /\ c.omitted = fetch.omitted
    <2>1. CASE hit # None
      <3>1. hit.answer # "not OK"
        BY <2>1, HitsAreRight
      <3>2. PICK at \in Nat :
              /\ RightPayload(fetch.month, hit, at, published)
              /\ \A d \in DueOf(fetch, published) : published[d] + Latency < at
        BY <2>1, HitsAreRight
      <3>3. c = AfterMonth(fetch, hit)
        BY <2>1
      <3> HIDE DEF c, hit
      <3>4. /\ FetchOK(AfterMonth(fetch, hit), published, time)
            /\ hit.answer # "not OK" =>
                 AfterMonth(fetch, hit).omitted = fetch.omitted
        BY <1>1, <1>2, <3>2, AfterMonthOK
      <3> QED
        BY <3>1, <3>3, <3>4
    <2>2. CASE hit = None
      <3> DEFINE d == [fetch EXCEPT !.phase = "wait"]
      <3>1. c = d
        BY <2>2
      <3>2. fetch \in FetchRecords
        BY <1>2 DEF FetchOK
      <3>3. /\ d \in FetchRecords /\ d.phase = "wait" /\ d.tool = fetch.tool
            /\ d.month = fetch.month /\ d.end = fetch.end /\ d.start = fetch.start
            /\ d.source = fetch.source /\ d.first = fetch.first
            /\ d.rows = fetch.rows /\ d.began = fetch.began
            /\ d.omitted = fetch.omitted
        BY <3>2 DEF FetchRecords
      <3> HIDE DEF c, hit, d
      <3>4. InLoop(fetch) /\ Gathered(fetch, published, MonthNumber(fetch.month))
        BY <1>1, <1>2 DEF FetchOK
      <3>5. DueOf(d, published) = DueOf(fetch, published)
        BY <3>3 DEF DueOf
      <3>6. InLoop(d)
        BY <3>3, <3>4 DEF InLoop
      <3>7. Gathered(d, published, MonthNumber(d.month))
        BY <3>3, <3>4, <3>5 DEF Gathered, Wanted
      <3> QED
        BY <1>2, <3>1, <3>3, <3>6, <3>7 DEF FetchOK
    <2> QED
      BY <2>1, <2>2
  <1> HIDE DEF c
  <1>4. /\ time' = time /\ CacheTypeOK'
        /\ \A e \in ToSet(entries') : RightEntry(e, published, time)
    BY <1>1, LookUpKeepsEntries
  <1>5. PricesInv'
    BY <1>1, <1>3, <1>4, FetchMoves
  <1> QED
    BY <1>1, <1>3, <1>5

\* An answer of TWSE has what is due.
LEMMA TwseAnswerKeeps ==
    ASSUME PricesInv, TwseAnswer
    PROVE  PricesInv'
  <1>1. PICK payload \in Answers(fetch.month) :
          /\ fetch' = AfterMonth(fetch, payload)
          /\ Store(fetch.month, payload)
    BY DEF TwseAnswer
  <1>2. fetch.phase = "wait" /\ UNCHANGED <<today, published>>
    BY DEF TwseAnswer
  <1>3. /\ FetchOK(fetch, published, time) /\ published \in Publications
        /\ time \in Nat
    BY DEF PricesInv, MarketOK
  <1>4. fetch \in FetchRecords /\ fetch.began <= time /\ InLoop(fetch)
    BY <1>2, <1>3 DEF FetchOK
  <1>5. fetch.month \in Keys
    BY <1>4 DEF InLoop
  <1>6. RightPayload(fetch.month, payload, time, published)
    BY <1>3, AnswersAreRight
  <1>7. ASSUME NEW d \in DueOf(fetch, published)
        PROVE  published[d] + Latency < time
    <2>1. fetch.began \in Nat
      BY <1>4, FetchFields
    <2>2. published[d] \in Nat /\ Latency \in Nat
      BY <1>3, PublishedDays, CalendarAssumption DEF DueOf
    <2>3. published[d] + Latency < fetch.began
      BY DEF DueOf
    <2> QED
      BY <1>3, <1>4, <2>1, <2>2, <2>3
  <1>8. FetchOK(AfterMonth(fetch, payload), published, time)
    BY <1>2, <1>3, <1>6, <1>7, AfterMonthOK
  <1>9. /\ time' = time /\ CacheTypeOK'
        /\ \A e \in ToSet(entries') : RightEntry(e, published, time)
    BY <1>1, <1>5, StoreKeepsEntries
  <1> QED
    BY <1>1, <1>2, <1>8, <1>9, FetchMoves

\* A failure of TWSE is the exception of the second source.
LEMMA TwseFailureKeeps ==
    ASSUME PricesInv, TwseFailure
    PROVE  PricesInv'
  <1>1. PICK error \in {"HTTPError", "RuntimeError"} : fetch' = Raises(fetch, error)
    BY DEF TwseFailure
  <1>2. fetch.phase = "wait" /\ UNCHANGED <<cacheVars, today, published>>
    BY DEF TwseFailure
  <1>3. fetch \in FetchRecords /\ fetch.began <= time /\ InLoop(fetch)
    BY <1>2 DEF PricesInv, FetchOK
  <1>4. MayEndWith(fetch, error)
    BY <1>3, PayloadsAssumption DEF MayEndWith, InLoop
  <1>5. FetchOK(Raises(fetch, error), published, time)
    BY <1>3, <1>4, RaisesOK DEF Exceptions
  <1> QED
    BY <1>1, <1>2, <1>5, QuietCache, FetchMoves

\* A cancellation hides no answer that was there.
LEMMA CancelFetchKeeps ==
    ASSUME PricesInv, CancelFetch
    PROVE  PricesInv'
  <1>1. /\ fetch' = Raises(fetch, "CancelledError")
        /\ fetch.phase \in {"finmind", "wait", "TWSE quote", "TPEx quote"}
        /\ UNCHANGED <<cacheVars, today, published>>
    BY DEF CancelFetch
  <1>2. FetchOK(fetch, published, time)
    BY DEF PricesInv
  <1>3. fetch \in FetchRecords /\ fetch.began <= time
    BY <1>2 DEF FetchOK
  <1>4. fetch.source = "auto" => fetch.first # "found"
    BY <1>1, <1>2 DEF FetchOK, InLoop
  <1>5. MayEndWith(fetch, "CancelledError")
    BY <1>4 DEF MayEndWith
  <1>6. FetchOK(Raises(fetch, "CancelledError"), published, time)
    BY <1>3, <1>5, RaisesOK DEF Exceptions
  <1> QED
    BY <1>1, <1>6, QuietCache, FetchMoves

\* FinMind, TWSE or TPEx told what it has at once.
LEMMA QuickAnswerKeeps ==
    ASSUME PricesInv, QuickAnswer
    PROVE  PricesInv'
  <1>1. UNCHANGED <<cacheVars, today, published>>
    BY DEF QuickAnswer
  <1>2. PICK answer \in QuickAnswers :
          \/ fetch.phase = "finmind" /\ fetch' = AfterFinMind(fetch, answer)
          \/ fetch.phase = "TWSE quote" /\ fetch' = AfterTwseQuote(fetch, answer)
          \/ fetch.phase = "TPEx quote" /\ fetch' = AfterTpexQuote(fetch, answer)
    BY DEF QuickAnswer
  <1>3. /\ FetchOK(fetch, published, time) /\ published \in Publications
        /\ today \in Days
    BY DEF PricesInv, MarketOK
  <1>4. CASE fetch.phase = "finmind" /\ fetch' = AfterFinMind(fetch, answer)
    <2>1. FetchOK(AfterFinMind(fetch, answer), published, time)
      BY <1>3, <1>4, AfterFinMindOK
    <2> QED
      BY <1>1, <1>4, <2>1, QuietCache, FetchMoves
  <1>5. CASE fetch.phase = "TWSE quote" /\ fetch' = AfterTwseQuote(fetch, answer)
    <2>1. FetchOK(AfterTwseQuote(fetch, answer), published, time)
      BY <1>3, <1>5, AfterTwseQuoteOK
    <2> QED
      BY <1>1, <1>5, <2>1, QuietCache, FetchMoves
  <1>6. CASE fetch.phase = "TPEx quote" /\ fetch' = AfterTpexQuote(fetch, answer)
    <2>1. FetchOK(AfterTpexQuote(fetch, answer), published, time)
      BY <1>3, <1>6, AfterTpexQuoteOK
    <2> QED
      BY <1>1, <1>6, <2>1, QuietCache, FetchMoves
  <1> QED
    BY <1>2, <1>4, <1>5, <1>6

\* The idle call, and calls that begin.
LEMMA IdleOK ==
    /\ Idle \in FetchRecords
    /\ \A pub, now : now \in Nat => FetchOK(Idle, pub, now)
  <1>1. 1 \in Days
    BY CalendarAssumption DEF Days
  <1>2. Idle \in FetchRecords
    <2>1. <<>> \in Seq(Days)
      OBVIOUS
    <2> QED
      BY <1>1, <2>1 DEF Idle, FetchRecords
  <1>3. /\ Idle.phase = "over" /\ Idle.tool = "prices" /\ Idle.outcome = "none"
        /\ Idle.first = "not asked" /\ Idle.began = 0
    BY DEF Idle
  <1>4. ASSUME NEW pub, NEW now, now \in Nat
        PROVE  FetchOK(Idle, pub, now)
    <2>1. Complete(Idle, pub) /\ MayEndWith(Idle, Idle.outcome)
      BY <1>3 DEF Complete, MayEndWith
    <2>2. 0 <= now
      BY <1>4
    <2>3. Idle.began <= now
      BY <1>3, <2>2
    <2> QED
      BY <1>2, <1>3, <2>1, <2>3 DEF FetchOK
  <1> QED
    BY <1>2, <1>4

\* A call for prices begins.
LEMMA FetchPriceRowsKeeps ==
    ASSUME PricesInv, NEW source \in {"auto", "finmind", "twse"},
           NEW window \in Windows, FetchPriceRows(source, window)
    PROVE  PricesInv'
  <1> DEFINE c == [Idle EXCEPT !.phase = "finmind", !.source = source,
                               !.start = window[1], !.end = window[2],
                               !.began = time]
  <1>1. /\ fetch' = IF source = "twse" THEN FetchStockPrices(c) ELSE c
        /\ UNCHANGED <<cacheVars, today, published>>
    BY DEF FetchPriceRows
  <1>2. window[1] \in Days /\ window[2] \in Days \cup {None}
    BY CalendarAssumption
  <1>3. time \in Nat /\ today \in Days /\ published \in Publications
    BY DEF PricesInv, MarketOK
  <1>4. /\ c \in FetchRecords
        /\ c.phase = "finmind" /\ c.tool = "prices" /\ c.source = source
        /\ c.first = "not asked" /\ c.rows = <<>> /\ c.omitted = {}
        /\ c.began = time
    <2>1. /\ Idle.tool = "prices" /\ Idle.first = "not asked"
          /\ Idle.rows = <<>> /\ Idle.omitted = {}
      BY DEF Idle
    <2> QED
      BY <1>2, <1>3, <2>1, IdleOK DEF FetchRecords
  <1> HIDE DEF c
  <1>5. c.began <= time
    <2>1. time <= time
      BY <1>3
    <2> QED
      BY <1>4, <2>1
  <1>6. FetchOK(c, published, time)
    BY <1>4, <1>5 DEF FetchOK
  <1>7. FetchOK(FetchStockPrices(c), published, time)
    BY <1>3, <1>4, <1>5, FetchStockPricesOK
  <1> QED
    BY <1>1, <1>6, <1>7, QuietCache, FetchMoves

\* A call for a quote begins.
LEMMA FetchOfficialQuoteKeeps ==
    ASSUME PricesInv, NEW market \in {"auto", "twse", "tpex"},
           FetchOfficialQuote(market)
    PROVE  PricesInv'
  <1> DEFINE phase == IF market = "tpex" THEN "TPEx quote" ELSE "TWSE quote"
             c == [Idle EXCEPT !.tool = "quote", !.source = market, !.phase = phase]
  <1>1. fetch' = c /\ UNCHANGED <<cacheVars, today, published>>
    BY DEF FetchOfficialQuote
  <1>2. phase \in {"TPEx quote", "TWSE quote"}
    OBVIOUS
  <1> HIDE DEF phase
  <1>3. time \in Nat
    BY DEF PricesInv, MarketOK
  <1>4. /\ c \in FetchRecords
        /\ c.phase = phase /\ c.tool = "quote" /\ c.first = "not asked"
        /\ c.began = 0
    <2>1. Idle.first = "not asked" /\ Idle.began = 0
      BY DEF Idle
    <2> QED
      BY <1>2, <2>1, IdleOK DEF FetchRecords
  <1> HIDE DEF c
  <1>5. FetchOK(c, published, time)
    <2>1. 0 <= time
      BY <1>3
    <2>2. c.began <= time
      BY <1>4, <2>1
    <2> QED
      BY <1>2, <1>4, <2>2 DEF FetchOK
  <1> QED
    BY <1>1, <1>5, QuietCache, FetchMoves

\* Publishing a day makes it due for no call that has begun.
LEMMA PublishKeeps ==
    ASSUME PricesInv, Publish
    PROVE  PricesInv'
  <1> DEFINE later == Append(published, time)
  <1>1. /\ published' = later /\ Len(published) < today
        /\ UNCHANGED <<cacheVars, today, fetch>>
    BY DEF Publish
  <1>2. /\ published \in Publications /\ published \in Seq(0..MaxTime)
        /\ time \in 0..MaxTime /\ time \in Nat /\ today \in Days
        /\ Len(published) \in Nat /\ LastDay \in Nat
    BY PublishedDays, CacheAssumption DEF PricesInv, MarketOK, Publications
  <1>3. today \in Nat /\ today <= LastDay
    BY <1>2 DEF Days
  <1>4. /\ later \in Seq(0..MaxTime)
        /\ Len(later) = Len(published) + 1
        /\ DOMAIN later = 1..(Len(published) + 1)
        /\ DOMAIN published = 1..Len(published)
        /\ \A d \in 1..Len(published) : later[d] = published[d]
        /\ later[Len(published) + 1] = time
    BY <1>2
  <1> HIDE DEF later
  <1>5. Len(later) <= today /\ Len(later) <= LastDay
    BY <1>1, <1>2, <1>3, <1>4
  <1>6. later \in Publications
    BY <1>4, <1>5 DEF Publications
  <1>7. /\ DOMAIN published \subseteq DOMAIN later
        /\ \A d \in DOMAIN published : later[d] = published[d]
        /\ \A d \in DOMAIN later : d \notin DOMAIN published => time <= later[d]
    <2>1. \A d \in 1..(Len(published) + 1) :
            d \in 1..Len(published) \/ d = Len(published) + 1
      BY <1>2
    <2>2. 1..Len(published) \subseteq 1..(Len(published) + 1)
      BY <1>2
    <2>3. time <= time
      BY <1>2
    <2> QED
      BY <1>4, <2>1, <2>2, <2>3
  <1>8. time <= time
    BY <1>2
  <1>9. /\ \A c : FetchOK(c, published, time) => FetchOK(c, later, time)
        /\ \A e : RightEntry(e, published, time) => RightEntry(e, later, time)
    BY <1>2, <1>6, <1>7, <1>8, LaterOK
  <1>10. CacheTypeOK' /\ entries' = entries /\ time' = time
    BY <1>1, CacheUnchanged DEF PricesInv, cacheVars
  <1> QED
    BY <1>1, <1>5, <1>6, <1>9, <1>10 DEF PricesInv, MarketOK

\* Time passes, and days do.
LEMMA TimeKeeps ==
    ASSUME PricesInv, Tick \/ NextDay
    PROVE  PricesInv'
  <1>1. /\ published \in Publications /\ time \in 0..MaxTime /\ time \in Nat
        /\ MaxTime \in Nat /\ today \in Days /\ LastDay \in Nat
        /\ Len(published) \in Nat /\ Len(published) <= today
    BY PublishedDays, CacheAssumption DEF PricesInv, MarketOK
  <1>2. CASE Tick
    <2>1. /\ time < MaxTime /\ time' = time + 1 /\ entries' = entries
          /\ UNCHANGED <<today, published, fetch>> /\ CacheTypeOK'
      BY <1>2, TickKeeps DEF Tick, CacheTick, PricesInv
    <2>2. time + 1 \in Nat /\ time <= time + 1 /\ time + 1 \in 0..MaxTime
      BY <1>1, <2>1
    <2> DEFINE then == time + 1
    <2>3. then \in Nat /\ time <= then /\ time' = then /\ then \in 0..MaxTime
      BY <2>1, <2>2
    <2> HIDE DEF then
    <2>4. /\ \A c : FetchOK(c, published, time) => FetchOK(c, published, then)
          /\ \A e : RightEntry(e, published, time) => RightEntry(e, published, then)
      BY <1>1, <2>3, LaterOK
    <2> QED
      BY <2>1, <2>3, <2>4 DEF PricesInv, MarketOK
  <1>3. CASE NextDay
    <2>1. /\ today < LastDay /\ today' = today + 1
          /\ UNCHANGED <<cacheVars, published, fetch>>
      BY <1>3 DEF NextDay
    <2>2. today' \in Days /\ Len(published) <= today'
      BY <1>1, <2>1 DEF Days
    <2>3. CacheTypeOK' /\ entries' = entries /\ time' = time
      BY <2>1, CacheUnchanged DEF PricesInv, cacheVars
    <2> QED
      BY <2>1, <2>2, <2>3 DEF PricesInv, MarketOK
  <1> QED
    BY <1>2, <1>3

\* What other calls do to the cache.
LEMMA OthersKeep ==
    ASSUME PricesInv, NEW month \in Keys, OthersLookUp(month) \/ OthersAnswer(month)
    PROVE  PricesInv'
  <1>1. FetchOK(fetch, published, time)
    BY DEF PricesInv
  <1>2. UNCHANGED <<today, published, fetch>>
    BY DEF OthersLookUp, OthersAnswer
  <1>3. /\ time' = time /\ CacheTypeOK'
        /\ \A e \in ToSet(entries') : RightEntry(e, published, time)
    <2>1. CASE OthersLookUp(month)
      BY <2>1, LookUpKeepsEntries DEF OthersLookUp
    <2>2. CASE OthersAnswer(month)
      BY <2>2, StoreKeepsEntries DEF OthersAnswer
    <2> QED
      BY <2>1, <2>2
  <1> QED
    BY <1>1, <1>2, <1>3, FetchMoves

\* The invariant holds at the start.
LEMMA InitPrices == PricesInit => PricesInv
  <1> SUFFICES ASSUME PricesInit PROVE PricesInv
    OBVIOUS
  <1>1. /\ entries = <<>> /\ time = 0 /\ today = FirstToday /\ fetch = Idle
        /\ published = [d \in 1..(FirstToday - 1) |-> 0]
    BY DEF PricesInit, CacheInit
  <1>2. /\ MaxTime \in Nat /\ MaxEntries \in Nat /\ LastDay \in Nat
        /\ FirstToday \in Nat /\ FirstToday \in Days
        /\ 1 <= FirstToday /\ FirstToday <= LastDay
    BY CacheAssumption, CalendarAssumption DEF Days
  <1>3. CacheTypeOK /\ ToSet(entries) = {}
    BY <1>1, CacheAssumption DEF CacheTypeOK, ToSet
  <1>4. MarketOK
    <2> DEFINE n == FirstToday - 1
    <2>1. n \in Nat /\ 0 \in 0..MaxTime /\ n <= FirstToday /\ n <= LastDay
      BY <1>2
    <2>2. published \in [1..n -> 0..MaxTime]
      BY <1>1, <2>1
    <2> HIDE DEF n
    <2>3. published \in Seq(0..MaxTime) /\ Len(published) = n
      BY <2>1, <2>2, FunctionsAreLists
    <2>4. Len(published) <= LastDay /\ Len(published) <= today
      BY <1>1, <2>1, <2>3
    <2> QED
      BY <1>1, <1>2, <2>1, <2>3, <2>4 DEF MarketOK, Publications
  <1>5. FetchOK(fetch, published, time)
    <2>1. 0 \in Nat
      OBVIOUS
    <2> QED
      BY <1>1, <2>1, IdleOK
  <1> QED
    BY <1>3, <1>4, <1>5 DEF PricesInv

\* Every step keeps it.
LEMMA NextPrices == PricesInv /\ [PricesNext]_pricesVars => PricesInv'
  <1> SUFFICES ASSUME PricesInv, [PricesNext]_pricesVars PROVE PricesInv'
    OBVIOUS
  <1>1. CASE UNCHANGED pricesVars
    <2>1. UNCHANGED <<today, published, fetch>> /\ UNCHANGED cacheVars
      BY <1>1 DEF pricesVars
    <2>2. FetchOK(fetch, published, time)
      BY DEF PricesInv
    <2> QED
      BY <2>1, <2>2, QuietCache, FetchMoves
  <1>2. CASE Goes
    BY <1>2, QuickAnswerKeeps, LookUpKeeps, TwseAnswerKeeps, TwseFailureKeeps
    DEF Goes
  <1> QED
    BY <1>1, <1>2, TimeKeeps, PublishKeeps, FetchPriceRowsKeeps,
       FetchOfficialQuoteKeeps, CancelFetchKeeps, OthersKeep
    DEF PricesNext

\* So it holds in every state.
LEMMA PricesInvariance == PricesSpec => []PricesInv
  BY InitPrices, NextPrices, PTL DEF PricesSpec

\* The cache, the calendar, what is published and the call that is followed
\* are what the client of TWSE and the two tools can have.
THEOREM PricesTypeCorrect == PricesSpec => []PricesTypeOK
  <1>1. PricesInv => PricesTypeOK
    BY DEF PricesInv, MarketOK, Publications, FetchOK, PricesTypeOK
  <1> QED
    BY <1>1, PricesInvariance, PTL

\* The rows that TwseClient.fetch_stock_prices returns are those of the window
\* in their order, and none that was due is missing, whatever calls share the
\* cache, in whatever order their answers come.
THEOREM PricesComplete == PricesSpec => []PricesAreComplete
  <1>1. DueOf(fetch, published) = Due(fetch)
    BY DEF DueOf, Due
  <1>2. PricesInv => PricesAreComplete
    BY <1>1 DEF PricesInv, FetchOK, Complete, PricesAreComplete
  <1> QED
    BY <1>2, PricesInvariance, PTL

\* With source auto neither an outage of the first source nor its silence fails
\* a call, and a fallback that fails is never taken for an answer.
THEOREM FallbackIsTold == PricesSpec => []FallbackServes
  <1>1. PricesInv => FallbackServes
    BY DEF PricesInv, FetchOK, MayEndWith, FallbackServes
  <1> QED
    BY <1>1, PricesInvariance, PTL

\* The cache never makes a call leave a month out.
THEOREM RefusalsAreNotCached == PricesSpec => RefusalsAreForgotten
  <1>1. PricesInv /\ [PricesNext]_pricesVars =>
          [fetch.phase = "look up" => fetch'.omitted = fetch.omitted]_pricesVars
    <2> SUFFICES ASSUME PricesInv, PricesNext, fetch.phase = "look up"
                 PROVE  fetch'.omitted = fetch.omitted
      OBVIOUS
    <2>1. CASE LookUp
      BY <2>1, LookUpKeeps
    <2>2. CASE ~LookUp
      <3>1. fetch' = fetch
        BY <2>2
        DEF PricesNext, Goes, Tick, NextDay, Publish, FetchPriceRows,
            FetchOfficialQuote, QuickAnswer, TwseAnswer, TwseFailure, CancelFetch,
            OthersLookUp, OthersAnswer
      <3> QED
        BY <3>1
    <2> QED
      BY <2>1, <2>2
  <1> QED
    BY <1>1, PricesInvariance, PTL DEF PricesSpec, RefusalsAreForgotten
=============================================================================
