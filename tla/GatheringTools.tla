---------------------------- MODULE GatheringTools ----------------------------
(***************************************************************************)
(* The tools of src/src/finance_mcp/server.py that ask several sources at  *)
(* once with asyncio.gather: the financial reports, the analyses of        *)
(* fundamentals and of financial health, and the announcements with the    *)
(* gather of providers/announcements.py.                                   *)
(*                                                                         *)
(* A request is the task that gather makes for one source.  The requests   *)
(* of the tools considered, those of one kind, go through one HTTP client, *)
(* whose permits and retries are those of RetryingCalls.  That client and  *)
(* the tasks of gather are all that the calls of tools share: a gather     *)
(* that fails lets go of its other requests, and they go on.               *)
(***************************************************************************)
EXTENDS RetryingCalls

CONSTANTS
    Slots,       \* calls of tools that may be open at a time
    Sources,     \* what the tools ask for
    Announcers   \* the two sources of announcements, TWSE and TPEx

ASSUME SourcesAssumption ==
    /\ Tasks = Slots \X Sources
    /\ Announcers \subseteq Sources
    /\ \E twse, tpex \in Sources : twse # tpex /\ Announcers = {twse, tpex}

VARIABLES
    kind,   \* the kind of the tools considered
    tool    \* the call in each slot

vars == <<callVars, kind, tool>>

\* reports returns the rows of all its sources, analyze needs some rows of
\* each, announcements takes what it gets.
Kinds == {"reports", "analyze", "announcements"}

Raised == {"error", "no data", "both failed", "CancelledError"}

\* A call waits for its gather, or is over.  Its requests are told to stop when
\* it is cancelled before the gather has its result.  What it returns is made
\* of the rows of the sources in `from'.
ToolCalls ==
    [phase : {"gathering", "over"}, stop : BOOLEAN,
     outcome : {"none", "answer"} \cup Raised, from : SUBSET Sources]

Gathering ==
    [phase |-> "gathering", stop |-> FALSE, outcome |-> "none", from |-> {}]

\* What a request ends with: rows or none, or an exception.
Outcomes == {"none", "rows", "no rows", "error", "cancelled"}

TypeOK ==
    /\ SemaphoreTypeOK
    /\ call \in [Tasks -> {Over(o) : o \in Outcomes} \cup Calls(Sources)]
    /\ QueueOK
    /\ kind \in Kinds
    /\ tool \in [Slots -> ToolCalls]

Init ==
    /\ CallsInit
    /\ kind \in Kinds
    /\ tool = [t \in Slots |-> [Gathering EXCEPT !.phase = "over"]]

-----------------------------------------------------------------------------
(* Helpers                                                                 *)

SourcesOfKind == IF kind = "announcements" THEN Announcers ELSE Sources

RequestsOf(t) == {t} \X SourcesOfKind

\* gather has made its task, which has not run yet.
Created(r) ==
    /\ r \in RequestsOf(r[1])
    /\ tool[r[1]].phase = "gathering"
    /\ call[r] = Over("none")

Finished(r) == call[r].phase = "over" /\ call[r] # Over("none")

EndedWith(t, outcomes) ==
    {r \in RequestsOf(t) : \E o \in outcomes : call[r] = Over(o)}

\* The result of gather is there: every request has finished, or one of them
\* failed and `return_exceptions' is false.  The requests of a gather run for
\* the first time one after the other, before anything that one of them
\* causes.
Settled_byFirstResult(t) == \E r \in RequestsOf(t) : Finished(r)
Settled(t) ==
    /\ \A r \in RequestsOf(t) : call[r] # Over("none")
    /\ \/ \A r \in RequestsOf(t) : Finished(r)
       \/ kind # "announcements" /\ EndedWith(t, {"error", "cancelled"}) # {}

\* `len(errors) == 2'
AllFailed_any(t) == EndedWith(t, {"error"}) # {}
AllFailed(t) == Cardinality(EndedWith(t, {"error"})) = 2

\* What the code after gather does with its result.
OutcomeOf(t) ==
    IF kind = "announcements"
    THEN IF AllFailed(t) THEN "both failed" ELSE "answer"
    ELSE IF EndedWith(t, {"error"}) # {} THEN "error"
    ELSE IF kind = "analyze" /\ EndedWith(t, {"no rows"}) # {} THEN "no data"
    ELSE "answer"

Close(t, outcome, from) ==
    tool' = [tool EXCEPT ![t].phase = "over", ![t].outcome = outcome,
                         ![t].from = from]

-----------------------------------------------------------------------------
(* Calls of tools                                                          *)

\* Arguments that are refused raise before gather.  A slot is taken again when
\* the last requests of its call are over, which bounds the requests.
Call(t) ==
    /\ tool[t].phase = "over"
    /\ \A r \in {t} \X Sources : call[r].phase = "over"
    /\ tool' = [tool EXCEPT ![t] = Gathering]
    /\ call' = [r \in Tasks |-> IF r[1] = t THEN Over("none") ELSE call[r]]
    /\ UNCHANGED <<semaphoreVars, kind>>

\* The task of the tool runs again.
Return(t) ==
    /\ tool[t].phase = "gathering"
    /\ ~tool[t].stop
    /\ Settled(t)
    /\ LET outcome == OutcomeOf(t)
       IN  Close(t, outcome,
                 IF outcome = "answer"
                 THEN {r[2] : r \in EndedWith(t, {"rows", "no rows"})}
                 ELSE {})
    /\ UNCHANGED <<callVars, kind>>

\* The task of the tool is cancelled.  Its gather passes that on to the requests
\* that go on, unless it has its result and has heard of it: the end of a
\* request reaches it with the next turn of the event loop.
Cancel(t) ==
    /\ tool[t].phase = "gathering"
    /\ ~tool[t].stop
    /\ \/ Settled(t) /\ Close(t, "CancelledError", {})
       \/ /\ \E r \in RequestsOf(t) : ~Finished(r)
          /\ tool' = [tool EXCEPT ![t].stop = TRUE]
    /\ UNCHANGED <<callVars, kind>>

\* A gather that was cancelled has its result as any other: a failure from
\* before the cancellation is the first that it hears of, and hides it.
ReturnCancelled(t) ==
    /\ tool[t].phase = "gathering"
    /\ tool[t].stop
    /\ Settled(t)
    /\ LET failed == kind # "announcements" /\ EndedWith(t, {"error"}) # {}
       IN  Close(t, IF failed THEN "error" ELSE "CancelledError", {})
    /\ UNCHANGED <<callVars, kind>>

-----------------------------------------------------------------------------
(* Requests                                                                *)

Unstopped(r) == ~tool[r[1]].stop

\* fetch_dataset, or _fetch_twse and _fetch_tpex: a hit of the cache and an
\* input that the client refuses end the request in its first turn.
AnswerAtOnce(r) ==
    /\ Created(r)
    /\ Unstopped(r)
    /\ \E o \in {"rows", "no rows", "error"} :
         call' = [call EXCEPT ![r] = Over(o)]
    /\ UNCHANGED <<semaphoreVars, kind, tool>>

Send(r) ==
    /\ Created(r)
    /\ Unstopped(r)
    /\ Begin(r, r[2])
    /\ UNCHANGED <<kind, tool>>

Enter(r) ==
    /\ Unstopped(r)
    /\ LetIn(r)
    /\ UNCHANGED <<kind, tool>>

\* An answer: a list of rows, or one that the client or the provider refuses.
Answer(r) ==
    /\ Unstopped(r)
    /\ call[r].phase = "sending"
    /\ \E o \in {"rows", "no rows", "error"} : Leave(r, o)
    /\ UNCHANGED <<kind, tool>>

RetryableFailure(r) ==
    /\ Unstopped(r)
    /\ Fail(r)
    /\ UNCHANGED <<kind, tool>>

NextAttempt(r) ==
    /\ Unstopped(r)
    /\ NextTurn(r)
    /\ UNCHANGED <<kind, tool>>

\* CancelledError at the await where the request is, or before its first turn.
CancelRequest(r) ==
    /\ ~Unstopped(r)
    /\ \/ /\ Created(r)
          /\ call' = [call EXCEPT ![r] = Over("cancelled")]
          /\ UNCHANGED semaphoreVars
       \/ Cancelled(r)
    /\ UNCHANGED <<kind, tool>>

RequestRuns(r) ==
    \/ AnswerAtOnce(r)
    \/ Send(r)
    \/ Enter(r)
    \/ Answer(r)
    \/ RetryableFailure(r)
    \/ NextAttempt(r)
    \/ CancelRequest(r)

Next ==
    \/ \E t \in Slots : Call(t) \/ Return(t) \/ Cancel(t) \/ ReturnCancelled(t)
    \/ \E r \in Tasks : RequestRuns(r)

\* The event loop runs every task that is ready, requests and backoffs end.
\* Nothing has to be called or cancelled.
Fairness ==
    /\ \A t \in Slots : WF_vars(Return(t)) /\ WF_vars(ReturnCancelled(t))
    /\ \A r \in Tasks : WF_vars(RequestRuns(r))

Spec == Init /\ [][Next]_vars /\ Fairness

-----------------------------------------------------------------------------
(* Properties, beside those of RetryingCalls                               *)

Answered(t) == tool[t].phase = "over" /\ tool[t].outcome = "answer"

\* What a call returned is made of what all its sources brought, but for the
\* announcements of a market whose provider failed.
IsWhole(t) ==
    /\ \A r \in RequestsOf(t) : Finished(r)
    /\ \A r \in RequestsOf(t) :
         r[2] \notin tool[t].from =>
           kind = "announcements" /\ call[r] = Over("error")
    /\ kind = "analyze" => \A r \in RequestsOf(t) : call[r] = Over("rows")
    /\ tool[t].from # {}

\* What a tool returns is made of what all its sources brought in this very
\* call: no report lacks a statement, no analysis is made without rows, and
\* announcements lack only those of a market whose provider failed.
AnswerIsWhole == \A t \in Slots : Answered(t) => IsWhole(t)

\* The outcome of announcements tells whether both markets failed.
TellsOutage(t) ==
    tool[t].outcome \in {"both failed", "answer"} =>
      (tool[t].outcome = "both failed"
         <=> \A r \in RequestsOf(t) : call[r] = Over("error"))

\* An outage of both markets is told and never an empty list, and while one
\* market answers nothing is raised (but for a cancellation).
AnnouncementsRaiseWhenBothFail ==
    kind = "announcements" => \A t \in Slots : TellsOutage(t)

\* A call that failed or was cancelled, of a tool whose gather does not wait
\* for the rest.
MayLeaveOrphans(t) ==
    /\ tool[t].outcome \in {"error", "CancelledError"}
    /\ kind # "announcements"

\* Only a call that failed or was cancelled leaves requests behind, and the
\* announcements, whose gather waits for all of its requests even when it is
\* cancelled, never do.
OnlyFailuresLeaveOrphans ==
    \A t \in Slots :
      tool[t].phase = "over" /\ tool[t].outcome # "none" /\ ~MayLeaveOrphans(t)
        => \A r \in RequestsOf(t) : Finished(r)

\* Every call of a tool comes to an end and so do all its requests, although
\* they may queue behind those that failed calls have left, and although nobody
\* waits for its own any more when it has failed.
ToolsEnd ==
    \A t \in Slots :
      tool[t].phase = "gathering" ~>
        tool[t].phase = "over" /\ \A r \in RequestsOf(t) : call[r].phase = "over"
=============================================================================
