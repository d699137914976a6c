------------------------ MODULE TaiwanStockNewsClient ------------------------
(***************************************************************************)
(* TaiwanStockNewsClient of src/src/finance_mcp/providers/news.py: rows of *)
(* the Google News feed, completed or replaced by those of the Yahoo page  *)
(* of the stock, without near duplicates.  The calls are those for one     *)
(* stock, so that each provider has one URL and one key of the cache.      *)
(*                                                                         *)
(* _TextHttpClient.get_text is the answer or the failure it ends with.     *)
(* Its permit and its retries, those of RetryingCalls, change neither, and *)
(* every call of one URL may have to wait for them for a while.            *)
(***************************************************************************)
EXTENDS AsyncTTLCache

CONSTANTS
    Callers,       \* tasks that fetch news
    Stories,       \* what a row tells: its title and its URL
    Similar,       \* <<x, y>> in it: x is a near duplicate of y
    GoogleTexts,   \* bodies that Google News answers with
    YahooTexts,    \* bodies that Yahoo answers with
    MaxLimit       \* 10, the largest limit

\* A row is similar to itself.  Similar is not transitive, and it is not
\* symmetric: SequenceMatcher.ratio depends on the order of its arguments.
ASSUME SimilarAssumption ==
    /\ Similar \subseteq Stories \X Stories
    /\ \A story \in Stories : <<story, story>> \in Similar

\* A text is the stories that its parser finds, or one that makes the fetch
\* raise: not XML (ParseError); a date or a URL that parsedate_to_datetime or
\* urlsplit refuses (ValueError); the page of a Yahoo that is down
\* (RuntimeError).
Feed(stories) == [raises |-> "nothing", stories |-> stories]
Broken(error) == [raises |-> error, stories |-> <<>>]

Texts(errors) ==
    [raises : {"nothing"} \cup errors, stories : Seq(Stories)]

ASSUME TextsAssumption ==
    /\ GoogleTexts \subseteq Texts({"ParseError", "ValueError"})
    /\ YahooTexts \subseteq Texts({"RuntimeError", "ValueError"})
    /\ Keys = {"google", "yahoo"}
    /\ Values = GoogleTexts \cup YahooTexts
    /\ \A text \in Values : text.raises # "nothing" => text.stories = <<>>
    /\ MaxLimit \in Nat \ {0}

VARIABLE
    fetch        \* the call of fetch_news of each task

vars == <<cacheVars, fetch>>

\* What a provider did for a call: a text, or an error of the HTTP client.
NotAsked == Broken("not asked")
HttpError == Broken("HTTPError")

Outcomes == Values \cup {NotAsked, HttpError}

Providers == {"google", "yahoo"}
Sources == {"auto"} \cup Providers

Exceptions ==
    {"HTTPError", "ParseError", "ValueError", "RuntimeError",
     "both failed", "CancelledError"}

\* A call looks up its provider in the cache, waits for its answer, or is
\* over, with its rows or the exception that it raised.
CallRecords ==
    [phase : {"look up", "wait", "over"}, provider : Providers,
     source : Sources, limit : 1..MaxLimit,
     google : Outcomes, yahoo : Outcomes,
     rows : Seq(Stories), raised : {"nothing"} \cup Exceptions]

NewCall(phase, source, limit) ==
    [phase |-> phase,
     provider |-> IF source = "yahoo" THEN "yahoo" ELSE "google",
     source |-> source, limit |-> limit,
     google |-> NotAsked, yahoo |-> NotAsked,
     rows |-> <<>>, raised |-> "nothing"]

TypeOK ==
    /\ CacheTypeOK
    /\ fetch \in [Callers -> CallRecords]
    /\ \A t \in Callers : Len(fetch[t].rows) <= fetch[t].limit

Init ==
    /\ CacheInit
    /\ fetch = [t \in Callers |-> NewCall("over", "auto", MaxLimit)]

-----------------------------------------------------------------------------
(* Helpers                                                                 *)

\* The lookup follows in the same turn of the event loop, so nobody else runs
\* before it.
CanRun(t) == \A other \in Callers \ {t} : fetch[other].phase # "look up"

TextsOf(provider) == IF provider = "google" THEN GoogleTexts ELSE YahooTexts

\* `cache_predicate': the page of a Yahoo that is down is not cached.  (A
\* definition Name_variant just before Name is Name with a bug, for the
\* mutation runs only.)
Cacheable_always(text) == TRUE
Cacheable(text) == text.raises # "RuntimeError"

\* _is_duplicate
IsDuplicate_ofTheLast(selected, story) ==
    selected # <<>> /\ <<story, selected[Len(selected)]>> \in Similar
IsDuplicate(selected, story) ==
    \E other \in ToSet(selected) : <<story, other>> \in Similar

\* One turn of the loop over the rows of a provider, which ends at the limit.
WithStory_oneTooMany(rows, story, limit) ==
    IF Len(rows) > limit \/ IsDuplicate(rows, story) THEN rows
    ELSE Append(rows, story)
WithStory(rows, story, limit) ==
    IF Len(rows) >= limit \/ IsDuplicate(rows, story) THEN rows
    ELSE Append(rows, story)

\* The loop; rows[n] is what is selected after n stories.
Merged(selected, stories, limit) ==
    LET rows[n \in 0..Len(stories)] ==
          IF n = 0 THEN selected
          ELSE WithStory(rows[n - 1], stories[n], limit)
    IN  rows[Len(stories)]

\* `[:limit]'
Truncated(stories, limit) ==
    SubSeq(stories, 1, IF Len(stories) < limit THEN Len(stories) ELSE limit)

-----------------------------------------------------------------------------
(* The code of fetch_news after its provider gave text: each operator is   *)
(* the record with which the call c comes to its next await or to its end. *)

Returns(c, stories) == [c EXCEPT !.phase = "over", !.rows = stories]
Raises(c, error) ==
    [c EXCEPT !.phase = "over", !.rows = <<>>, !.raised = error]

\* What the `except' clauses of `auto' catch.
Caught(provider, error) ==
    \/ error \in {"HTTPError", "RuntimeError"}
    \/ provider = "google" /\ error = "ParseError"

AfterOnly(c, text) ==
    IF text.raises = "nothing"
    THEN Returns(c, Truncated(text.stories, c.limit))
    ELSE Raises(c, text.raises)

AfterGoogle(c, text) ==
    LET selected == Merged(<<>>, text.stories, c.limit)
    IN  IF text.raises # "nothing" /\ ~Caught("google", text.raises)
        THEN Raises(c, text.raises)
        ELSE IF Len(selected) >= c.limit
        THEN Returns(c, selected)
        ELSE [c EXCEPT !.phase = "look up", !.provider = "yahoo",
                       !.rows = selected]

\* Yahoo has failed: there is news all the same, or Google found none.
HasAnswer_withNews(c) == c.rows # <<>>
HasAnswer(c) == c.rows # <<>> \/ c.google.raises = "nothing"

AfterYahoo(c, text) ==
    IF text.raises = "nothing"
    THEN Returns(c, Merged(c.rows, text.stories, c.limit))
    ELSE IF ~Caught("yahoo", text.raises) THEN Raises(c, text.raises)
    ELSE IF HasAnswer(c) THEN Returns(c, c.rows)
    ELSE Raises(c, "both failed")

After(c, text) ==
    LET told == IF c.provider = "google" THEN [c EXCEPT !.google = text]
                                         ELSE [c EXCEPT !.yahoo = text]
    IN  IF c.source # "auto" THEN AfterOnly(told, text)
        ELSE IF c.provider = "google" THEN AfterGoogle(told, text)
        ELSE AfterYahoo(told, text)

-----------------------------------------------------------------------------
(* Actions                                                                 *)

Tick == CacheTick /\ UNCHANGED fetch

\* A limit outside of 1..MaxLimit raises before anything else.
FetchNews(t, source, limit) ==
    /\ CanRun(t)
    /\ fetch[t].phase = "over"
    /\ fetch' = [fetch EXCEPT ![t] = NewCall("look up", source, limit)]
    /\ UNCHANGED cacheVars

\* get_text: a hit goes on at once, a miss sends a request.
LookUp(t) ==
    LET c == fetch[t]
        hit == Lookup(c.provider)
    IN  /\ c.phase = "look up"
        /\ fetch' = [fetch EXCEPT ![t] = IF hit # None
                                         THEN After(c, hit)
                                         ELSE [c EXCEPT !.phase = "wait"]]
        /\ Get(c.provider)

\* A 2xx answer, cached before it is parsed.
Answer(t) ==
    /\ CanRun(t)
    /\ fetch[t].phase = "wait"
    /\ \E text \in TextsOf(fetch[t].provider) :
         /\ fetch' = [fetch EXCEPT ![t] = After(fetch[t], text)]
         /\ IF Cacheable(text) THEN Set(fetch[t].provider, text)
                               ELSE UNCHANGED cacheVars

\* Another status, or a timeout or transport error in the last attempt.
Failure(t) ==
    /\ CanRun(t)
    /\ fetch[t].phase = "wait"
    /\ fetch' = [fetch EXCEPT ![t] = After(fetch[t], HttpError)]
    /\ UNCHANGED cacheVars

\* CancelledError at an await of get_text; no clause catches it.
Cancel(t) ==
    /\ CanRun(t)
    /\ fetch[t].phase = "wait"
    /\ fetch' = [fetch EXCEPT ![t] = Raises(fetch[t], "CancelledError")]
    /\ UNCHANGED cacheVars

Next ==
    \/ Tick
    \/ \E t \in Callers :
         \/ \E source \in Sources, limit \in 1..MaxLimit :
              FetchNews(t, source, limit)
         \/ LookUp(t)
         \/ Answer(t)
         \/ Failure(t)
         \/ Cancel(t)

Spec == Init /\ [][Next]_vars

-----------------------------------------------------------------------------
(* Properties                                                              *)

\* A call of both sources that ended, in whatever way but by a cancellation.
Ended(c) ==
    /\ c.phase = "over"
    /\ c.source = "auto"
    /\ c.google # NotAsked
    /\ c.raised # "CancelledError"

Failed(outcome) == outcome.raises \notin {"nothing", "not asked"}

\* The places of s to keep, in order, as a reader would define them: those
\* whose story is similar to none kept before it, up to the limit.
IsSelection(at, s, limit) ==
    /\ \A m, n \in DOMAIN at : m < n => at[m] < at[n]
    /\ \A i \in DOMAIN s :
         i \in ToSet(at) <=>
           /\ \A n \in DOMAIN at : at[n] < i => <<s[i], s[at[n]]>> \notin Similar
           /\ limit \in DOMAIN at => i <= at[limit]

\* The rows of a call of both sources are the first distinct ones of Google
\* followed by Yahoo, up to the limit: none is repeated, and none is left out
\* while there is room, whatever was cached and whichever of the two failed.
AutoMergesBoth ==
    \A t \in Callers :
      LET c == fetch[t]
          offered == c.google.stories \o c.yahoo.stories
      IN  Ended(c) /\ c.raised = "nothing" =>
            \E at \in [DOMAIN c.rows -> DOMAIN offered] :
              /\ IsSelection(at, offered, c.limit)
              /\ \A n \in DOMAIN at : c.rows[n] = offered[at[n]]

\* But for a ValueError, a call of both sources raises when both failed and
\* only then: neither an empty list for two failures, nor an exception while
\* one of the two has answered.
RaisesWhenBothFail ==
    \A t \in Callers :
      LET c == fetch[t]
      IN  Ended(c) /\ c.raised # "ValueError" =>
            (c.raised # "nothing" <=> Failed(c.google) /\ Failed(c.yahoo))

\* What the docstrings say: Yahoo is the fallback, so a call of both sources
\* fails only when Yahoo has failed too.
FallbackServes ==
    \A t \in Callers :
      Ended(fetch[t]) /\ fetch[t].raised # "nothing" => Failed(fetch[t].yahoo)

\* An outage is over as soon as Yahoo answers again: no call learns from the
\* cache that Yahoo is down.
OutageIsNotCached ==
    [][\A t \in Callers :
         fetch[t].phase = "look up" =>
           /\ fetch'[t].yahoo.raises # "RuntimeError"
           /\ fetch'[t].google.raises # "RuntimeError"]_vars
=============================================================================
