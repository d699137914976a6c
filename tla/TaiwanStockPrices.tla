-------------------------- MODULE TaiwanStockPrices --------------------------
(***************************************************************************)
(* The prices of one stock: _fetch_price_rows of                           *)
(* src/src/finance_mcp/server.py, which asks FinMind and falls back to     *)
(* TWSE, with TwseClient.fetch_stock_prices of providers/twse.py, which    *)
(* asks TWSE month by month, through its cache, while days pass and the    *)
(* exchange publishes their prices; and its latest quote,                  *)
(* _fetch_official_quote, which asks TWSE and falls back to TPEx.          *)
(*                                                                         *)
(* One call is followed, and after it the next.  The calls that run beside *)
(* it share nothing with it but the cache: what any number of them does to *)
(* it are the actions of Others.                                           *)
(*                                                                         *)
(* A row is its day.  JsonHttpClient.get_json is the answer or the failure *)
(* it ends with: its permit and retries only decide when that is.          *)
(***************************************************************************)
EXTENDS AsyncTTLCache, FiniteSets

CONSTANTS
    LastDay,       \* bound on the days
    FirstToday,    \* today at the start; the days before it are published
    MonthOf,       \* the month of each day, <<year, 1..12>>
    NotTraded,     \* days whose row has no closing price
    Windows,       \* <<start, end>> of the calls; end may be None
    MaxMonths,     \* 120
    Latency        \* how long an answer of TWSE may be under way, in ticks

Days == 1..LastDay

\* Months one after the other have numbers one after the other.
MonthNumber(month) == 12 * month[1] + month[2]

\* What TWSE answers for a month: the rows of some days; rows that the client
\* refuses, a RuntimeError, or cannot parse, a ValueError that counts as one
\* here, since nobody tells them apart; or a `stat' that is not OK.
Payload(answer, days) == [answer |-> answer, days |-> days]
Payloads ==
    [answer : {"rows", "RuntimeError", "not OK"},
     days : UNION {[1..n -> Days] : n \in 0..LastDay}]

ASSUME CalendarAssumption ==
    /\ LastDay \in Nat /\ FirstToday \in Days
    /\ MonthOf \in [Days -> Nat \X (1..12)]
    /\ \A d \in Days : d + 1 \in Days =>
         MonthNumber(MonthOf[d + 1]) - MonthNumber(MonthOf[d]) \in {0, 1}
    /\ Windows \subseteq Days \X (Days \cup {None})
    /\ NotTraded \subseteq Days
    /\ MaxMonths \in Nat /\ Latency \in Nat

ASSUME PayloadsAssumption ==
    /\ Keys = {MonthOf[d] : d \in Days}
    /\ Values = Payloads
    /\ None \notin Days /\ None \notin Keys /\ None \notin Values

VARIABLES
    today,        \* date.today()
    published,    \* published[d]: when TWSE published the row of day d
    fetch         \* the call that is followed

pricesVars == <<cacheVars, today, published, fetch>>

\* What FinMind has of the prices, or TWSE or TPEx of the latest quotes: some,
\* none of this stock, or the exception.
QuickAnswers == {"found", "none", "HTTPError", "RuntimeError", "ValueError"}

Exceptions ==
    {"HTTPError", "RuntimeError", "ValueError", "not found", "CancelledError"}

\* A call of one of the two tools asks FinMind, looks up or asks for the prices
\* of a month at TWSE, asks TWSE or TPEx for a quote, or is over.  It knows what
\* FinMind, or else TWSE, and TPEx said, when it began, and the months without
\* an answer that it left out.
FetchRecords ==
    [phase : {"finmind", "look up", "wait", "TWSE quote", "TPEx quote", "over"},
     tool : {"prices", "quote"}, source : {"auto", "finmind", "twse", "tpex"},
     start : Days, end : Days \cup {None}, month : Keys \cup {None},
     rows : Seq(Days), omitted : SUBSET Keys, began : Nat,
     first : QuickAnswers \cup {"not asked"},
     tpex : QuickAnswers \cup {"not asked"},
     outcome : {"none", "FinMind", "TWSE", "TPEx"} \cup Exceptions]

Idle ==
    [phase |-> "over", tool |-> "prices", source |-> "auto", start |-> 1,
     end |-> None, month |-> None, rows |-> <<>>, omitted |-> {}, began |-> 0,
     first |-> "not asked", tpex |-> "not asked", outcome |-> "none"]

PricesTypeOK ==
    /\ CacheTypeOK
    /\ today \in Days
    /\ published \in Seq(0..MaxTime) /\ Len(published) <= today
    /\ fetch \in FetchRecords

PricesInit ==
    /\ CacheInit
    /\ today = FirstToday
    /\ published = [d \in 1..(FirstToday - 1) |-> 0]
    /\ fetch = Idle

-----------------------------------------------------------------------------
(* _month_starts                                                           *)

\* The month after one.  (A definition Name_variant just before Name is Name
\* with a bug, for the mutation runs only.)
Following_sameYear(month) ==
    IF month[2] = 12 THEN <<month[1], 1>> ELSE <<month[1], month[2] + 1>>
Following(month) ==
    IF month[2] = 12 THEN <<month[1] + 1, 1>> ELSE <<month[1], month[2] + 1>>

NotAfter(month, other) ==
    \/ month[1] < other[1]
    \/ month[1] = other[1] /\ month[2] <= other[2]

\* How many months the list has, for a range that is not empty.
MonthCount(start, end) ==
    MonthNumber(MonthOf[end]) - MonthNumber(MonthOf[start]) + 1

-----------------------------------------------------------------------------
(* Each operator is the record with which the call c comes to its next     *)
(* await or to its end.                                                    *)

Returns(c, source, rows) ==
    [c EXCEPT !.phase = "over", !.outcome = source, !.rows = rows]
Raises(c, error) ==
    [c EXCEPT !.phase = "over", !.outcome = error, !.rows = <<>>]

\* fetch_stock_prices up to its first month; today is read here and never
\* again.
FetchStockPrices(c) ==
    LET resolved == IF c.end = None THEN today ELSE c.end
    IN  IF resolved < c.start \/ MonthCount(c.start, resolved) > MaxMonths
        THEN Raises(c, "ValueError")
        ELSE [c EXCEPT !.phase = "look up", !.end = resolved,
                       !.month = MonthOf[c.start]]

\* The loop over the rows of a month keeps those with a closing price that are
\* of the window.
Wanted_beforeEnd(c, d) == d \notin NotTraded /\ c.start <= d /\ d < c.end
Wanted(c, d) == d \notin NotTraded /\ c.start <= d /\ d <= c.end

WithRows(c, days) ==
    LET rows[n \in 0..Len(days)] ==
          IF n = 0 THEN c.rows
          ELSE IF Wanted(c, days[n]) THEN Append(rows[n - 1], days[n])
          ELSE rows[n - 1]
    IN  rows[Len(days)]

\* `rows.sort': the same rows, in the order of their days.
Sorted(rows) ==
    LET place == CHOOSE place \in Bijection(DOMAIN rows, DOMAIN rows) :
                   \A i, j \in DOMAIN rows :
                     i < j => rows[place[i]] <= rows[place[j]]
    IN  [i \in DOMAIN rows |-> rows[place[i]]]

\* The next turn of the loop over the months, or `rows.sort' and the end.
NextMonth(c) ==
    LET next == Following(c.month)
    IN  IF NotAfter(next, MonthOf[c.end])
        THEN [c EXCEPT !.phase = "look up", !.month = next]
        ELSE Returns(c, "TWSE", Sorted(c.rows))

\* `continue' for a month whose `stat' is not OK.
Skip_again(c) == [c EXCEPT !.phase = "look up"]
Skip(c) == NextMonth([c EXCEPT !.omitted = @ \cup {c.month}])

AfterMonth(c, payload) ==
    CASE payload.answer = "rows" ->
           NextMonth([c EXCEPT !.rows = WithRows(c, payload.days)])
      [] payload.answer = "not OK" -> Skip(c)
      [] OTHER -> Raises(c, payload.answer)

\* What `except' catches in _fetch_price_rows and _fetch_official_quote.
Caught_http(error) == error = "HTTPError"
Caught(error) == error \in {"HTTPError", "RuntimeError"}

FallsBack(c, answer) == c.source = "auto" /\ (answer = "none" \/ Caught(answer))

\* _fetch_price_rows; only with source auto does an empty list not do.
AfterFinMind(c, answer) ==
    LET told == [c EXCEPT !.first = answer]
    IN  CASE answer = "found" -> Returns(told, "FinMind", <<>>)
          [] FallsBack(c, answer) -> FetchStockPrices(told)
          [] answer = "none" /\ c.source # "auto" ->
               Returns(told, "FinMind", <<>>)
          [] OTHER -> Raises(told, answer)

\* _fetch_official_quote.
AfterTwseQuote(c, answer) ==
    LET told == [c EXCEPT !.first = answer]
    IN  CASE answer = "found" -> Returns(told, "TWSE", <<>>)
          [] FallsBack(c, answer) -> [told EXCEPT !.phase = "TPEx quote"]
          [] answer = "none" /\ c.source # "auto" -> Raises(told, "not found")
          [] OTHER -> Raises(told, answer)

AfterTpexQuote(c, answer) ==
    LET told == [c EXCEPT !.tpex = answer]
    IN  CASE answer = "found" -> Returns(told, "TPEx", <<>>)
          [] answer = "none" -> Raises(told, "not found")
          [] OTHER -> Raises(told, answer)

-----------------------------------------------------------------------------
(* Actions                                                                 *)

Tick == CacheTick /\ UNCHANGED <<today, published, fetch>>

NextDay ==
    /\ today < LastDay
    /\ today' = today + 1
    /\ UNCHANGED <<cacheVars, published, fetch>>

\* The exchange publishes the prices of a day after its close.
Publish ==
    /\ Len(published) < today
    /\ published' = Append(published, time)
    /\ UNCHANGED <<cacheVars, today, fetch>>

\* A window that ends before it starts raises before anything else.
FetchPriceRows(source, window) ==
    /\ fetch.phase = "over"
    /\ LET c == [Idle EXCEPT !.phase = "finmind", !.source = source,
                             !.start = window[1], !.end = window[2],
                             !.began = time]
       IN  fetch' = IF source = "twse" THEN FetchStockPrices(c) ELSE c
    /\ UNCHANGED <<cacheVars, today, published>>

FetchOfficialQuote(market) ==
    /\ fetch.phase = "over"
    /\ fetch' =
         [Idle EXCEPT !.tool = "quote", !.source = market,
                      !.phase = IF market = "tpex" THEN "TPEx quote"
                                                   ELSE "TWSE quote"]
    /\ UNCHANGED <<cacheVars, today, published>>

\* An answer that has nothing to do with the months: of FinMind, or of the
\* lists of all latest quotes.
QuickAnswer ==
    /\ \E answer \in QuickAnswers :
         \/ fetch.phase = "finmind" /\ fetch' = AfterFinMind(fetch, answer)
         \/ fetch.phase = "TWSE quote" /\ fetch' = AfterTwseQuote(fetch, answer)
         \/ fetch.phase = "TPEx quote" /\ fetch' = AfterTpexQuote(fetch, answer)
    /\ UNCHANGED <<cacheVars, today, published>>

\* get_json: a hit goes on at once, a miss sends a request.
LookUp ==
    LET hit == Lookup(fetch.month)
    IN  /\ fetch.phase = "look up"
        /\ fetch' = IF hit # None THEN AfterMonth(fetch, hit)
                                 ELSE [fetch EXCEPT !.phase = "wait"]
        /\ Get(fetch.month)
        /\ UNCHANGED <<today, published>>

\* Some days in their order.
InOrder(days) ==
    CHOOSE s \in [1..Cardinality(days) -> days] :
      /\ ToSet(s) = days
      /\ \A i, j \in DOMAIN s : i < j => s[i] < s[j]

\* How many days TWSE had published when it answered, not longer ago than an
\* answer is under way.
PublishedCounts ==
    {n \in 0..Len(published) :
       \A d \in DOMAIN published : published[d] + Latency < time => d <= n}

\* The rows of a month, in either order, or one of the answers that no client
\* can use.
Answers(month) ==
    LET ascending ==
          {InOrder({d \in 1..n : MonthOf[d] = month}) : n \in PublishedCounts}
    IN  {Payload("rows", rows) : rows \in ascending}
        \cup {Payload("rows", Reverse(rows)) : rows \in ascending}
        \cup {Payload(a, <<>>) : a \in {"RuntimeError", "not OK"}}

\* `cache_predicate': `stat' is OK.
Cacheable_always(payload) == TRUE
Cacheable(payload) == payload.answer # "not OK"

Store(month, payload) ==
    IF Cacheable(payload) THEN Set(month, payload) ELSE UNCHANGED cacheVars

TwseAnswer ==
    /\ fetch.phase = "wait"
    /\ \E payload \in Answers(fetch.month) :
         /\ fetch' = AfterMonth(fetch, payload)
         /\ Store(fetch.month, payload)
    /\ UNCHANGED <<today, published>>

\* Another status, the last attempt that failed, or an answer that is not a JSON
\* object: nothing is cached.
TwseFailure ==
    /\ fetch.phase = "wait"
    /\ \E error \in {"HTTPError", "RuntimeError"} : fetch' = Raises(fetch, error)
    /\ UNCHANGED <<cacheVars, today, published>>

CancelFetch ==
    /\ fetch.phase \in {"finmind", "wait", "TWSE quote", "TPEx quote"}
    /\ fetch' = Raises(fetch, "CancelledError")
    /\ UNCHANGED <<cacheVars, today, published>>

\* Another call looks up a month, or has its answer.
OthersLookUp(month) == Get(month) /\ UNCHANGED <<today, published, fetch>>
OthersAnswer(month) ==
    /\ \E payload \in Answers(month) : Store(month, payload)
    /\ UNCHANGED <<today, published, fetch>>

Goes == QuickAnswer \/ LookUp \/ TwseAnswer \/ TwseFailure

PricesNext ==
    \/ Tick
    \/ NextDay
    \/ Publish
    \/ \E source \in {"auto", "finmind", "twse"}, window \in Windows :
         FetchPriceRows(source, window)
    \/ \E market \in {"auto", "twse", "tpex"} : FetchOfficialQuote(market)
    \/ Goes
    \/ CancelFetch
    \/ \E month \in Keys : OthersLookUp(month) \/ OthersAnswer(month)

\* The event loop runs what is ready and every request ends in some way.
PricesSpec ==
    PricesInit /\ [][PricesNext]_pricesVars /\ WF_pricesVars(Goes)

-----------------------------------------------------------------------------
(* Properties                                                              *)

\* The days whose row a call of TWSE must have: of the window, with a price,
\* and published so long before the call began that neither the cache nor an
\* answer under way, of this call or of another, can keep it back.
Due(c) ==
    {d \in DOMAIN published \cap (c.start..c.end) :
       /\ published[d] + Latency < c.began
       /\ published[d] + TTL + Latency <= c.began
       /\ d \notin NotTraded
       /\ MonthOf[d] \notin c.omitted}

\* The rows from TWSE are those of the window, each once, in the order of
\* their days, and none is missing that was due: across the turn of the year,
\* in whatever order TWSE lists them, and although some months may come from
\* the cache, where a late answer to another call may have replaced a newer
\* one, and others from a later time.  Only a month that TWSE did not answer
\* is left out.
PricesAreComplete ==
    fetch.phase = "over" /\ fetch.tool = "prices" /\ fetch.outcome = "TWSE" =>
      LET rows == fetch.rows
      IN  /\ \A i, j \in DOMAIN rows : i < j => rows[i] < rows[j]
          /\ Due(fetch) \subseteq ToSet(rows)
          /\ ToSet(rows) \subseteq
               (fetch.start..fetch.end) \cap (DOMAIN published \ NotTraded)

\* With source auto an outage of the first source, or a stock that it does not
\* know, never fails a call, and a fallback that fails is never taken for an
\* answer: the exception of a call is that of the second source, or the
\* ValueError of an input or a row that a source cannot take, which nobody
\* catches, and a stock is not found only when TPEx, asked in this very call,
\* does not know it.
FallbackServes ==
    fetch.phase = "over" /\ fetch.source = "auto" =>
      /\ fetch.first = "found"
           <=> fetch.outcome = IF fetch.tool = "prices" THEN "FinMind" ELSE "TWSE"
      /\ fetch.outcome \in {"HTTPError", "RuntimeError"} =>
           IF fetch.tool = "prices" THEN fetch.month # None
                                   ELSE fetch.tpex = fetch.outcome
      /\ fetch.outcome = "not found" => fetch.tpex = "none"

\* A month that TWSE did not answer is asked for again: the cache never makes a
\* call leave a month out.
RefusalsAreForgotten ==
    [][fetch.phase = "look up" => fetch'.omitted = fetch.omitted]_pricesVars

\* Every call comes to its end, whatever the window and whatever the
\* calendar does meanwhile.
FetchEnds == fetch.phase # "over" ~> fetch.phase = "over"
=============================================================================
