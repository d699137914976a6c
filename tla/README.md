# pipe-stock-analysis: verification project

TLA+ models, TLC runs and TLAPS proofs of the Finance MCP server in
`src/src/finance_mcp`: an MCP server that answers questions about Taiwan and US
stocks from public data sources, behind an OAuth 2.1 authorization server of
its own. Paths below are relative to `src/src/finance_mcp` unless they start
with `src/`.

## 1. Inventory

| Part | State it keeps | Operations | Hard behaviour |
|---|---|---|---|
| `oauth.py`, grants and tokens | five SQLite tables: `oauth_states`, `oauth_authorization_codes`, `oauth_access_tokens`, `oauth_refresh_tokens`, `oauth_token_pairs` | `authorize`, login page and callback, `load_*`, `exchange_*`, `revoke_token` | each method is one or two transactions; rows loaded before they are used; crashes between transactions; expiry |
| `oauth.py`, clients | table `oauth_clients`, dictionary `_cimd_cache` | `get_client`, `is_cimd_client`, `register_client` | loads of a metadata document overlap and finish in any order; two clock reads |
| `oauth_client_auth.py` | `_used_jtis`, the identifiers of assertions already used | `authenticate_request` | two clock reads with other requests between them; a full cache; restarts |
| `oauth_network.py` | none | `connect_tcp` | the addresses that were validated are tried in order |
| `infra/cache.py` | an `OrderedDict` of entries | `get`, `set`, `clear`, `size` | expiry, least-recently-used eviction |
| `infra/http.py` | a semaphore, a cache | `get_json` | concurrency limit, retries while the permit is held, cancellation |
| `direct_action.py`, `open_connector.py` | a semaphore, a cache | `call` | the same, with another order of release, validation and store |
| `providers/twse.py`, `tpex.py`, `finmind.py` | one HTTP client each | `fetch_*` | one request per month through the cache, while days pass; refused months; date windows |
| `providers/announcements.py`, `news.py` | one HTTP client each | `fetch_announcements`, `fetch_news` | two sources at once or one after the other, failures of either, merging |
| `providers/finnhub.py` | one HTTP client | `fetch_*` | one request each |
| `server.py` | the provider objects | one function per MCP tool | `asyncio.gather` of several sources, whose requests outlive a gather that failed; fallbacks |
| `analytics/*` | none | pure functions | windows, streaks and sums over rows; floats |
| `config.py`, `infra/logging.py` | none after start | | |
| `src/scripts/set-finnhub-key.sh` | the file `.env` | replaces one line | temporary file, rename, signals |

How they interact. `server.py` builds one object of each kind. The MCP SDK
calls the provider of `oauth.py` from its HTTP handlers (authorize, token,
revoke, bearer check), and the authenticator of `oauth_client_auth.py` before
the token and revocation handlers. Everything runs on one asyncio loop in one
process (`oauth_client_auth.py:40`, `src/README.md:127`). A tool calls
providers, each provider calls its HTTP client, and each HTTP client consults
its cache, waits for a permit of its semaphore and sends its request.

What makes each part correct:

- grants: the authority that one login gives is held in one place, is spent
  once, can be ended, stays ended, and keeps its client and resource;
- client assertions: accepted once while valid, in a cache that is bounded and
  fails closed;
- cache: hits are fresh and current, eviction is least recently used;
- HTTP clients: no permit leaks, no waiter is forgotten, every call ends;
- providers: a source that fails does not hide one that works, and a failure is
  neither remembered nor taken for an answer; prices that were published are not
  missing;
- tools: an answer is made of all that its sources brought, and requests that
  nobody waits for still end and give their permits back.

## 2. Modules

| Module | Models | Kind |
|---|---|---|
| `FinanceOAuthProvider` | `oauth.py`, grants and tokens | specification |
| `GrantLifecycle` | what it promises about one login | abstract specification |
| `ClientAuthentication` | `authenticate_request` of `oauth_client_auth.py` with `get_client` and `is_cimd_client` of `oauth.py` | specification |
| `PrivateKeyJWTClientAuthenticator` | the verification of an assertion and the replay cache of `oauth_client_auth.py` | specification |
| `AsyncTTLCache` | `infra/cache.py` | variables and operators, which the clients extend |
| `AsyncTTLCacheUse` | the cache under any sequence of calls, with two histories | specification, over `AsyncTTLCache` |
| `AsyncioSemaphore` | `asyncio.Semaphore` (external) | variables and operators |
| `RetryingCalls` | a permit and the retry loop inside it, as in `infra/http.py` | operators over `AsyncioSemaphore` |
| `JsonHttpClient` | `infra/http.py` | specification, over `AsyncTTLCache` and `RetryingCalls` |
| `ActionClient` | `action_client.py`, `direct_action.py`, `open_connector.py` | specification, over the same |
| `TaiwanStockNewsClient` | `providers/news.py` | specification, over `AsyncTTLCache` |
| `GatheringTools` | the tools of `server.py` that use `asyncio.gather`, with `providers/announcements.py` and the requests that they make | specification, over `RetryingCalls` |
| `TaiwanStockPrices` | `_fetch_price_rows` and `_fetch_official_quote` of `server.py`, with `providers/twse.py` | specification, over `AsyncTTLCache` |
| `*_proofs` | | theorems and proofs about the module they extend; `ClientParts_proofs` is about the parts of the clients, `AsyncTTLCache` and `RetryingCalls`, and the proofs about the clients extend it |
| `MC*` | instances, with `MC*.cfg` | for TLC |

A definition `Name_variant` that stands just before `Name` is `Name` with a
plausible bug. Nothing uses it but the mutation runs, which put it in the place
of `Name` to show that a property can fail.

### Correspondence with the code

**FinanceOAuthProvider.** One variable per SQLite table, with the source's
column names. A transaction (`with self._lock, self._connect()`) is one step,
because the lock and SQLite make it atomic. A handler of the SDK is a record in
`op`: the step it will take next and the rows it has loaded. Within a method
no coroutine suspends, so `running` keeps the event loop for the handler that is
in the middle of one; between a `load_*` and the use of what it loaded the
handler is in its caller's code, which may suspend when `CallerSuspends` is
true. The SDK's handlers do not, `src/tests/test_oauth_cimd.py` and any other
caller may. The record also keeps the client that makes the request, which may
present the code or the refresh token of another one: `MayUse` is the test that
refuses it (`oauth.py:482`, 558, 604 and 614), and the tokens are stored for the
client of the request, as in the source. For a revocation that test is the SDK's. `grants` and `minted` are histories: of the logins, and of where each
pair came from. `Abort` is a transaction that raises and is rolled back,
`Crash` the death of the process between two transactions.

**ClientAuthentication.** `document` is what the owners of CIMD clients publish,
`cimd_cache` the dictionary, with the time each entry has left instead of its
expiry. A request goes through `get_client` for `authenticate_request`, and
once more for the SDK's authenticator when it is passed on. `Fetch` and `Load`
are the two ends of a load: between them the document, the cache and the clock
go on.

The refinement mapping of `FinanceOAuthProvider` to `GrantLifecycle` is at its end:
a grant is a code that was issued; `GrantPhase` and `GrantPair` read from the
tables and from the handlers in the middle of a rotation where its authority is.

**PrivateKeyJWTClientAuthenticator.** A request that passed the signature and
date checks at one clock reading waits in `record_jti` for the second.
`used_jtis` is the source's dictionary. Signatures and key sets are valid or
not.

**AsyncTTLCache, RetryingCalls and the clients.** A step runs from one await to
the next. `entries` is the `OrderedDict`, oldest use first. A task is in the queue of
the semaphore, sending, or backing off, and can be cancelled in each of these
places. `RetryingCalls` is translated from `infra/http.py`; the loops of
`direct_action.py` and `open_connector.py` have the same structure.
`AsyncioSemaphore` follows CPython: a released permit is handed to the first waiter
through its future, so that it can be cancelled while it already owns the permit.
`AsyncTTLCacheUse` adds what nobody stores: `usedSince[k]`, the keys used since `k`
last was, and `stored[k]`, what was stored last under `k` and when.
Pending futures are the sequence `waiters`, completed ones the set `granted`:
only their being there is ever asked of the latter.

**ActionClient.** `backend` is `settings.data_backend`, fixed at the start.
`Normal` is `_normalize_action_input` as a function on the inputs it accepts. The
cache key is made of the normal form (`direct_action.py:81-83`); the request is
made apart from it, with the parameters `Params` of `_finnhub_params` or
`_call_finmind`. Every field of a normal form becomes a parameter, so `Params` is
assumed injective for one action. Data is represented by the question that it
answers, which makes a wrong hit visible.

**TaiwanStockNewsClient.** A text is the stories that its parser finds or the
exception that parsing raises. `After` is the code of `fetch_news` that follows
a text or an error, up to the next await. `Similar` is the relation of
`_is_duplicate`, which is reflexive and nothing else: the ratio of
`SequenceMatcher` depends on the order of its arguments.

**GatheringTools.** A task of `RetryingCalls` is a request: the task that one
call of a tool (a slot) has `gather` make for one source. The requests of all
slots compete for the permits of one client, since the tools of one `kind` use
one client. `tool` is what the code that awaits the gather knows; `Return` is all
of that code up to the result of the tool. `Settled` is when a gather has
its result: with the first failure, or, for the announcements, with the last
answer. From then on `Cancel` does not reach the requests, which stay
orphans; but a gather hears of the end of a request one turn of the loop later,
and a cancellation in between stops the rest and is hidden by the failure. A slot is used again when its last request is over, which only bounds
the number of requests. What a request ends with is rows, none, an error or a
cancellation; the conversion of rows and their order are left out.

**TaiwanStockPrices.** A row is its day, and a calendar, `MonthOf`, gives the months
of a few days around a new year. `today` and `published` are the world: the
days that pass and the prices that TWSE lists. One call is followed from await to
await, another begins after it; all other calls of the server share only the
cache with it, and `OthersLookUp` and `OthersAnswer` let any number of them do to
the cache what calls do, at any time. An answer is at most `Latency` ticks old
when it arrives, in either order of its rows. `Sorted` says what `rows.sort` leaves,
the same rows in the order of their days; `Due` is what a call must bring: days
of its window, published so long before the call began that neither a stale entry
of the cache nor an answer under way can lack them. FinMind and the two lists of
latest quotes are what comes of asking them, including the exception. A row of
TWSE that cannot be parsed (`twse.py:154-155`) raises `ValueError` and counts as
the `RuntimeError` of a failed request: TWSE is the last source asked, and
nothing above it treats the two differently.

## 3. Runs

| Run | Question | Bounds and why they are enough |
|---|---|---|
| `provider_suspend` | Do the tables agree, is a login held in one place, spent once, and over when it ended, when two requests race and anything may fail? Is every step one of `GrantLifecycle`? | two handlers are a race; three pairs are a code exchange and two rotations; TTLs of 1 and 2 ticks let everything expire in any order |
| `provider_sdk` | Do tokens keep client and resource, and is a revocation final, with the SDK's handlers? | two clients and two resources, and each client may present what was issued to the other |
| `provider_refresh_ttl` | Does an unexpired refresh token survive until its client uses it? **No**, see the findings | |
| `client_lookup` | Is a client accepted only on the proof its record asks for? Do old documents die out? | two requests, a document that changes once, a registered URL, a registered secret client and an unknown one |
| `client_assertions` | Is an assertion accepted once? Does a full cache fail closed? | two requests, identifiers that collide with several windows, a cache of one entry, one restart |
| `ttl_cache` | Are hits fresh and current, is the eviction least recently used? | three keys in a cache of two, two values, TTL 2 |
| `http_client` | Does any path lose a permit, forget a waiter, or fall through the loop? Does every call end? | three tasks on one permit: one holds, one is handed the permit, one waits behind it; two attempts are a retry and a last one |
| `action_client` | Do hits answer the caller's own request with either backend, null data and inputs of the same normal form? Does every call hit that could? | three tasks, one permit, two actions, of which the connector knows one, three inputs, two with the same normal form, a cache of two |
| `news_calls` | Is the merge right, does a call raise exactly when both providers failed, is an outage forgotten? | two calls, a cache of two with an expiry, feeds of up to three stories with a relation of duplicates that is neither symmetric nor transitive, limits 1 to 3 |
| `news_fallback` | Does a call of both sources ask Yahoo before it fails? **No**, see the findings | as above |
| `gathering_tools` | Is what a tool returns whole? Do announcements tell an outage of both markets and survive one of a single market? Who leaves requests behind, and do these end? | two calls of two sources on one permit: orphans of one call stand in the way of the next; two attempts are a retry and a last one; the announcements have two sources in the code; with three sources, as the financial statements have, there are millions of states, but the theorems cover any number |
| `stock_prices` | Are all prices there that were due, in order, across a new year and out of a stale cache? Do the fallbacks serve, and do refused months stay out of the cache? Does every call end? | four days in three months, one without a price; windows of one and two months, one that becomes too long and one that lies in the future; a cache of one entry that lives a tick; answers up to a tick old, two ticks |

Deadlock is checked in all runs: there is always something that may start.

Fairness. `JsonHttpClient` assumes that the event loop runs ready tasks
(weak fairness of entering and of the end of a backoff) and that each request
ends in some way, which the HTTP timeout of the client guarantees (weak fairness of
`RequestEnds`). It does not assume that a request succeeds, that a call starts
or that anyone is cancelled. `GatheringTools` assumes the same of every request,
also one that nobody waits for, and that the tool runs again when its gather has
its result; not that a tool is called or cancelled. `TaiwanStockPrices` assumes
that the followed call goes on when it can and that each request ends in some
way; nothing of the clock, the calendar, the exchange and the other calls.
`ClientAuthentication` assumes that the clock
goes on and nothing else. The other specifications state safety only.

## 4. Proofs

TLAPS proves these for every value of the constants that satisfies the
`ASSUME`s of the modules.

| Module | Theorems |
|---|---|
| `FinanceOAuthProvider_proofs` | `TypeCorrect`, `GrantHasOneHolder`, `CodesAndTokensAreSpentOnce`, `TablesAgree`, `TokensKeepTheirBinding`, `Implementation`, `EndedGrantsStayEnded`, `RevocationEndsTheGrant` |
| `ClientAuthentication_proofs` | `TypeCorrect`, `ProofsFit`, `PkceOnlyForCached` |
| `PrivateKeyJWTClientAuthenticator_proofs` | `TypeCorrect`, `NoReplay`, `CacheFailsClosed`, `CacheIsBounded` |
| `ClientParts_proofs` | `HitsAreFresh`, `OldestUseIsFirst`, `EvictionIsLeastRecent`, and the lemmas that the four below share |
| `JsonHttpClient_proofs` | `TypeCorrect`, `Conserved`, `NobodyForgotten`, `NeverFallsThrough` |
| `ActionClient_proofs` | `TypeCorrect`, `Conserved`, `NeverFallsThrough`, `HitsAreRight` |
| `ServerTools_proofs` | of `GatheringTools`: `TypeCorrect`, `Conserved`, `AnswersAreWhole`, `OutagesAreTold`, `OrphansOnlyOfFailures`; of `TaiwanStockPrices`: `PricesTypeCorrect`, `PricesComplete`, `FallbackIsTold`, `RefusalsAreNotCached` |
| `TaiwanStockNewsClient_proofs` | `TypeCorrect`, `MergeIsRight`, `FailuresAreTold`, `OutagesAreForgotten` |

*Provider.* None of the four safety properties is inductive. `IndInv` adds where
the tables' rows come from: `CodesInv` (an unredeemed code has one row, the
binding of its login, and no pair descends from it), `MintedInv` (each pair came
from the code of its root or the refresh token of an earlier pair of that root),
`PairsInv` (a stored pair is one that was minted, the only one of its root, and
its refresh token is not spent), and `HandlerInv` for what a suspended
handler holds: the row it loaded may be gone, but it still says what that code
or token was; and a handler in the middle of a rotation runs alone, with a token
that is spent and in no table. The last is why the two transactions of
`exchange_refresh_token` do not break `OneHolder`: nobody runs between them, and
a crash there loses the login instead of doubling it.

`Implementation` shows, action by action under `IndInv`, that a step of the provider
is a step of `GrantLifecycle` or leaves all grants as they are. The two
transactions of a rotation are `StartRotation` and `Mint`; a crash or a
failure between them is `End`. `EndedStaysEnded` then follows from the steps of
`GrantLifecycle`, none of which leaves the end: no action of the provider has
to be looked at again.
`RevocationIsFinal` is proved where `CallerSuspends` is false, as for the SDK and
as in the run: a caller that suspends between `load_*` and `revoke_token` may
present a token that another request has rotated meanwhile.

*Client lookup.* `ProofFitsClient` needs `DecisionsKept` (what a request that goes
on has already shown). `PkceClientIsCached` needs `DecidesOnCached`: between
`get_client` and `is_cimd_client` the request has not suspended, so the entry is
the one it got; and `LoadsAreCimd`, without which a load for a registered
client could put another record there. Each action is one lemma, most of them
through `StepInv`, which says what a request has to bring along to its next
step.

*Assertions.* `AcceptedOnce` rests on `ReplayableIsRemembered`: as long as an
assertion could be replayed its identifier is in the cache with an expiry not
before its own. That needs `RecordingInv`, the date checks at the first clock
reading, which bound what the second can store; and the prune keeps everything
that is not expired.

*Permits.* `ClientParts_proofs` proves once, for every client, that each
operator keeps `CallsOK` (types and the queue) and `CallInv` (`PermitsConserved`,
`NoForgottenWaiter` and the bound on the attempts). The semaphore's part is
`WakingUp`: the loop that hands out permits takes as many tasks out of the queue
as it adds to `granted`. That needs the queue without repetitions, and
`Cardinality` of a union step by step from the library's facts about finite sets.
`NoForgottenWaiter` is kept because every way out of `acquire` goes through that
loop. A client then only shows which operator each of its actions is. For
`ActionClient` and `GatheringTools`, `PermitsConserved` and the unreachable end of
the loop are only proved, not run again: the runs of `http_client` are about the
same operators.

*Cache.* `ClientParts_proofs` proves that each operation keeps `CacheTypeOK`
(one entry per key, never more than the limit) and that what holds of the
entries goes on holding: the entries after an operation are some of those before
and the one that was stored. `HitsAnswerTheirCall` follows with `AnswersOf`:
every entry holds null or what some call with its key asked. `KeysAreQuestions` says
that two calls have the same key exactly when they ask the same, which rests
on `ParamsAssumption`; so no hit is wrong and none is missed under another key. The three theorems about the cache itself
are about `AsyncTTLCacheUse`, with the invariant `UseInv`: each entry holds what
was stored last and expires a TTL after that (`HoldsLast`), and the order of
the entries is that of their uses (`ByUse`). A lookup, an expiry or an eviction
leaves a part of the entries in their order (`PartOf`), which keeps both; what
is stored or hit comes last. What an eviction drops is the first entry, so
`ByUse` says that every other key was used since.

*Gathered sources.* The three properties of a call that is over speak of its
requests, which do not change any more once the call has ended; `SlotOK` is their
conjunction for one slot with two facts about a call that waits: its requests are
cancelled only through it, and it has no outcome yet. The first is what makes
`Settled` mean what the code after `gather` takes it to mean: a request that was
cancelled would be neither rows nor one of the `errors`.

*News.* `NewsInv` says of every call what it knows and has: one under way has
heard nothing of Yahoo, and, once it goes on to Yahoo, has as rows the selection
from what Google told (`Underway`); one that is over satisfies the two
properties; and an entry of the cache is a text that its own provider may give
and that `cache_predicate` accepts (`RightText`), so that a hit and an answer are
one case. That the loop selects is `LoopSelects`: `SelectedFrom(rows, s, m,
limit)` says that `rows` are the first distinct stories among the first `m` of
`s`, and each turn takes it from `m` to `m + 1` (`OneStory`). The induction is
over a set of numbers, `Induction`, which follows from the well-foundedness of
`<`: the library states induction with an operator as a parameter, which no
prover can instantiate. The second loop goes on with what the first
selected, so the rows are those of the concatenation of both feeds, as
`AutoMergesBoth` says. The relation of similar stories is arbitrary but for
being reflexive.

*Prices.* `PricesInv` has two halves that need each other. `RightEntry` says of
every entry of the cache that it is no refusal and that, a TTL before it expires,
its rows were what TWSE had published of its month (`RightRows`): each day once,
none of another month, and none missing that was published more than a `Latency`
before. `FetchOK` says what the followed call knows: while it is in the loop, its
rows are wanted days of the months behind it, each once, and every day of these
months that is due is among them (`Gathered`). A hit is fresh, so it was right later than a
TTL before the call began, and what is due had been published by then; an answer
was right when it came. So one lemma, `AfterMonthOK`, covers both, although the entry
may come from another call whose late answer replaced a newer one. That no day
is left out between two months is `CalendarGoesOn`: as days pass, the
number of the month grows by 0 or 1, and the pairs that the code compares are in the
order of these numbers (`MonthNumbers`). The loop over the rows and the sort are
`RowsAdded` and `SortedRows`, by induction over a set of numbers. `LaterOK` says
that neither the clock nor the exchange makes a call wrong that has begun. The
proof needed `Due` to ask for `Latency` before the call began also when the TTL
is 0; the run has a TTL of 1, which hides the difference.

*Only model-checked.* `CallsEnd`, `ToolsEnd`, `FetchEnds` and `OldDocumentsDieOut`: liveness is out
of TLAPS's reach here and stays with TLC. Every other property of a run is also
a theorem, but for the two that the code violates.

*Exempted.* Three properties leave out cases that the code decides otherwise. An
assertion can be accepted again in the one instant in which its leeway ends, and
after a restart, since the cache is in memory: `AcceptedOnce` says so. A month
that TWSE refuses is silently missing from the prices, so `Due` leaves it out.
The cache of the news keeps a feed that cannot be parsed: `PROJECT.json` lists
all of these as hazards with a note, and `news_fallback` shows the last one.

The theorems about a client that uses only one of the two parts, or about one of
the two specifications in `ServerTools_proofs`, rest on the assumptions about both, which are
those of different files of the code and do not limit each other.

## 5. Findings

1. `provider_refresh_ttl`, `oauth.py:587`. A bearer request with an access token
   that has expired calls `revoke_token`, which deletes the whole pair, with
   a refresh token of 30 days (`oauth.py:51`) that the client may be about to use.
2. `news_fallback`, `providers/news.py:328`. A `pubDate` or link that cannot be
   parsed raises `ValueError`, which the fallback does not catch: the call
   fails and Yahoo is not asked, against `providers/news.py:276` and
   `server.py:484`. The feed was cached before it was parsed, so that calls go on
   failing until it expires.

## 6. Not modelled

- Passwords, PKCE, redirect URIs, scopes, signatures, URL and document checks:
  conditions on data, which appear as accepted or refused.
- `register_client`: `server.py` disables dynamic registration.
- Purging: the code never deletes codes, states and tokens that expire unused,
  nor entries of `_cimd_cache`; the runs bound their number.
- The permits and retries of `_TextHttpClient.get_text`, which only decide when
  an answer comes; HTML and XML parsing.
- `analytics/*`: functions of their rows without state or waiting, in floating point,
  which TLC does not have. That they refuse to work without rows is in the
  outcomes of `GatheringTools`.
- The other lists of `providers/twse.py` and `tpex.py`, `providers/finnhub.py`, and the tools
  that check their arguments and call one of them: one request each, whose
  permit, retries and cache are those of `JsonHttpClient` or `ActionClient`.
- The order of the announcements and the conversion of rows.
- `PinnedNetworkBackend` (`oauth_network.py`): one loop over the validated addresses; its
  failures are those of a load in `ClientAuthentication`.
- `set-finnhub-key.sh`: interactive; what a crash leaves of its files is up to the
  file system.
- `config.py`, `infra/logging.py`, packaging: no state that changes.

## 7. Plan

1. `_normalize_action_input` as an operator: normal forms are fixed points, and
   two accepted inputs have the same normal form only when they ask for the
   same thing.
2. Proofs about it, and that the semaphore serves those who wait in the order in
   which they came.
