------------------------ MODULE FinanceOAuthProvider ------------------------
(***************************************************************************)
(* The OAuth authorization server of src/src/finance_mcp/oauth.py: the     *)
(* SQLite tables of FinanceOAuthProvider and the methods that read and     *)
(* write them, together with the handlers of the MCP SDK that call those   *)
(* methods (authorize, login, token and revocation endpoints, bearer       *)
(* check).                                                                 *)
(*                                                                         *)
(* One step is one `with self._lock, self._connect()` block, that is one   *)
(* SQLite transaction, or one in-memory step between two of them.  The     *)
(* server is one asyncio loop and no method of the provider suspends, so   *)
(* once a handler is inside a method no other handler runs until the       *)
(* method ends (`running`).  Only the caller of the provider may suspend   *)
(* between two methods it calls: CallerSuspends.  A transaction that       *)
(* raises, or a crash, leaves the tables as the previous transaction left  *)
(* them: Abort and Crash.                                                  *)
(***************************************************************************)
EXTENDS Naturals, Sequences

CONSTANTS
    Handlers,        \* requests being served
    Nobody,          \* no request
    Clients,         \* registered clients (client_id)
    States,          \* values of the OAuth `state` parameter
    Resources,       \* resource indicators
    ResourceUrl,     \* self.resource_url
    StateTTL,        \* the 600 s of authorize, in ticks
    CodeTTL,         \* the 300 s of handle_login_callback, in ticks
    AccessTTL,       \* self.access_token_ttl_seconds, in ticks
    RefreshTTL,      \* self.refresh_token_ttl_seconds, in ticks
    CallerSuspends,  \* may the caller suspend between a load_* and its use?
    MaxTime,         \* bound on the clock
    MaxCodes,        \* bound on the authorization codes issued
    MaxPairs         \* bound on the token pairs issued

ASSUME ResourceAssumption == ResourceUrl \in Resources
ASSUME TTLAssumption == /\ StateTTL \in Nat
                        /\ CodeTTL \in Nat
                        /\ AccessTTL \in Nat \ {0}
                        /\ RefreshTTL \in Nat \ {0}
ASSUME SchedulingAssumption == /\ CallerSuspends \in BOOLEAN
                               /\ Nobody \notin Handlers
ASSUME BoundAssumption == /\ MaxTime \in Nat
                          /\ MaxCodes \in Nat
                          /\ MaxPairs \in Nat

VARIABLES
    oauth_states,               \* rows of the table of the same name
    oauth_authorization_codes,
    oauth_access_tokens,
    oauth_refresh_tokens,
    oauth_token_pairs,
    op,        \* what each handler still has to do, with the rows it loaded
    running,   \* the handler inside a provider method, or Nobody
    now,       \* time.time()
    grants,    \* history: grants[c] is the row of the c-th code issued
    minted     \* history: minted[n] is the origin of the n-th token pair

tables == <<oauth_states, oauth_authorization_codes, oauth_access_tokens,
            oauth_refresh_tokens, oauth_token_pairs>>
tokenTables == <<oauth_access_tokens, oauth_refresh_tokens, oauth_token_pairs>>
vars == <<tables, op, running, now, grants, minted>>

-----------------------------------------------------------------------------
(* A definition Name_variant just before Name is Name with a bug: the      *)
(* mutation runs use it in place of Name, the specification never does.    *)

(* Rows.  secrets.token_urlsafe never repeats a value: the c-th code is c, *)
(* and the n-th pair has the two values AccessValue(n) and RefreshValue(n).*)

AccessValue_unnumbered(n) == [kind |-> "access"]
AccessValue(n)  == [kind |-> "access",  id |-> n]
RefreshValue(n) == [kind |-> "refresh", id |-> n]
CodeValue(c)    == [kind |-> "code",    id |-> c]

TokenValues == [kind : {"access", "refresh"}, id : Nat]

StateRows == [state : States, client : Clients, resource : Resources,
              expires_at : Nat]
CodeRows  == [code : Nat, client : Clients, resource : Resources,
              expires_at : Nat]
AccessRows == [token : TokenValues, client : Clients, resource : Resources,
               expires_at : Nat]
RefreshRows == [token : TokenValues, client : Clients, expires_at : Nat]
PairRows == [access_token : TokenValues, refresh_token : TokenValues,
             resource : Resources]

Grants == [client : Clients, resource : Resources]
Origins == [src : [kind : {"code", "refresh"}, id : Nat], root : Nat]

Idle == [step |-> "idle"]
Ops ==
    {Idle}
    \cup [step : {"put_code", "delete_state"}, row : StateRows]
    \cup [step : {"exchange_code"}, client : Clients, row : CodeRows]
    \cup [step : {"exchange_refresh"}, client : Clients, row : RefreshRows]
    \cup [step : {"reissue"}, client : Clients, row : RefreshRows,
          resource : Resources]
    \cup [step : {"revoke"}, token : TokenValues,
          by : {"client", "expiry"}]

TypeOK ==
    /\ oauth_states \subseteq StateRows
    /\ oauth_authorization_codes \subseteq CodeRows
    /\ oauth_access_tokens \subseteq AccessRows
    /\ oauth_refresh_tokens \subseteq RefreshRows
    /\ oauth_token_pairs \subseteq PairRows
    /\ op \in [Handlers -> Ops]
    /\ running \in Handlers \cup {Nobody}
    /\ now \in Nat
    /\ grants \in Seq(Grants)
    /\ minted \in Seq(Origins)

Init ==
    /\ oauth_states = {}
    /\ oauth_authorization_codes = {}
    /\ oauth_access_tokens = {}
    /\ oauth_refresh_tokens = {}
    /\ oauth_token_pairs = {}
    /\ op = [h \in Handlers |-> Idle]
    /\ running = Nobody
    /\ now = 0
    /\ grants = <<>>
    /\ minted = <<>>
-----------------------------------------------------------------------------
(* Scheduling of the handlers on the event loop.                           *)

CanRun(h) == running \in {h, Nobody}

\* The handler goes on inside the same method: nobody else may run.
Continue(h, o) ==
    /\ op' = [op EXCEPT ![h] = o]
    /\ running' = h

\* A load_* method returned a row to the caller, which will call another
\* method with it, possibly after a suspension.
HandToCaller(h, o) ==
    /\ op' = [op EXCEPT ![h] = o]
    /\ running' = IF CallerSuspends THEN Nobody ELSE h

\* The handler answers its request.
Finish(h) ==
    /\ op' = [op EXCEPT ![h] = Idle]
    /\ running' = Nobody

Tick ==
    /\ now < MaxTime
    /\ now' = now + 1
    /\ UNCHANGED <<tables, op, running, grants, minted>>

-----------------------------------------------------------------------------
(* /authorize and /login                                                   *)

\* authorize: the state is chosen by the client and the row of an earlier
\* request with the same state is replaced.
Authorize(s, client, resource) ==
    /\ running = Nobody
    /\ oauth_states' =
         {r \in oauth_states : r.state # s}
         \cup {[state |-> s, client |-> client, resource |-> resource,
                expires_at |-> now + StateTTL]}
    /\ UNCHANGED <<oauth_authorization_codes, tokenTables, op, running, now,
                   grants, minted>>

\* _load_state on a row that has expired deletes it.  It is reached from
\* get_login_page and from handle_login_callback, which then both fail.
LoadExpiredState(row) ==
    /\ running = Nobody
    /\ row \in oauth_states
    /\ row.expires_at < now
    /\ oauth_states' = {r \in oauth_states : r.state # row.state}
    /\ UNCHANGED <<oauth_authorization_codes, tokenTables, op, running, now,
                   grants, minted>>

\* handle_login_callback up to the password check, when it succeeds.
LoginCallback(h, row) ==
    /\ running = Nobody
    /\ op[h] = Idle
    /\ row \in oauth_states
    /\ row.expires_at >= now
    /\ Continue(h, [step |-> "put_code", row |-> row])
    /\ UNCHANGED <<tables, now, grants, minted>>

\* handle_login_callback: _put_model of the new authorization code.
PutCode(h) ==
    /\ CanRun(h)
    /\ op[h].step = "put_code"
    /\ Len(grants) < MaxCodes
    /\ LET row == op[h].row
           c   == Len(grants) + 1
       IN  /\ oauth_authorization_codes' =
                oauth_authorization_codes
                \cup {[code |-> c, client |-> row.client,
                       resource |-> row.resource,
                       expires_at |-> now + CodeTTL]}
           /\ grants' = Append(grants, [client   |-> row.client,
                                        resource |-> row.resource])
           /\ Continue(h, [step |-> "delete_state", row |-> row])
    /\ UNCHANGED <<oauth_states, tokenTables, now, minted>>

\* handle_login_callback: the state is consumed, the browser redirected.
DeleteState(h) ==
    /\ CanRun(h)
    /\ op[h].step = "delete_state"
    /\ oauth_states' = {r \in oauth_states : r.state # op[h].row.state}
    /\ Finish(h)
    /\ UNCHANGED <<oauth_authorization_codes, tokenTables, now, grants, minted>>

-----------------------------------------------------------------------------
(* /token                                                                  *)

\* _store_token_pair, after _issue_token_pair made the two values: the rows
\* of the new pair are added to what `access', `refresh' and `pairs' keep.
StoreTokenPair(access, refresh, pairs, client, resource, origin) ==
    LET n == Len(minted) + 1
    IN  /\ oauth_access_tokens' =
             access \cup {[token |-> AccessValue(n), client |-> client,
                           resource |-> resource,
                           expires_at |-> now + AccessTTL]}
        /\ oauth_refresh_tokens' =
             refresh \cup {[token |-> RefreshValue(n), client |-> client,
                            expires_at |-> now + RefreshTTL]}
        /\ oauth_token_pairs' =
             pairs \cup {[access_token |-> AccessValue(n),
                          refresh_token |-> RefreshValue(n),
                          resource |-> resource]}
        /\ minted' = Append(minted, origin)

\* The test of load_* and exchange_*: the row is one of the client that
\* makes the request.
MayUse_anyClient(client, row) == TRUE
MayUse(client, row) == row.client = client

\* The rowcount test of exchange_authorization_code.
CodeIsThere_unchecked(row) == TRUE
CodeIsThere(row) ==
    \E r \in oauth_authorization_codes : r.code = row.code

\* load_authorization_code for a client that was authenticated, then the
\* checks of the SDK's token handler that the row passes: not expired (the
\* redirect URI and the PKCE verifier are compared with the row and change
\* nothing here).
LoadCode(h, client, row) ==
    /\ running = Nobody
    /\ op[h] = Idle
    /\ row \in oauth_authorization_codes
    /\ MayUse(client, row)
    /\ row.expires_at >= now
    /\ HandToCaller(h, [step |-> "exchange_code", client |-> client,
                        row |-> row])
    /\ UNCHANGED <<tables, now, grants, minted>>

\* exchange_authorization_code: one transaction deletes the code and stores
\* a pair for the client of the request; or the code is another client's or
\* gone, and ValueError is raised.
ExchangeCode(h) ==
    /\ CanRun(h)
    /\ op[h].step = "exchange_code"
    /\ LET row == op[h].row
           usable == MayUse(op[h].client, row) /\ CodeIsThere(row)
       IN  \/ /\ usable
              /\ Len(minted) < MaxPairs
              /\ oauth_authorization_codes' =
                   {r \in oauth_authorization_codes : r.code # row.code}
              /\ StoreTokenPair(oauth_access_tokens, oauth_refresh_tokens,
                                oauth_token_pairs, op[h].client, row.resource,
                                [src |-> CodeValue(row.code),
                                 root |-> row.code])
           \/ /\ ~usable
              /\ UNCHANGED <<oauth_authorization_codes, tokenTables, minted>>
    /\ Finish(h)
    /\ UNCHANGED <<oauth_states, now, grants>>

\* load_refresh_token, then the checks of the SDK's token handler.
LoadRefresh(h, client, row) ==
    /\ running = Nobody
    /\ op[h] = Idle
    /\ row \in oauth_refresh_tokens
    /\ MayUse(client, row)
    /\ row.expires_at >= now
    /\ HandToCaller(h, [step |-> "exchange_refresh", client |-> client,
                        row |-> row])
    /\ UNCHANGED <<tables, now, grants, minted>>

\* The three DELETEs of exchange_refresh_token.
RotateOut_keepsPair(pair) ==
    /\ oauth_access_tokens' =
         {a \in oauth_access_tokens : a.token # pair.access_token}
    /\ UNCHANGED <<oauth_token_pairs, oauth_refresh_tokens>>
RotateOut(pair) ==
    /\ oauth_token_pairs' =
         {p \in oauth_token_pairs : p.refresh_token # pair.refresh_token}
    /\ oauth_access_tokens' =
         {a \in oauth_access_tokens : a.token # pair.access_token}
    /\ oauth_refresh_tokens' =
         {r \in oauth_refresh_tokens : r.token # pair.refresh_token}

\* The resource of the new pair is the one of the old.
RotatedResource_own(pair) == ResourceUrl
RotatedResource(pair) == pair.resource

\* exchange_refresh_token, first transaction: the old pair is deleted; or
\* the token is another client's or its pair gone, and ValueError is raised.
DeleteOldPair(h) ==
    /\ CanRun(h)
    /\ op[h].step = "exchange_refresh"
    /\ LET row == op[h].row
           usable == {p \in oauth_token_pairs : /\ MayUse(op[h].client, row)
                                               /\ p.refresh_token = row.token}
       IN  \/ \E pair \in usable :
                /\ RotateOut(pair)
                /\ Continue(h, [step |-> "reissue", client |-> op[h].client,
                                row |-> row,
                                resource |-> RotatedResource(pair)])
           \/ /\ usable = {}
              /\ Finish(h)
              /\ UNCHANGED tokenTables
    /\ UNCHANGED <<oauth_states, oauth_authorization_codes, now, grants,
                   minted>>

\* exchange_refresh_token, second transaction: _issue_token_pair for the
\* client of the request.
Reissue(h) ==
    /\ CanRun(h)
    /\ op[h].step = "reissue"
    /\ Len(minted) < MaxPairs
    /\ LET row == op[h].row
       IN  StoreTokenPair(oauth_access_tokens, oauth_refresh_tokens,
                          oauth_token_pairs, op[h].client, op[h].resource,
                          [src  |-> row.token,
                           root |-> minted[row.token.id].root])
    /\ Finish(h)
    /\ UNCHANGED <<oauth_states, oauth_authorization_codes, now, grants>>

-----------------------------------------------------------------------------
(* /revoke and the bearer check                                            *)

\* The SDK's revocation handler found the token with load_access_token or
\* load_refresh_token and the token is the client's own.
LoadForRevoke(h, token) ==
    /\ running = Nobody
    /\ op[h] = Idle
    /\ \/ \E a \in oauth_access_tokens : /\ a.token = token
                                         /\ a.expires_at >= now
                                         /\ a.resource = ResourceUrl
       \/ \E r \in oauth_refresh_tokens : r.token = token
    /\ HandToCaller(h, [step |-> "revoke", token |-> token, by |-> "client"])
    /\ UNCHANGED <<tables, now, grants, minted>>

\* load_access_token on a token that has expired calls revoke_token.  Every
\* request with a bearer token gets here, and so does /revoke.
LoadExpiredAccess(h, a) ==
    /\ running = Nobody
    /\ op[h] = Idle
    /\ a \in oauth_access_tokens
    /\ a.expires_at < now
    /\ Continue(h, [step |-> "revoke", token |-> a.token, by |-> "expiry"])
    /\ UNCHANGED <<tables, now, grants, minted>>

\* The pair that revoke_token selects: at most one, the columns are unique.
PairOf_accessOnly(token) == {p \in oauth_token_pairs : p.access_token = token}
PairOf(token) ==
    {p \in oauth_token_pairs : token \in {p.access_token, p.refresh_token}}

\* The three DELETEs of revoke_token.
RevokePair_keepsRefresh(pair) ==
    /\ oauth_token_pairs' =
         {p \in oauth_token_pairs : p.access_token # pair.access_token}
    /\ oauth_access_tokens' =
         {a \in oauth_access_tokens : a.token # pair.access_token}
    /\ UNCHANGED oauth_refresh_tokens
RevokePair(pair) ==
    /\ oauth_token_pairs' =
         {p \in oauth_token_pairs : p.access_token # pair.access_token}
    /\ oauth_access_tokens' =
         {a \in oauth_access_tokens : a.token # pair.access_token}
    /\ oauth_refresh_tokens' =
         {r \in oauth_refresh_tokens : r.token # pair.refresh_token}

\* revoke_token: both halves of the pair, or the lone value.
RevokeToken(h) ==
    /\ CanRun(h)
    /\ op[h].step = "revoke"
    /\ LET token == op[h].token
       IN  \/ \E pair \in PairOf(token) : RevokePair(pair)
           \/ /\ PairOf(token) = {}
              /\ oauth_access_tokens' =
                   {a \in oauth_access_tokens : a.token # token}
              /\ oauth_refresh_tokens' =
                   {r \in oauth_refresh_tokens : r.token # token}
              /\ UNCHANGED oauth_token_pairs
    /\ Finish(h)
    /\ UNCHANGED <<oauth_states, oauth_authorization_codes, now, grants,
                   minted>>

-----------------------------------------------------------------------------
(* Failures                                                                *)

\* The next transaction of h raises (database locked, disk full) and
\* `with connection` rolls it back, or its caller gives up after a load_*.
Abort(h) ==
    /\ CanRun(h)
    /\ op[h] # Idle
    /\ Finish(h)
    /\ UNCHANGED <<tables, now, grants, minted>>

\* The process dies and starts again on the same database file.
Crash ==
    /\ op' = [h \in Handlers |-> Idle]
    /\ running' = Nobody
    /\ UNCHANGED <<tables, now, grants, minted>>

Next ==
    \/ Tick
    \/ \E s \in States, c \in Clients, r \in Resources : Authorize(s, c, r)
    \/ \E row \in oauth_states : LoadExpiredState(row)
    \/ \E h \in Handlers :
         \/ \E row \in oauth_states : LoginCallback(h, row)
         \/ PutCode(h)
         \/ DeleteState(h)
         \/ \E client \in Clients, row \in oauth_authorization_codes :
              LoadCode(h, client, row)
         \/ ExchangeCode(h)
         \/ \E client \in Clients, row \in oauth_refresh_tokens :
              LoadRefresh(h, client, row)
         \/ DeleteOldPair(h)
         \/ Reissue(h)
         \/ \E t \in {a.token : a \in oauth_access_tokens}
                     \cup {r.token : r \in oauth_refresh_tokens} :
              LoadForRevoke(h, t)
         \/ \E a \in oauth_access_tokens : LoadExpiredAccess(h, a)
         \/ RevokeToken(h)
         \/ Abort(h)
    \/ Crash

Spec == Init /\ [][Next]_vars

-----------------------------------------------------------------------------
(* Properties                                                              *)

Reissuing(h) == op[h].step = "reissue"

\* The authorization code a pair, or a refresh token, descends from.
RootOf(token) == minted[token.id].root

\* The three token tables agree: revoke_token, exchange_refresh_token and
\* load_access_token find the other half of a token through
\* oauth_token_pairs only, so a half without its pair could be used but
\* neither rotated nor revoked with its sibling.
PairIntegrity ==
    /\ \A a \in oauth_access_tokens :
         \E p \in oauth_token_pairs : /\ p.access_token = a.token
                                     /\ p.resource = a.resource
    /\ \A r \in oauth_refresh_tokens :
         \E p \in oauth_token_pairs : p.refresh_token = r.token
    /\ \A p \in oauth_token_pairs :
         \E a \in oauth_access_tokens, r \in oauth_refresh_tokens :
           /\ a.token = p.access_token
           /\ r.token = p.refresh_token
           /\ a.client = r.client

\* A grant (one login) is held in one place at most: by its unredeemed
\* code, by one token pair, or by a handler between the two transactions
\* of exchange_refresh_token.  So no race of exchanges, rotations and
\* failures ever leaves two usable pairs of the same login.
OneHolder ==
    /\ \A p, q \in oauth_token_pairs :
         RootOf(p.refresh_token) = RootOf(q.refresh_token) => p = q
    /\ \A p \in oauth_token_pairs, r \in oauth_authorization_codes :
         RootOf(p.refresh_token) # r.code
    /\ \A h \in Handlers : Reissuing(h) =>
         /\ \A p \in oauth_token_pairs :
              RootOf(p.refresh_token) # RootOf(op[h].row.token)
         /\ \A r \in oauth_authorization_codes :
              r.code # RootOf(op[h].row.token)
         /\ \A k \in Handlers :
              Reissuing(k) /\ RootOf(op[k].row.token) = RootOf(op[h].row.token)
              => k = h

\* A code or a refresh token is honoured once: no two pairs were minted from
\* the same one, whichever handlers loaded it before it was spent
\* (exchange_authorization_code's rowcount, exchange_refresh_token's row).
SpentOnce ==
    \A i, j \in 1..Len(minted) : minted[i].src = minted[j].src => i = j

\* Every usable token carries the client and the resource of the login it
\* descends from, through any number of rotations: the client comes from
\* the request at each hop, the resource from the code and then the pair.
TokenBinding ==
    /\ \A a \in oauth_access_tokens :
         /\ a.client = grants[RootOf(a.token)].client
         /\ a.resource = grants[RootOf(a.token)].resource
    /\ \A r \in oauth_refresh_tokens : r.client = grants[RootOf(r.token)].client

\* What makes OneHolder, SpentOnce, PairIntegrity and TokenBinding inductive.
Code(c, row) == /\ c \in 1..Len(grants)
                /\ row.client = grants[c].client
                /\ row.resource = grants[c].resource

\* Unredeemed codes: one row each, and no pair descends from them yet.
CodesInv ==
    \A r \in oauth_authorization_codes :
      /\ Code(r.code, r)
      /\ \A q \in oauth_authorization_codes : q.code = r.code => q = r
      /\ \A n \in 1..Len(minted) : minted[n].root # r.code

\* Every pair was minted from the code of its root, or from the refresh
\* token of an earlier pair of that root.
MintedInv ==
    \A n \in 1..Len(minted) :
      /\ minted[n].root \in 1..Len(grants)
      /\ \/ minted[n].src = CodeValue(minted[n].root)
         \/ \E m \in 1..Len(minted) : /\ minted[n].src = RefreshValue(m)
                                     /\ minted[m].root = minted[n].root

\* A stored pair is one that was minted, carries the resource of its code,
\* is the only one of its root, and its refresh token is not spent.
PairsInv ==
    /\ \A p \in oauth_token_pairs :
         /\ p.refresh_token.id \in 1..Len(minted)
         /\ p.access_token = AccessValue(p.refresh_token.id)
         /\ p.refresh_token = RefreshValue(p.refresh_token.id)
         /\ p.resource = grants[RootOf(p.refresh_token)].resource
         /\ \A n \in 1..Len(minted) : minted[n].src # p.refresh_token
    /\ \A p, q \in oauth_token_pairs :
         RootOf(p.refresh_token) = RootOf(q.refresh_token) => p = q

\* A handler's rows: a row it loaded is what some code or token was, and in
\* the middle of a rotation the handler runs alone with the spent token.
Loaded(row) ==
    /\ row.token.id \in 1..Len(minted)
    /\ row.token = RefreshValue(row.token.id)
    /\ row.client = grants[RootOf(row.token)].client

HandlerInv(h) ==
    /\ op[h].step = "exchange_code" => Code(op[h].row.code, op[h].row)
    /\ op[h].step \in {"exchange_refresh", "reissue"} => Loaded(op[h].row)
    /\ Reissuing(h) =>
         /\ running = h
         /\ op[h].client = op[h].row.client
         /\ op[h].resource = grants[RootOf(op[h].row.token)].resource
         /\ \A p \in oauth_token_pairs :
              RootOf(p.refresh_token) # RootOf(op[h].row.token)
         /\ \A r \in oauth_authorization_codes :
              r.code # RootOf(op[h].row.token)
         /\ \A n \in 1..Len(minted) : minted[n].src # op[h].row.token

HandlersInv == \A h \in Handlers : HandlerInv(h)

\* All of the above about the tables and the histories.
DataInv ==
    /\ CodesInv
    /\ MintedInv
    /\ PairsInv
    /\ PairIntegrity
    /\ TokenBinding
    /\ SpentOnce

IndInv == TypeOK /\ DataInv /\ HandlersInv

Alive(c) ==
    \/ \E r \in oauth_authorization_codes : r.code = c
    \/ \E p \in oauth_token_pairs : RootOf(p.refresh_token) = c
    \/ \E h \in Handlers : Reissuing(h) /\ RootOf(op[h].row.token) = c

\* A grant that ended (revoked, expired away, lost by a failure) never comes
\* back, although handlers may still hold rows they loaded while it lived.
EndedStaysEnded ==
    [][\A c \in 1..Len(grants) : ~Alive(c) => ~Alive(c)']_vars

\* When revoke_token returns, the grant of the token is over: neither half
\* of the pair is left.  It needs a revocation handler that does not suspend
\* between the load and the revocation, as the SDK's does not.
RevocationIsFinal ==
    [][\A h \in Handlers :
         RevokeToken(h) =>
           \A c \in 1..Len(grants) :
             c = RootOf(op[h].token) => ~Alive(c)']_vars

\* The refresh token of a pair is usable for RefreshTTL: while it has not
\* expired its row is deleted only when the client rotates or revokes the
\* pair.  (The constructor's refresh_token_ttl_seconds, 30 days, beside an
\* access token of 1 hour.)
UnexpiredRefreshSurvives ==
    [][\A r \in oauth_refresh_tokens :
         r.expires_at >= now /\ r \notin oauth_refresh_tokens' =>
           \E h \in Handlers : \/ /\ op[h].step = "exchange_refresh"
                                 /\ op[h].row.token = r.token
                              \/ /\ op[h].step = "revoke"
                                 /\ op[h].by = "client"]_vars

-----------------------------------------------------------------------------
(* The mapping under which the tables implement GrantLifecycle.            *)

Codes == 1..MaxCodes

GrantPhase(c) ==
    IF c > Len(grants) THEN "unissued"
    ELSE IF \E r \in oauth_authorization_codes : r.code = c THEN "code"
    ELSE IF \E p \in oauth_token_pairs : RootOf(p.refresh_token) = c
         THEN "live"
    ELSE IF \E h \in Handlers : Reissuing(h) /\ RootOf(op[h].row.token) = c
         THEN "rotating"
    ELSE "ended"

\* The pair of a live grant is the one in the table, that of a rotating
\* grant the one the handler has just deleted.
GrantPair(c) ==
    CASE GrantPhase(c) = "live" ->
           (CHOOSE p \in oauth_token_pairs : RootOf(p.refresh_token) = c).refresh_token.id
      [] GrantPhase(c) = "rotating" ->
           op[CHOOSE h \in Handlers :
                Reissuing(h) /\ RootOf(op[h].row.token) = c].row.token.id
      [] OTHER -> 0

Lifecycle == INSTANCE GrantLifecycle
    WITH Grants <- Codes,
         phase  <- [c \in Codes |-> GrantPhase(c)],
         pair   <- [c \in Codes |-> GrantPair(c)],
         issued <- Len(minted)

\* The tables, with their in-flight handlers, implement the life cycle of
\* GrantLifecycle: every transaction of oauth.py is a step of it or none.
ImplementsGrantLifecycle == Lifecycle!Spec
=============================================================================
