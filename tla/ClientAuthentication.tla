------------------------ MODULE ClientAuthentication ------------------------
(***************************************************************************)
(* Which client a token or revocation request is made by, and on what      *)
(* proof: authenticate_request of src/src/finance_mcp/oauth_client_auth.py *)
(* with FinanceOAuthProvider.get_client and is_cimd_client of oauth.py.    *)
(*                                                                         *)
(* A client id that is a URL (CIMD) names a document that its owner may    *)
(* change at any time; get_client caches it.  Loads of one document may    *)
(* overlap and end in any order.  The authenticator of the SDK, to which   *)
(* clients of other methods are passed on, calls get_client once more.     *)
(* Verifying an assertion is PrivateKeyJWTClientAuthenticator; here it     *)
(* succeeds or fails.                                                      *)
(*                                                                         *)
(* One step is what runs between two reads of the clock or suspensions.    *)
(***************************************************************************)
EXTENDS Naturals

CONSTANTS
    Requests,     \* requests being authenticated
    Nobody,       \* no request
    CimdClients,  \* client ids that are https:// URLs
    OtherIds,     \* other client ids
    Registered,   \* oauth_clients: the method of each registered client id
    CacheTTL,     \* the 300 s of get_client, in ticks
    MaxVersions   \* bound on the changes of a document

Methods == {"none", "client_secret", "private_key_jwt"}

ASSUME RegisteredAssumption ==
    /\ DOMAIN Registered \subseteq CimdClients \cup OtherIds
    /\ \A id \in DOMAIN Registered : Registered[id] \in Methods
ASSUME RequestsAssumption == Nobody \notin Requests
ASSUME CacheAssumption == CacheTTL \in Nat \ {0} /\ MaxVersions \in Nat

VARIABLES
    document,     \* the document published at each URL
    cimd_cache,   \* self._cimd_cache, with the time each entry has left
    request,      \* where each request is
    running       \* the request that has the event loop, or Nobody

vars == <<document, cimd_cache, request, running>>

\* `invalid' stands for every document that _load_cimd_client refuses.
Documents == [version : 0..MaxVersions,
              method : {"none", "private_key_jwt", "invalid"}]
ClientRecords == [version : 0..MaxVersions, method : Methods]

\* What the form holds: a client assertion; else the code and the verifier
\* of an authorization_code grant at /token; else neither.
Proofs == {"assertion", "pkce", "nothing"}

\* Who called get_client: authenticate_request or the SDK's authenticator.
Callers == {"finance", "sdk"}

Idle == [step |-> "idle"]
Steps ==
    {Idle}
    \cup [step : {"lookup", "fetch"}, id : CimdClients \cup OtherIds,
          proof : Proofs, caller : Callers]
    \cup [step : {"load"}, id : CimdClients, proof : Proofs, caller : Callers,
          loaded : Documents]
    \cup [step : {"decide", "check_cimd", "verify"},
          id : CimdClients \cup OtherIds, proof : Proofs, caller : Callers,
          client : ClientRecords]
    \cup [step : {"accepted"}, id : CimdClients \cup OtherIds, proof : Proofs,
          client : ClientRecords, by : {"assertion", "pkce", "sdk"}]

TypeOK ==
    /\ document \in [CimdClients -> Documents]
    /\ DOMAIN cimd_cache \subseteq CimdClients
    /\ \A u \in DOMAIN cimd_cache :
         cimd_cache[u] \in [left : 0..CacheTTL, client : ClientRecords]
    /\ request \in [Requests -> Steps]
    /\ running \in Requests \cup {Nobody}

Init ==
    /\ document \in [CimdClients -> {d \in Documents : d.version = 0}]
    /\ cimd_cache = [u \in {} |-> Idle]
    /\ request = [r \in Requests |-> Idle]
    /\ running = Nobody

-----------------------------------------------------------------------------
(* A definition Name_variant just before Name is Name with a bug: the      *)
(* mutation runs use it in place of Name, the specification never does.    *)

CanRun(r) == running \in {r, Nobody}

\* r goes on without suspending.
Continue(r, s) == request' = [request EXCEPT ![r] = s] /\ running' = r

\* r suspends, or answers its request.
Yield(r, s) == request' = [request EXCEPT ![r] = s] /\ running' = Nobody

Reject(r) == Yield(r, Idle)

Accept(r, by) ==
    Yield(r, [step |-> "accepted", id |-> request[r].id,
              proof |-> request[r].proof, client |-> request[r].client,
              by |-> by])

\* get_client found the client, and its caller decides.
Found(r, client) ==
    Continue(r, [step |-> "decide", id |-> request[r].id,
                 proof |-> request[r].proof, caller |-> request[r].caller,
                 client |-> client])

\* The clock: `cached[0] > time.monotonic()' is `left > 0'.
Tick ==
    /\ \E u \in DOMAIN cimd_cache : cimd_cache[u].left > 0
    /\ cimd_cache' = [u \in DOMAIN cimd_cache |->
                        [cimd_cache[u] EXCEPT !.left = IF @ > 0 THEN @ - 1 ELSE 0]]
    /\ UNCHANGED <<document, request, running>>

\* The owner of a CIMD client changes its document.
Publish(u, method) ==
    /\ document[u].version < MaxVersions
    /\ document' = [document EXCEPT ![u] = [version |-> @.version + 1,
                                            method |-> method]]
    /\ UNCHANGED <<cimd_cache, request, running>>

-----------------------------------------------------------------------------
(* get_client                                                              *)

Fresh_always(u) == u \in DOMAIN cimd_cache
Fresh(u) == u \in DOMAIN cimd_cache /\ cimd_cache[u].left > 0

\* Registered clients first, then the cache; else a URL is loaded and any
\* other id is unknown.
LookUp(r) ==
    /\ CanRun(r)
    /\ request[r].step = "lookup"
    /\ LET id == request[r].id
       IN  \/ /\ id \in DOMAIN Registered
              /\ Found(r, [version |-> 0, method |-> Registered[id]])
           \/ /\ id \in CimdClients \ DOMAIN Registered
              /\ Fresh(id)
              /\ Found(r, cimd_cache[id].client)
           \/ /\ id \in CimdClients \ DOMAIN Registered
              /\ ~Fresh(id)
              /\ Yield(r, [request[r] EXCEPT !.step = "fetch"])
           \/ /\ id \notin CimdClients \cup DOMAIN Registered
              /\ Reject(r)
    /\ UNCHANGED <<document, cimd_cache>>

\* _load_cimd_client: the server of the document answers with what it has
\* now; the answer is on its way, and its jwks_uri is still to be resolved.
Fetch(r) ==
    /\ running = Nobody
    /\ request[r].step = "fetch"
    /\ Yield(r, [step |-> "load", id |-> request[r].id,
                 proof |-> request[r].proof, caller |-> request[r].caller,
                 loaded |-> document[request[r].id]])
    /\ UNCHANGED <<document, cimd_cache>>

\* What _load_cimd_client makes a client of.
Usable_anyDocument(d) == TRUE
Usable(d) == d.method # "invalid"

\* The load ends with a client, which is cached for CacheTTL whatever has
\* been cached since.
Load(r) ==
    /\ running = Nobody
    /\ request[r].step = "load"
    /\ LET id     == request[r].id
           client == request[r].loaded
       IN  /\ Usable(client)
           /\ cimd_cache' = [u \in DOMAIN cimd_cache \cup {id} |->
                               IF u = id
                               THEN [left |-> CacheTTL, client |-> client]
                               ELSE cimd_cache[u]]
           /\ Found(r, client)
    /\ UNCHANGED document

\* The load ends without one: a bad URL, a name that does not resolve to
\* public addresses, a failed or refused answer.  Nothing is cached.
LoadFails(r) ==
    /\ running = Nobody
    /\ request[r].step \in {"fetch", "load"}
    /\ Reject(r)
    /\ UNCHANGED <<document, cimd_cache>>

-----------------------------------------------------------------------------
(* authenticate_request                                                    *)

Receive(r, id, proof) ==
    /\ running = Nobody
    /\ request[r].step \in {"idle", "accepted"}
    /\ Continue(r, [step |-> "lookup", id |-> id, proof |-> proof,
                    caller |-> "finance"])
    /\ UNCHANGED <<document, cimd_cache>>

\* The decision of authenticate_request on the client it got.
Decide(r) ==
    /\ CanRun(r)
    /\ request[r].step = "decide"
    /\ request[r].caller = "finance"
    /\ LET q == request[r]
           jwt == q.client.method = "private_key_jwt"
       IN  \/ /\ ~jwt
              /\ Continue(r, [step |-> "lookup", id |-> q.id,
                              proof |-> q.proof, caller |-> "sdk"])
           \/ /\ jwt /\ q.proof = "assertion"
              /\ Yield(r, [q EXCEPT !.step = "verify"])
           \/ /\ jwt /\ q.proof = "pkce"
              /\ Continue(r, [q EXCEPT !.step = "check_cimd"])
           \/ /\ jwt /\ q.proof = "nothing"
              /\ Reject(r)
    /\ UNCHANGED <<document, cimd_cache>>

\* The SDK's authenticator on the client it got: the secret, when there is
\* one, is right or wrong; it knows no private_key_jwt.
SdkDecides(r) ==
    /\ CanRun(r)
    /\ request[r].step = "decide"
    /\ request[r].caller = "sdk"
    /\ \/ request[r].client.method # "private_key_jwt" /\ Accept(r, "sdk")
       \/ request[r].client.method # "none" /\ Reject(r)
    /\ UNCHANGED <<document, cimd_cache>>

\* is_cimd_client.
IsCimdClient_inMemory(id) == id \in CimdClients
IsCimdClient(id) == id \notin DOMAIN Registered /\ Fresh(id)

\* The exchange of a code without an assertion: PKCE is checked later.
CheckCimd(r) ==
    /\ CanRun(r)
    /\ request[r].step = "check_cimd"
    /\ IF IsCimdClient(request[r].id) THEN Accept(r, "pkce") ELSE Reject(r)
    /\ UNCHANGED <<document, cimd_cache>>

\* _verify_assertion.
Verify(r) ==
    /\ running = Nobody
    /\ request[r].step = "verify"
    /\ Accept(r, "assertion") \/ Reject(r)
    /\ UNCHANGED <<document, cimd_cache>>

Next ==
    \/ Tick
    \/ \E u \in CimdClients, m \in {"none", "private_key_jwt", "invalid"} :
         Publish(u, m)
    \/ \E r \in Requests :
         \/ \E id \in CimdClients \cup OtherIds, p \in Proofs : Receive(r, id, p)
         \/ LookUp(r)
         \/ Fetch(r)
         \/ Load(r)
         \/ LoadFails(r)
         \/ Decide(r)
         \/ SdkDecides(r)
         \/ CheckCimd(r)
         \/ Verify(r)

\* The clock goes on.  Nothing has to be loaded, and no request has to come.
Spec == Init /\ [][Next]_vars /\ WF_vars(Tick)

-----------------------------------------------------------------------------
(* Properties                                                              *)

\* How a client that was accepted, with the record that the handler gets, may
\* have proved who it is.
Fits(a) ==
    /\ a.by = "assertion" => /\ a.client.method = "private_key_jwt"
                             /\ a.proof = "assertion"
    /\ a.by = "pkce"      => /\ a.client.method = "private_key_jwt"
                             /\ a.proof = "pkce"
                             /\ a.id \notin DOMAIN Registered
    /\ a.by = "sdk"       => a.client.method # "private_key_jwt"

\* Whoever was accepted proved it in the way the very client record returned
\* to the handler asks for, although the record was looked up twice and its
\* document may have changed in between: a private_key_jwt client without an
\* assertion only as a CIMD client that exchanges a code with PKCE.
ProofFitsClient ==
    \A r \in Requests : request[r].step = "accepted" => Fits(request[r])

\* When a client is accepted on PKCE alone, is_cimd_client has looked at the
\* very record that get_client returned: no other load can have replaced it,
\* and it has not expired.
PkceClientIsCached ==
    [][\A r \in Requests :
         request[r].step = "check_cimd" /\ request'[r].step = "accepted" =>
           /\ request[r].id \in DOMAIN cimd_cache
           /\ cimd_cache[request[r].id].client = request[r].client
           /\ cimd_cache[request[r].id].left > 0]_vars

\* A change of a document takes effect: loads that end late may cache an
\* older version once more, but from some time on nothing but the last
\* version is served from the cache.
OldDocumentsDieOut ==
    \A u \in CimdClients : <>[](Fresh(u) => cimd_cache[u].client = document[u])
=============================================================================
