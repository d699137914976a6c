--------------------- MODULE ClientAuthentication_proofs ---------------------
(***************************************************************************)
(* Proofs about ClientAuthentication, for any requests, clients, documents *)
(* and lifetimes: the type invariant, ProofFitsClient and                  *)
(* PkceClientIsCached.                                                     *)
(***************************************************************************)
EXTENDS ClientAuthentication, TLAPS

-----------------------------------------------------------------------------
(* The inductive invariant                                                 *)

Unregistered == CimdClients \ DOMAIN Registered

\* Only the document of an unregistered CIMD client is ever loaded.
LoadsAreCimd ==
    \A r \in Requests :
      request[r].step \in {"fetch", "load"} => request[r].id \in Unregistered

\* authenticate_request has not suspended since get_client answered, and what
\* it answered for an unregistered client is what the cache holds.
Deciding(q) ==
    \/ q.step = "check_cimd"
    \/ q.step = "decide" /\ q.caller = "finance"

DecidesOnCached ==
    \A r \in Requests :
      Deciding(request[r]) =>
        /\ running = r
        /\ request[r].id \in Unregistered =>
             /\ request[r].id \in DOMAIN cimd_cache
             /\ cimd_cache[request[r].id].client = request[r].client

\* What Decide has found out about the requests that go on.
DecisionsKept ==
    \A r \in Requests :
      request[r].step \in {"check_cimd", "verify"} =>
        /\ request[r].client.method = "private_key_jwt"
        /\ request[r].proof =
             IF request[r].step = "verify" THEN "assertion" ELSE "pkce"

IndInv ==
    TypeOK /\ LoadsAreCimd /\ DecidesOnCached /\ DecisionsKept /\ ProofFitsClient

\* The tables and requests of a fresh process satisfy the invariant.
LEMMA InitInv == Init => IndInv
<1> SUFFICES ASSUME Init PROVE IndInv
  OBVIOUS
<1>1. \A r \in Requests : request[r].step = "idle"
  BY DEF Init, Idle
<1>2. TypeOK
  <2>1. request \in [Requests -> Steps]
    BY DEF Init, Steps
  <2>2. document \in [CimdClients -> Documents]
    BY DEF Init
  <2> QED
    BY <2>1, <2>2 DEF Init, TypeOK
<1> QED
  BY <1>1, <1>2
     DEF IndInv, LoadsAreCimd, DecidesOnCached, Deciding, DecisionsKept,
         ProofFitsClient

\* A step of one request that leaves the clock and the documents alone.  What
\* it goes on to is enough to know that IndInv is kept.
LEMMA StepInv ==
    ASSUME IndInv, NEW r \in Requests, NEW s \in Steps,
           NEW next \in {r, Nobody},
           running \in {r, Nobody},
           request' = [request EXCEPT ![r] = s],
           running' = next,
           UNCHANGED <<document, cimd_cache>>,
           s.step \in {"fetch", "load"} => s.id \in Unregistered,
           Deciding(s) =>
             /\ next = r
             /\ s.id \in Unregistered =>
                  /\ s.id \in DOMAIN cimd_cache
                  /\ cimd_cache[s.id].client = s.client,
           s.step \in {"check_cimd", "verify"} =>
             /\ s.client.method = "private_key_jwt"
             /\ s.proof = IF s.step = "verify" THEN "assertion" ELSE "pkce",
           s.step = "accepted" => Fits(s)
    PROVE  IndInv'
<1>1. TypeOK'
  BY DEF IndInv, TypeOK
<1>2. \A q \in Requests : request'[q] = IF q = r THEN s ELSE request[q]
  BY DEF IndInv, TypeOK
<1>3. LoadsAreCimd'
  BY <1>2 DEF IndInv, LoadsAreCimd, Unregistered
<1>4. DecidesOnCached'
  <2> SUFFICES ASSUME NEW q \in Requests, Deciding(request'[q])
               PROVE  /\ running' = q
                      /\ request'[q].id \in Unregistered =>
                           /\ request'[q].id \in DOMAIN cimd_cache'
                           /\ cimd_cache'[request'[q].id].client
                                = request'[q].client
    BY DEF DecidesOnCached, Deciding, Unregistered
  <2>1. CASE q = r
    BY <2>1, <1>2
  <2>2. CASE q # r
    <3>1. Deciding(request[q])
      BY <2>2, <1>2
    <3>2. running = q
      BY <3>1 DEF IndInv, DecidesOnCached
    <3> QED
      BY <2>2, <3>2, RequestsAssumption
  <2> QED
    BY <2>1, <2>2
<1>5. DecisionsKept'
  BY <1>2 DEF IndInv, DecisionsKept
<1>6. ProofFitsClient'
  BY <1>2 DEF IndInv, ProofFitsClient
<1> QED
  BY <1>1, <1>3, <1>4, <1>5, <1>6 DEF IndInv

-----------------------------------------------------------------------------
(* What the steps of a request hold                                        *)

\* A request inside get_client knows whom it asks about and for whom.
LEMMA AskingType ==
    ASSUME TypeOK, NEW r \in Requests,
           request[r].step \in {"lookup", "fetch", "load"}
    PROVE  /\ request[r].id \in CimdClients \cup OtherIds
           /\ request[r].proof \in Proofs
           /\ request[r].caller \in Callers
           /\ request[r].step = "load" => request[r].loaded \in Documents
           /\ request[r].step = "lookup" =>
                request[r] \in [step : {"lookup", "fetch"},
                                id : CimdClients \cup OtherIds,
                                proof : Proofs, caller : Callers]
<1> request[r] \in Steps
  BY DEF TypeOK
<1> QED
  BY DEF Steps, Idle

\* A request with a client has the record of that client.
LEMMA DecidingType ==
    ASSUME TypeOK, NEW r \in Requests,
           request[r].step \in {"decide", "check_cimd", "verify"}
    PROVE  request[r] \in [step : {"decide", "check_cimd", "verify"},
                           id : CimdClients \cup OtherIds,
                           proof : Proofs, caller : Callers,
                           client : ClientRecords]
<1> request[r] \in Steps
  BY DEF TypeOK
<1> QED
  BY DEF Steps, Idle

\* Giving up, and answering, are steps that StepInv is about.
LEMMA RejectInv ==
    ASSUME IndInv, NEW r \in Requests, running \in {r, Nobody}, Reject(r),
           UNCHANGED <<document, cimd_cache>>
    PROVE  IndInv'
<1> Idle \in Steps /\ Idle.step = "idle" /\ ~Deciding(Idle)
  BY DEF Steps, Idle, Deciding
<1> QED
  BY StepInv DEF Reject, Yield

\* Accepting is a step that StepInv is about as well.
LEMMA AcceptInv ==
    ASSUME IndInv, NEW r \in Requests, running \in {r, Nobody},
           NEW by \in {"assertion", "pkce", "sdk"}, Accept(r, by),
           request[r].step \in {"decide", "check_cimd", "verify"},
           by = "assertion" => /\ request[r].client.method = "private_key_jwt"
                               /\ request[r].proof = "assertion",
           by = "pkce" => /\ request[r].client.method = "private_key_jwt"
                          /\ request[r].proof = "pkce"
                          /\ request[r].id \notin DOMAIN Registered,
           by = "sdk" => request[r].client.method # "private_key_jwt",
           UNCHANGED <<document, cimd_cache>>
    PROVE  IndInv'
<1> DEFINE s == [step |-> "accepted", id |-> request[r].id,
                 proof |-> request[r].proof, client |-> request[r].client,
                 by |-> by]
<1>1. s \in Steps
  BY DecidingType DEF IndInv, Steps
<1>2. s.step = "accepted" /\ ~Deciding(s)
  BY DEF Deciding
<1>3. Fits(s)
  BY DEF Fits
<1>4. request' = [request EXCEPT ![r] = s] /\ running' = Nobody
  BY DEF Accept, Yield
<1> HIDE DEF s
<1> QED
  BY <1>1, <1>2, <1>3, <1>4, StepInv

\* get_client has found a client without a load.
LEMMA FoundInv ==
    ASSUME IndInv, NEW r \in Requests, running \in {r, Nobody},
           NEW client \in ClientRecords, Found(r, client),
           request[r].step = "lookup",
           request[r].id \in Unregistered =>
             /\ request[r].id \in DOMAIN cimd_cache
             /\ cimd_cache[request[r].id].client = client,
           UNCHANGED <<document, cimd_cache>>
    PROVE  IndInv'
<1> DEFINE s == [step |-> "decide", id |-> request[r].id,
                 proof |-> request[r].proof, caller |-> request[r].caller,
                 client |-> client]
<1>1. s \in Steps
  BY AskingType DEF IndInv, Steps
<1>2. /\ s.step = "decide" /\ s.id = request[r].id
      /\ s.client = client
  OBVIOUS
<1>3. request' = [request EXCEPT ![r] = s] /\ running' = r
  BY DEF Found, Continue
<1> HIDE DEF s
<1> QED
  BY <1>1, <1>2, <1>3, StepInv

-----------------------------------------------------------------------------
(* Every action keeps the invariant                                        *)

\* Time only takes from the time an entry has left.
LEMMA TickInv == IndInv /\ Tick => IndInv'
<1> SUFFICES ASSUME IndInv, Tick PROVE IndInv'
  OBVIOUS
<1>1. /\ DOMAIN cimd_cache' = DOMAIN cimd_cache
      /\ \A u \in DOMAIN cimd_cache :
           /\ cimd_cache'[u] \in [left : 0..CacheTTL, client : ClientRecords]
           /\ cimd_cache'[u].client = cimd_cache[u].client
  BY CacheAssumption DEF IndInv, TypeOK, Tick
<1>2. UNCHANGED <<document, request, running>>
  BY DEF Tick
<1>3. TypeOK'
  BY <1>1, <1>2 DEF IndInv, TypeOK
<1> QED
  BY <1>1, <1>2, <1>3
     DEF IndInv, LoadsAreCimd, DecidesOnCached, Deciding, DecisionsKept,
         ProofFitsClient, Unregistered

\* The owner of a document touches nothing of the server.
LEMMA PublishInv ==
    ASSUME IndInv, NEW u \in CimdClients,
           NEW m \in {"none", "private_key_jwt", "invalid"}, Publish(u, m)
    PROVE  IndInv'
<1>1. UNCHANGED <<cimd_cache, request, running>>
  BY DEF Publish
<1>2. TypeOK'
  <2>1. [version |-> document[u].version + 1, method |-> m] \in Documents
    BY CacheAssumption DEF IndInv, TypeOK, Publish, Documents
  <2> QED
    BY <1>1, <2>1 DEF IndInv, TypeOK, Publish
<1> QED
  BY <1>1, <1>2
     DEF IndInv, LoadsAreCimd, DecidesOnCached, Deciding, DecisionsKept,
         ProofFitsClient, Unregistered

\* get_client without a load (oauth.py 148-162).
LEMMA LookUpInv ==
    ASSUME IndInv, NEW r \in Requests, LookUp(r)
    PROVE  IndInv'
<1> DEFINE id == request[r].id
<1>1. running \in {r, Nobody} /\ request[r].step = "lookup"
  BY DEF LookUp, CanRun
<1>2. UNCHANGED <<document, cimd_cache>>
  BY DEF LookUp
<1>3. CASE /\ id \in DOMAIN Registered
           /\ Found(r, [version |-> 0, method |-> Registered[id]])
  <2>1. [version |-> 0, method |-> Registered[id]] \in ClientRecords
    BY <1>3, RegisteredAssumption, CacheAssumption DEF ClientRecords
  <2> QED
    BY <1>1, <1>2, <1>3, <2>1, FoundInv DEF Unregistered
<1>4. CASE /\ id \in CimdClients \ DOMAIN Registered
           /\ Fresh(id)
           /\ Found(r, cimd_cache[id].client)
  <2>1. id \in DOMAIN cimd_cache /\ cimd_cache[id].client \in ClientRecords
    BY <1>4 DEF Fresh, IndInv, TypeOK
  <2> QED
    BY <1>1, <1>2, <1>4, <2>1, FoundInv
<1>5. CASE /\ id \in CimdClients \ DOMAIN Registered
           /\ Yield(r, [request[r] EXCEPT !.step = "fetch"])
  <2> DEFINE s == [request[r] EXCEPT !.step = "fetch"]
  <2>1. /\ s \in Steps
        /\ s.step = "fetch"
        /\ s.id = id
    BY <1>1, AskingType DEF IndInv, Steps
  <2>2. ~Deciding(s)
    BY <2>1 DEF Deciding
  <2>3. request' = [request EXCEPT ![r] = s] /\ running' = Nobody
    BY <1>5 DEF Yield
  <2> HIDE DEF s
  <2> QED
    BY <1>1, <1>2, <1>5, <2>1, <2>2, <2>3, StepInv DEF Unregistered
<1>6. CASE Reject(r)
  BY <1>1, <1>2, <1>6, RejectInv
<1> QED
  BY <1>3, <1>4, <1>5, <1>6 DEF LookUp

\* _load_cimd_client up to the answer of the document's server.
LEMMA FetchInv ==
    ASSUME IndInv, NEW r \in Requests, Fetch(r)
    PROVE  IndInv'
<1> DEFINE s == [step |-> "load", id |-> request[r].id,
                 proof |-> request[r].proof, caller |-> request[r].caller,
                 loaded |-> document[request[r].id]]
<1>1. request[r].id \in Unregistered
  BY DEF Fetch, IndInv, LoadsAreCimd
<1>2. s \in Steps
  BY <1>1, AskingType DEF Fetch, IndInv, TypeOK, Steps, Unregistered
<1>3. s.step = "load" /\ s.id = request[r].id /\ ~Deciding(s)
  BY DEF Deciding
<1>4. /\ request' = [request EXCEPT ![r] = s]
      /\ running = Nobody /\ running' = Nobody
      /\ UNCHANGED <<document, cimd_cache>>
  BY DEF Fetch, Yield
<1> HIDE DEF s
<1> QED
  BY <1>1, <1>2, <1>3, <1>4, StepInv

\* Nobody is deciding when a load ends, so nobody notices that the cache
\* changes.
LEMMA LoadInv ==
    ASSUME IndInv, NEW r \in Requests, Load(r)
    PROVE  IndInv'
<1> DEFINE id == request[r].id
           client == request[r].loaded
           s == [step |-> "decide", id |-> id, proof |-> request[r].proof,
                 caller |-> request[r].caller, client |-> client]
<1>1. id \in Unregistered /\ running = Nobody /\ request[r].step = "load"
  BY DEF Load, IndInv, LoadsAreCimd
<1>2. client \in ClientRecords
  BY <1>1, AskingType
     DEF Load, Usable, IndInv, Documents, ClientRecords, Methods
<1>3. s \in Steps
  BY <1>1, <1>2, AskingType DEF IndInv, Steps
<1>4. /\ request' = [request EXCEPT ![r] = s]
      /\ running' = r
      /\ document' = document
  BY DEF Load, Found, Continue
<1>5. /\ DOMAIN cimd_cache' = DOMAIN cimd_cache \cup {id}
      /\ cimd_cache'[id] = [left |-> CacheTTL, client |-> client]
      /\ \A u \in DOMAIN cimd_cache : u # id => cimd_cache'[u] = cimd_cache[u]
  BY DEF Load
<1>6. TypeOK'
  <2>1. [left |-> CacheTTL, client |-> client]
          \in [left : 0..CacheTTL, client : ClientRecords]
    BY <1>2, CacheAssumption
  <2>2. \A u \in DOMAIN cimd_cache' :
          cimd_cache'[u] \in [left : 0..CacheTTL, client : ClientRecords]
    BY <1>5, <2>1 DEF IndInv, TypeOK
  <2>3. DOMAIN cimd_cache' \subseteq CimdClients
    BY <1>1, <1>5 DEF IndInv, TypeOK, Unregistered
  <2>4. request' \in [Requests -> Steps]
    BY <1>3, <1>4 DEF IndInv, TypeOK
  <2> QED
    BY <1>4, <2>2, <2>3, <2>4 DEF IndInv, TypeOK
<1>7. \A q \in Requests : request'[q] = IF q = r THEN s ELSE request[q]
  BY <1>4 DEF IndInv, TypeOK
<1>8. s.step = "decide" /\ s.id = id /\ s.client = client
  OBVIOUS
<1>9. \A q \in Requests : q # r => ~Deciding(request'[q])
  BY <1>1, <1>7, RequestsAssumption DEF IndInv, DecidesOnCached
<1> HIDE DEF s
<1>10. DecidesOnCached'
  <2> SUFFICES ASSUME NEW q \in Requests, Deciding(request'[q])
               PROVE  /\ running' = q
                      /\ request'[q].id \in DOMAIN cimd_cache'
                      /\ cimd_cache'[request'[q].id].client
                           = request'[q].client
    BY DEF DecidesOnCached, Deciding, Unregistered
  <2>1. q = r
    BY <1>9
  <2> QED
    BY <2>1, <1>4, <1>5, <1>7, <1>8
<1>11. LoadsAreCimd' /\ DecisionsKept' /\ ProofFitsClient'
  BY <1>7, <1>8
     DEF IndInv, LoadsAreCimd, DecisionsKept, ProofFitsClient, Unregistered
<1> QED
  BY <1>6, <1>10, <1>11 DEF IndInv

\* _load_cimd_client without a client: the request is refused.
LEMMA LoadFailsInv ==
    ASSUME IndInv, NEW r \in Requests, LoadFails(r)
    PROVE  IndInv'
BY RejectInv DEF LoadFails

\* The start of authenticate_request.
LEMMA ReceiveInv ==
    ASSUME IndInv, NEW r \in Requests,
           NEW id \in CimdClients \cup OtherIds, NEW proof \in Proofs,
           Receive(r, id, proof)
    PROVE  IndInv'
<1> DEFINE s == [step |-> "lookup", id |-> id, proof |-> proof,
                 caller |-> "finance"]
<1>1. s \in Steps /\ s.step = "lookup" /\ ~Deciding(s)
  BY DEF Steps, Callers, Deciding
<1>2. /\ request' = [request EXCEPT ![r] = s]
      /\ running = Nobody /\ running' = r
      /\ UNCHANGED <<document, cimd_cache>>
  BY DEF Receive, Continue
<1> HIDE DEF s
<1> QED
  BY <1>1, <1>2, StepInv

\* The branches of authenticate_request on the client's method and form.
LEMMA DecideInv ==
    ASSUME IndInv, NEW r \in Requests, Decide(r)
    PROVE  IndInv'
<1> DEFINE q == request[r]
           jwt == q.client.method = "private_key_jwt"
<1>1. /\ q.step = "decide" /\ q.caller = "finance"
      /\ UNCHANGED <<document, cimd_cache>>
  BY DEF Decide
<1>2. /\ running = r
      /\ q.id \in Unregistered =>
           /\ q.id \in DOMAIN cimd_cache
           /\ cimd_cache[q.id].client = q.client
  BY <1>1 DEF IndInv, DecidesOnCached, Deciding
<1>3. q \in [step : {"decide", "check_cimd", "verify"},
             id : CimdClients \cup OtherIds, proof : Proofs, caller : Callers,
             client : ClientRecords]
  BY <1>1, DecidingType DEF IndInv
<1>4. CASE Continue(r, [step |-> "lookup", id |-> q.id, proof |-> q.proof,
                        caller |-> "sdk"])
  <2> DEFINE s == [step |-> "lookup", id |-> q.id, proof |-> q.proof,
                   caller |-> "sdk"]
  <2>1. s \in Steps /\ s.step = "lookup" /\ ~Deciding(s)
    BY <1>3 DEF Steps, Callers, Deciding
  <2>2. request' = [request EXCEPT ![r] = s] /\ running' = r
    BY <1>4 DEF Continue
  <2> HIDE DEF s
  <2> QED
    BY <1>1, <1>2, <2>1, <2>2, StepInv
<1>5. CASE jwt /\ q.proof = "assertion" /\ Yield(r, [q EXCEPT !.step = "verify"])
  <2> DEFINE s == [q EXCEPT !.step = "verify"]
  <2>1. /\ s \in Steps /\ s.step = "verify"
        /\ s.client = q.client /\ s.proof = q.proof
    BY <1>3 DEF Steps
  <2>2. ~Deciding(s)
    BY <2>1 DEF Deciding
  <2>3. request' = [request EXCEPT ![r] = s] /\ running' = Nobody
    BY <1>5 DEF Yield
  <2> HIDE DEF s
  <2> QED
    BY <1>1, <1>2, <1>5, <2>1, <2>2, <2>3, StepInv
<1>6. CASE jwt /\ q.proof = "pkce" /\ Continue(r, [q EXCEPT !.step = "check_cimd"])
  <2> DEFINE s == [q EXCEPT !.step = "check_cimd"]
  <2>1. /\ s \in Steps /\ s.step = "check_cimd" /\ s.id = q.id
        /\ s.client = q.client /\ s.proof = q.proof
    BY <1>3 DEF Steps
  <2>2. request' = [request EXCEPT ![r] = s] /\ running' = r
    BY <1>6 DEF Continue
  <2> HIDE DEF s
  <2> QED
    BY <1>1, <1>2, <1>6, <2>1, <2>2, StepInv
<1>7. CASE Reject(r)
  BY <1>1, <1>2, <1>7, RejectInv
<1> QED
  BY <1>4, <1>5, <1>6, <1>7 DEF Decide

\* The SDK accepts only clients of the methods that it knows.
LEMMA SdkDecidesInv ==
    ASSUME IndInv, NEW r \in Requests, SdkDecides(r)
    PROVE  IndInv'
<1>1. /\ running \in {r, Nobody}
      /\ request[r].step = "decide"
      /\ UNCHANGED <<document, cimd_cache>>
  BY DEF SdkDecides, CanRun
<1>2. CASE request[r].client.method # "private_key_jwt" /\ Accept(r, "sdk")
  BY <1>1, <1>2, AcceptInv
<1>3. CASE Reject(r)
  BY <1>1, <1>3, RejectInv
<1> QED
  BY <1>2, <1>3 DEF SdkDecides

\* The exchange without an assertion goes through is_cimd_client.
LEMMA CheckCimdInv ==
    ASSUME IndInv, NEW r \in Requests, CheckCimd(r)
    PROVE  IndInv'
<1>1. /\ running \in {r, Nobody}
      /\ request[r].step = "check_cimd"
      /\ UNCHANGED <<document, cimd_cache>>
  BY DEF CheckCimd, CanRun
<1>2. /\ request[r].client.method = "private_key_jwt"
      /\ request[r].proof = "pkce"
  BY <1>1 DEF IndInv, DecisionsKept
<1>3. CASE IsCimdClient(request[r].id) /\ Accept(r, "pkce")
  BY <1>1, <1>2, <1>3, AcceptInv DEF IsCimdClient
<1>4. CASE Reject(r)
  BY <1>1, <1>4, RejectInv
<1> QED
  BY <1>3, <1>4 DEF CheckCimd

\* An assertion is verified or the request refused.
LEMMA VerifyInv ==
    ASSUME IndInv, NEW r \in Requests, Verify(r)
    PROVE  IndInv'
<1>1. /\ running \in {r, Nobody}
      /\ request[r].step = "verify"
      /\ UNCHANGED <<document, cimd_cache>>
  BY DEF Verify
<1>2. /\ request[r].client.method = "private_key_jwt"
      /\ request[r].proof = "assertion"
  BY <1>1 DEF IndInv, DecisionsKept
<1>3. CASE Accept(r, "assertion")
  BY <1>1, <1>2, <1>3, AcceptInv
<1>4. CASE Reject(r)
  BY <1>1, <1>4, RejectInv
<1> QED
  BY <1>3, <1>4 DEF Verify

\* Every step keeps the invariant.
LEMMA NextInv == IndInv /\ [Next]_vars => IndInv'
<1> SUFFICES ASSUME IndInv, [Next]_vars PROVE IndInv'
  OBVIOUS
<1>1. CASE UNCHANGED vars
  BY <1>1
     DEF vars, IndInv, TypeOK, LoadsAreCimd, DecidesOnCached, Deciding,
         DecisionsKept, ProofFitsClient, Unregistered
<1>2. CASE Tick
  BY <1>2, TickInv
<1>3. CASE \E u \in CimdClients, m \in {"none", "private_key_jwt", "invalid"} :
             Publish(u, m)
  BY <1>3, PublishInv
<1>4. ASSUME NEW r \in Requests,
             NEW id \in CimdClients \cup OtherIds, NEW p \in Proofs,
             Receive(r, id, p)
      PROVE  IndInv'
  BY <1>4, ReceiveInv
<1>5. ASSUME NEW r \in Requests,
             LookUp(r) \/ Fetch(r) \/ Load(r) \/ LoadFails(r)
      PROVE  IndInv'
  BY <1>5, LookUpInv, FetchInv, LoadInv, LoadFailsInv
<1>6. ASSUME NEW r \in Requests,
             Decide(r) \/ SdkDecides(r) \/ CheckCimd(r) \/ Verify(r)
      PROVE  IndInv'
  BY <1>6, DecideInv, SdkDecidesInv, CheckCimdInv, VerifyInv
<1> QED
  BY <1>1, <1>2, <1>3, <1>4, <1>5, <1>6 DEF Next

\* So it holds in every reachable state.
LEMMA Invariance == Spec => []IndInv
BY InitInv, NextInv, PTL DEF Spec

-----------------------------------------------------------------------------
(* The theorems                                                            *)

\* Requests, documents and cache are well formed: a registered client never
\* has its document loaded (oauth.py 148-167).
THEOREM TypeCorrect == Spec => []TypeOK
<1>1. IndInv => TypeOK
  BY DEF IndInv
<1> QED
  BY <1>1, Invariance, PTL

\* Every accepted client proved who it is in the way its record asks for,
\* for any number of requests, clients and changes of documents
\* (authenticate_request, oauth_client_auth.py 50-99).
THEOREM ProofsFit == Spec => []ProofFitsClient
<1>1. IndInv => ProofFitsClient
  BY DEF IndInv
<1> QED
  BY <1>1, Invariance, PTL

\* A client accepted on PKCE alone is, at that moment, in the cache with the
\* record that get_client returned (oauth_client_auth.py 72-92 and
\* is_cimd_client, oauth.py 169-179).
THEOREM PkceOnlyForCached == Spec => PkceClientIsCached
<1> DEFINE Accepted ==
      \A r \in Requests :
         request[r].step = "check_cimd" /\ request'[r].step = "accepted" =>
           /\ request[r].id \in DOMAIN cimd_cache
           /\ cimd_cache[request[r].id].client = request[r].client
           /\ cimd_cache[request[r].id].left > 0
<1>1. IndInv /\ [Next]_vars => [Accepted]_vars
  <2> SUFFICES ASSUME IndInv, [Next]_vars,
                      NEW r \in Requests,
                      request[r].step = "check_cimd",
                      request'[r].step = "accepted"
               PROVE  /\ request[r].id \in DOMAIN cimd_cache
                      /\ cimd_cache[request[r].id].client = request[r].client
                      /\ cimd_cache[request[r].id].left > 0
    OBVIOUS
  <2>1. request \in [Requests -> Steps]
    BY DEF IndInv, TypeOK
  <2>2. CheckCimd(r)
    <3>1. ~UNCHANGED request
      OBVIOUS
    <3>2. PICK q \in Requests :
            \/ \E id \in CimdClients \cup OtherIds, p \in Proofs :
                 Receive(q, id, p)
            \/ LookUp(q) \/ Fetch(q) \/ Load(q) \/ LoadFails(q)
            \/ Decide(q) \/ SdkDecides(q) \/ CheckCimd(q) \/ Verify(q)
      BY <3>1 DEF Next, vars, Tick, Publish
    <3>3. q = r
      BY <2>1, <3>2
         DEF Receive, LookUp, Fetch, Load, LoadFails, Decide, SdkDecides,
             CheckCimd, Verify, Found, Accept, Reject, Continue, Yield
    <3> QED
      BY <3>2, <3>3
         DEF Receive, LookUp, Fetch, Load, LoadFails, Decide, SdkDecides,
             Verify
  <2>3. IsCimdClient(request[r].id)
    BY <2>1, <2>2 DEF CheckCimd, Reject, Yield, Idle
  <2>4. request[r].id \in Unregistered
    BY <2>3 DEF IsCimdClient, Fresh, Unregistered, IndInv, TypeOK
  <2>5. /\ request[r].id \in DOMAIN cimd_cache
        /\ cimd_cache[request[r].id].client = request[r].client
    BY <2>4 DEF IndInv, DecidesOnCached, Deciding
  <2> QED
    BY <2>3, <2>5 DEF IsCimdClient, Fresh
<1> QED
  BY <1>1, Invariance, PTL DEF Spec, PkceClientIsCached
=============================================================================
