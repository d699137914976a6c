--------------------- MODULE FinanceOAuthProvider_proofs ---------------------
(***************************************************************************)
(* Theorems about FinanceOAuthProvider, for any handlers, clients, states, *)
(* resources, lifetimes and bounds.                                        *)
(***************************************************************************)
EXTENDS FinanceOAuthProvider, TLAPS

\* Appending keeps a history a sequence and changes no earlier entry.
LEMMA AppendFacts ==
    ASSUME NEW S, NEW s \in Seq(S), NEW e \in S
    PROVE  /\ Append(s, e) \in Seq(S)
           /\ Len(Append(s, e)) = Len(s) + 1
           /\ \A i \in 1..Len(s) : Append(s, e)[i] = s[i]
           /\ Append(s, e)[Len(s) + 1] = e
           /\ Len(s) \in Nat
  OBVIOUS

\* Giving a handler another operation keeps op and running well typed.
LEMMA SchedulingTypes ==
    ASSUME TypeOK, NEW h \in Handlers, NEW o \in Ops,
           \/ Continue(h, o)
           \/ HandToCaller(h, o)
           \/ Finish(h)
    PROVE  /\ op' \in [Handlers -> Ops]
           /\ running' \in Handlers \cup {Nobody}
  <1>1. Idle \in Ops
    BY DEF Ops
  <1> QED
    BY <1>1 DEF TypeOK, Continue, HandToCaller, Finish

\* The rows of a new pair have the types of their tables.
LEMMA StoreTypes ==
    ASSUME TypeOK,
           NEW access \in SUBSET AccessRows,
           NEW refresh \in SUBSET RefreshRows,
           NEW pairs \in SUBSET PairRows,
           NEW client \in Clients, NEW resource \in Resources,
           NEW origin \in Origins,
           StoreTokenPair(access, refresh, pairs, client, resource, origin)
    PROVE  /\ oauth_access_tokens' \subseteq AccessRows
           /\ oauth_refresh_tokens' \subseteq RefreshRows
           /\ oauth_token_pairs' \subseteq PairRows
           /\ minted' \in Seq(Origins)
  <1> DEFINE n == Len(minted) + 1
  <1>1. n \in Nat /\ now \in Nat
    BY DEF TypeOK
  <1>2. now + AccessTTL \in Nat /\ now + RefreshTTL \in Nat
    BY <1>1, TTLAssumption
  <1>3. AccessValue(n) \in TokenValues /\ RefreshValue(n) \in TokenValues
    BY <1>1 DEF AccessValue, RefreshValue, TokenValues
  <1>4. [token |-> AccessValue(n), client |-> client, resource |-> resource,
         expires_at |-> now + AccessTTL] \in AccessRows
    BY <1>2, <1>3 DEF AccessRows
  <1>5. [token |-> RefreshValue(n), client |-> client,
         expires_at |-> now + RefreshTTL] \in RefreshRows
    BY <1>2, <1>3 DEF RefreshRows
  <1>6. [access_token |-> AccessValue(n), refresh_token |-> RefreshValue(n),
         resource |-> resource] \in PairRows
    BY <1>3 DEF PairRows
  <1>7. minted' \in Seq(Origins)
    BY AppendFacts DEF TypeOK, StoreTokenPair
  <1> QED
    BY <1>4, <1>5, <1>6, <1>7 DEF StoreTokenPair

\* A step keeps the types.  Reissue reads the root of a token that its
\* handler holds: HandlersInv says that the token was minted.
LEMMA TypeInductive == TypeOK /\ HandlersInv /\ [Next]_vars => TypeOK'
  <1> SUFFICES ASSUME TypeOK, HandlersInv, [Next]_vars PROVE TypeOK'
    OBVIOUS
  <1> USE ResourceAssumption, TTLAssumption, SchedulingAssumption
  <1>1. CASE Tick
    BY <1>1 DEF TypeOK, Tick, tables
  <1>2. ASSUME NEW s \in States, NEW c \in Clients, NEW r \in Resources,
               Authorize(s, c, r)
        PROVE  TypeOK'
    <2>1. [state |-> s, client |-> c, resource |-> r,
           expires_at |-> now + StateTTL] \in StateRows
      BY DEF TypeOK, StateRows
    <2> QED
      BY <1>2, <2>1 DEF TypeOK, Authorize, tokenTables
  <1>3. ASSUME NEW row \in oauth_states, LoadExpiredState(row) PROVE TypeOK'
    BY <1>3 DEF TypeOK, LoadExpiredState, tokenTables
  <1>4. ASSUME NEW h \in Handlers, NEW row \in oauth_states,
               LoginCallback(h, row)
        PROVE  TypeOK'
    <2>1. [step |-> "put_code", row |-> row] \in Ops
      BY DEF TypeOK, Ops
    <2> QED
      BY <1>4, <2>1, SchedulingTypes DEF TypeOK, LoginCallback, tables
  <1>5. ASSUME NEW h \in Handlers, PutCode(h) PROVE TypeOK'
    <2> DEFINE row == op[h].row
               c   == Len(grants) + 1
    <2>1. row \in StateRows
      BY <1>5 DEF TypeOK, PutCode, Ops, Idle
    <2>2. [step |-> "delete_state", row |-> row] \in Ops
      BY <2>1 DEF Ops
    <2>3. [code |-> c, client |-> row.client, resource |-> row.resource,
           expires_at |-> now + CodeTTL] \in CodeRows
      BY <2>1 DEF TypeOK, StateRows, CodeRows
    <2>4. [client |-> row.client, resource |-> row.resource] \in Grants
      BY <2>1 DEF StateRows, Grants
    <2>5. grants' \in Seq(Grants)
      BY <1>5, <2>4, AppendFacts DEF TypeOK, PutCode
    <2> QED
      BY <1>5, <2>2, <2>3, <2>5, SchedulingTypes
         DEF TypeOK, PutCode, tokenTables
  <1>6. ASSUME NEW h \in Handlers, DeleteState(h) PROVE TypeOK'
    BY <1>6, SchedulingTypes DEF TypeOK, DeleteState, tokenTables
  <1>7. ASSUME NEW h \in Handlers, NEW client \in Clients,
               NEW row \in oauth_authorization_codes, LoadCode(h, client, row)
        PROVE  TypeOK'
    <2>1. [step |-> "exchange_code", client |-> client, row |-> row] \in Ops
      BY DEF TypeOK, Ops
    <2> QED
      BY <1>7, <2>1, SchedulingTypes DEF TypeOK, LoadCode, tables
  <1>8. ASSUME NEW h \in Handlers, ExchangeCode(h) PROVE TypeOK'
    <2> DEFINE row == op[h].row
    <2>1. row \in CodeRows
      BY <1>8 DEF TypeOK, ExchangeCode, Ops, Idle
    <2>2. [src |-> CodeValue(row.code), root |-> row.code] \in Origins
      BY <2>1 DEF CodeRows, Origins, CodeValue
    <2>3. op[h].client \in Clients /\ row.resource \in Resources
      BY <1>8 DEF TypeOK, ExchangeCode, Ops, Idle, CodeRows
    <2>4. /\ oauth_access_tokens' \subseteq AccessRows
          /\ oauth_refresh_tokens' \subseteq RefreshRows
          /\ oauth_token_pairs' \subseteq PairRows
          /\ minted' \in Seq(Origins)
      BY <1>8, <2>2, <2>3, StoreTypes DEF TypeOK, ExchangeCode, tokenTables
    <2> QED
      BY <1>8, <2>4, SchedulingTypes DEF TypeOK, ExchangeCode
  <1>9. ASSUME NEW h \in Handlers, NEW client \in Clients,
               NEW row \in oauth_refresh_tokens, LoadRefresh(h, client, row)
        PROVE  TypeOK'
    <2>1. [step |-> "exchange_refresh", client |-> client, row |-> row] \in Ops
      BY DEF TypeOK, Ops
    <2> QED
      BY <1>9, <2>1, SchedulingTypes DEF TypeOK, LoadRefresh, tables
  <1>10. ASSUME NEW h \in Handlers, DeleteOldPair(h) PROVE TypeOK'
    <2> DEFINE row == op[h].row
    <2>1. row \in RefreshRows /\ op[h].client \in Clients
      BY <1>10 DEF TypeOK, DeleteOldPair, Ops, Idle
    <2>2. \A resource \in Resources :
            [step |-> "reissue", client |-> op[h].client, row |-> row,
             resource |-> resource] \in Ops
      BY <2>1 DEF Ops
    <2>3. \A pair \in oauth_token_pairs : pair.resource \in Resources
      BY DEF TypeOK, PairRows
    <2>4. /\ op' \in [Handlers -> Ops]
          /\ running' \in Handlers \cup {Nobody}
      BY <1>10, <2>2, <2>3, SchedulingTypes DEF DeleteOldPair, RotatedResource
    <2>5. /\ oauth_access_tokens' \subseteq AccessRows
          /\ oauth_refresh_tokens' \subseteq RefreshRows
          /\ oauth_token_pairs' \subseteq PairRows
      BY <1>10 DEF TypeOK, DeleteOldPair, RotateOut, tokenTables
    <2> QED
      BY <1>10, <2>4, <2>5 DEF TypeOK, DeleteOldPair
  <1>11. ASSUME NEW h \in Handlers, Reissue(h) PROVE TypeOK'
    <2> DEFINE row    == op[h].row
               origin == [src |-> row.token, root |-> minted[row.token.id].root]
    <2>1. row \in RefreshRows /\ op[h].resource \in Resources
      BY <1>11 DEF TypeOK, Reissue, Ops, Idle
    <2>2. op[h].client \in Clients
      BY <1>11 DEF TypeOK, Reissue, Ops, Idle
    <2>3. /\ row.token.id \in 1..Len(minted)
          /\ row.token = RefreshValue(row.token.id)
      BY <1>11 DEF HandlersInv, HandlerInv, Loaded, Reissue
    <2>4. minted[row.token.id] \in Origins
      BY <2>3 DEF TypeOK
    <2>5. row.token \in [kind : {"code", "refresh"}, id : Nat]
      BY <2>3 DEF RefreshValue, TypeOK
    <2>6. origin \in Origins
      BY <2>4, <2>5 DEF Origins
    <2>7. /\ oauth_access_tokens' \subseteq AccessRows
          /\ oauth_refresh_tokens' \subseteq RefreshRows
          /\ oauth_token_pairs' \subseteq PairRows
          /\ minted' \in Seq(Origins)
      BY <1>11, <2>1, <2>2, <2>6, StoreTypes DEF TypeOK, Reissue
    <2> QED
      BY <1>11, <2>7, SchedulingTypes DEF TypeOK, Reissue
  <1>12. ASSUME NEW h \in Handlers, NEW token \in TokenValues,
                LoadForRevoke(h, token)
         PROVE  TypeOK'
    <2>1. [step |-> "revoke", token |-> token, by |-> "client"] \in Ops
      BY DEF Ops
    <2> QED
      BY <1>12, <2>1, SchedulingTypes DEF TypeOK, LoadForRevoke, tables
  <1>13. ASSUME NEW h \in Handlers, NEW a \in oauth_access_tokens,
                LoadExpiredAccess(h, a)
         PROVE  TypeOK'
    <2>1. [step |-> "revoke", token |-> a.token, by |-> "expiry"] \in Ops
      BY DEF TypeOK, AccessRows, Ops
    <2> QED
      BY <1>13, <2>1, SchedulingTypes DEF TypeOK, LoadExpiredAccess, tables
  <1>14. ASSUME NEW h \in Handlers, RevokeToken(h) PROVE TypeOK'
    BY <1>14, SchedulingTypes DEF TypeOK, RevokeToken, RevokePair
  <1>15. ASSUME NEW h \in Handlers, Abort(h) PROVE TypeOK'
    BY <1>15, SchedulingTypes DEF TypeOK, Abort, tables
  <1>16. CASE Crash
    BY <1>16 DEF TypeOK, Crash, Ops, tables
  <1>17. CASE UNCHANGED vars
    BY <1>17 DEF TypeOK, vars, tables
  <1>18. {a.token : a \in oauth_access_tokens}
         \cup {r.token : r \in oauth_refresh_tokens} \subseteq TokenValues
    BY DEF TypeOK, AccessRows, RefreshRows
  <1> QED
    BY <1>1, <1>2, <1>3, <1>4, <1>5, <1>6, <1>7, <1>8, <1>9, <1>10, <1>11,
       <1>12, <1>13, <1>14, <1>15, <1>16, <1>17, <1>18 DEF Next

-----------------------------------------------------------------------------
(* The data: what a stored pair is, and how the tables change.             *)

\* Values of different kinds differ, and a value determines its number.
LEMMA ValueFacts ==
    ASSUME NEW m, NEW n
    PROVE  /\ AccessValue(n).id = n
           /\ RefreshValue(n).id = n
           /\ AccessValue(m) # RefreshValue(n)
           /\ CodeValue(m) # RefreshValue(n)
           /\ AccessValue(m) = AccessValue(n) => m = n
           /\ RefreshValue(m) = RefreshValue(n) => m = n
           /\ CodeValue(m) = CodeValue(n) => m = n
  <1>1. AccessValue(n).id = n /\ RefreshValue(n).id = n
    BY DEF AccessValue, RefreshValue
  <1>2. /\ AccessValue(m) # RefreshValue(n)
        /\ CodeValue(m) # RefreshValue(n)
    <2>1. /\ AccessValue(m).kind = "access"
          /\ CodeValue(m).kind = "code"
          /\ RefreshValue(n).kind = "refresh"
      BY DEF AccessValue, RefreshValue, CodeValue
    <2> QED
      BY <2>1
  <1>3. /\ AccessValue(m) = AccessValue(n) => m = n
        /\ RefreshValue(m) = RefreshValue(n) => m = n
        /\ CodeValue(m) = CodeValue(n) => m = n
    BY DEF AccessValue, RefreshValue, CodeValue
  <1> QED
    BY <1>1, <1>2, <1>3

\* A stored pair is made of the two values of one minted pair, and its
\* values occur in no other pair.
LEMMA PairFacts ==
    ASSUME TypeOK, DataInv, NEW p \in oauth_token_pairs
    PROVE  /\ p.refresh_token.id \in 1..Len(minted)
           /\ p.access_token = AccessValue(p.refresh_token.id)
           /\ p.refresh_token = RefreshValue(p.refresh_token.id)
           /\ p.access_token.id = p.refresh_token.id
           /\ p.access_token # p.refresh_token
           /\ \A q \in oauth_token_pairs :
                \/ q.refresh_token = p.refresh_token
                \/ q.access_token = p.access_token
                => q = p
  <1>1. \A q \in oauth_token_pairs :
          /\ q.refresh_token.id \in 1..Len(minted)
          /\ q.access_token = AccessValue(q.refresh_token.id)
          /\ q.refresh_token = RefreshValue(q.refresh_token.id)
    BY DEF DataInv, PairsInv
  <1>2. \A q \in oauth_token_pairs : q.access_token.id = q.refresh_token.id
    BY <1>1, ValueFacts
  <1>3. p.access_token # p.refresh_token
    BY <1>1, ValueFacts
  <1>4. \A q \in oauth_token_pairs :
          q.refresh_token.id = p.refresh_token.id => q = p
    BY DEF DataInv, PairsInv, RootOf
  <1> QED
    BY <1>1, <1>2, <1>3, <1>4

\* Nothing about the data changes when no table but oauth_states does.
LEMMA DataUnchanged ==
    ASSUME DataInv,
           UNCHANGED <<oauth_authorization_codes, tokenTables, grants, minted>>
    PROVE  DataInv'
  BY DEF DataInv, CodesInv, MintedInv, PairsInv, PairIntegrity, TokenBinding,
         SpentOnce, Code, RootOf, tokenTables

\* A new code is fresh: no row and no pair has it.
LEMMA PutCodeData ==
    ASSUME TypeOK, DataInv, NEW h \in Handlers, PutCode(h)
    PROVE  DataInv'
  <1> DEFINE row == op[h].row
             c   == Len(grants) + 1
             new == [code |-> c, client |-> row.client,
                     resource |-> row.resource, expires_at |-> now + CodeTTL]
  <1>1. row \in StateRows
    BY DEF TypeOK, PutCode, Ops, Idle
  <1>2. [client |-> row.client, resource |-> row.resource] \in Grants
    BY <1>1 DEF StateRows, Grants
  <1>3. /\ Len(grants') = c
        /\ \A i \in 1..Len(grants) : grants'[i] = grants[i]
        /\ grants'[c] = [client |-> row.client, resource |-> row.resource]
        /\ Len(grants) \in Nat
    BY <1>2, AppendFacts DEF TypeOK, PutCode
  <1>4. /\ oauth_authorization_codes' = oauth_authorization_codes \cup {new}
        /\ UNCHANGED <<oauth_access_tokens, oauth_refresh_tokens,
                       oauth_token_pairs, minted>>
    BY DEF PutCode, tokenTables
  <1>5. \A n \in 1..Len(minted) : minted[n].root \in 1..Len(grants)
    BY DEF DataInv, MintedInv
  <1>6. CodesInv'
    BY <1>3, <1>4, <1>5 DEF DataInv, CodesInv, Code
  <1>7. MintedInv'
    BY <1>3, <1>4 DEF DataInv, MintedInv
  <1>8. \A p \in oauth_token_pairs : RootOf(p.refresh_token) \in 1..Len(grants)
    BY <1>5, PairFacts DEF RootOf
  <1>9. PairsInv'
    BY <1>3, <1>4, <1>8 DEF DataInv, PairsInv, RootOf
  <1>10. PairIntegrity'
    BY <1>4 DEF DataInv, PairIntegrity
  <1>11. /\ \A a \in oauth_access_tokens : RootOf(a.token) \in 1..Len(grants)
         /\ \A r \in oauth_refresh_tokens : RootOf(r.token) \in 1..Len(grants)
    BY <1>8, PairFacts DEF DataInv, PairIntegrity, RootOf
  <1>12. TokenBinding'
    BY <1>3, <1>4, <1>11 DEF DataInv, TokenBinding, RootOf
  <1>13. SpentOnce'
    BY <1>4 DEF DataInv, SpentOnce
  <1> QED
    BY <1>6, <1>7, <1>9, <1>10, <1>12, <1>13 DEF DataInv

\* Deleting a pair with both its halves (revoke_token, and the first
\* transaction of exchange_refresh_token) leaves the tables in agreement and
\* its root without a pair.
LEMMA DeletePairData ==
    ASSUME TypeOK, DataInv, NEW pair \in oauth_token_pairs,
           oauth_token_pairs' = oauth_token_pairs \ {pair},
           oauth_access_tokens' =
             {a \in oauth_access_tokens : a.token # pair.access_token},
           oauth_refresh_tokens' =
             {r \in oauth_refresh_tokens : r.token # pair.refresh_token},
           UNCHANGED <<oauth_authorization_codes, grants, minted>>
    PROVE  /\ DataInv'
           /\ \A p \in oauth_token_pairs' :
                RootOf(p.refresh_token)' # RootOf(pair.refresh_token)
  <1>1. CodesInv' /\ MintedInv' /\ SpentOnce'
    BY DEF DataInv, CodesInv, MintedInv, SpentOnce, Code
  <1>2. PairsInv'
    BY DEF DataInv, PairsInv, RootOf
  <1>3. TokenBinding'
    BY DEF DataInv, TokenBinding, RootOf
  <1>4. \A a \in oauth_access_tokens' :
          \E p \in oauth_token_pairs' : /\ p.access_token = a.token
                                       /\ p.resource = a.resource
    BY DEF DataInv, PairIntegrity
  <1>5. \A r \in oauth_refresh_tokens' :
          \E p \in oauth_token_pairs' : p.refresh_token = r.token
    BY DEF DataInv, PairIntegrity
  <1>6. ASSUME NEW p \in oauth_token_pairs'
        PROVE  \E a \in oauth_access_tokens', r \in oauth_refresh_tokens' :
                 /\ a.token = p.access_token
                 /\ r.token = p.refresh_token
                 /\ a.client = r.client
    <2>1. p \in oauth_token_pairs /\ p # pair
      OBVIOUS
    <2>2. PICK a \in oauth_access_tokens, r \in oauth_refresh_tokens :
                 /\ a.token = p.access_token
                 /\ r.token = p.refresh_token
                 /\ a.client = r.client
      BY <2>1 DEF DataInv, PairIntegrity
    <2>3. /\ p.access_token # pair.access_token
          /\ p.refresh_token # pair.refresh_token
      BY <2>1, PairFacts
    <2> QED
      BY <2>2, <2>3
  <1>7. PairIntegrity'
    BY <1>4, <1>5, <1>6 DEF PairIntegrity
  <1>8. \A p \in oauth_token_pairs' :
          RootOf(p.refresh_token)' # RootOf(pair.refresh_token)
    BY DEF DataInv, PairsInv, RootOf
  <1> QED
    BY <1>1, <1>2, <1>3, <1>7, <1>8 DEF DataInv

\* A pair minted from the code of its root, or from a token of that root,
\* keeps the history of pairs in order.
LEMMA MintedGrows ==
    ASSUME TypeOK, MintedInv, NEW origin \in Origins,
           minted' = Append(minted, origin), UNCHANGED grants,
           origin.root \in 1..Len(grants),
           \/ origin.src = CodeValue(origin.root)
           \/ \E m \in 1..Len(minted) : /\ origin.src = RefreshValue(m)
                                       /\ minted[m].root = origin.root
    PROVE  MintedInv'
  <1>1. /\ Len(minted') = Len(minted) + 1
        /\ \A i \in 1..Len(minted) : minted'[i] = minted[i]
        /\ minted'[Len(minted) + 1] = origin
        /\ Len(minted) \in Nat
    BY AppendFacts DEF TypeOK
  <1> SUFFICES ASSUME NEW n \in 1..Len(minted')
               PROVE  /\ minted'[n].root \in 1..Len(grants)
                      /\ \/ minted'[n].src = CodeValue(minted'[n].root)
                         \/ \E m \in 1..Len(minted') :
                              /\ minted'[n].src = RefreshValue(m)
                              /\ minted'[m].root = minted'[n].root
    BY DEF MintedInv
  <1>2. 1..Len(minted) \subseteq 1..Len(minted')
    BY <1>1
  <1>3. CASE n = Len(minted) + 1
    <2>1. minted'[n] = origin
      BY <1>1, <1>3
    <2> QED
      BY <1>1, <1>2, <2>1
  <1>4. CASE n \in 1..Len(minted)
    <2>1. /\ minted[n].root \in 1..Len(grants)
          /\ \/ minted[n].src = CodeValue(minted[n].root)
             \/ \E m \in 1..Len(minted) : /\ minted[n].src = RefreshValue(m)
                                         /\ minted[m].root = minted[n].root
      BY <1>4 DEF MintedInv
    <2> QED
      BY <1>1, <1>2, <1>4, <2>1
  <1> QED
    BY <1>1, <1>3, <1>4

\* Storing the pair of a root that no pair and no remaining code has, from a
\* code or refresh token not yet spent (_store_token_pair in both its uses).
LEMMA StorePairData ==
    ASSUME TypeOK, DataInv, MintedInv',
           NEW client \in Clients, NEW resource \in Resources,
           NEW origin \in Origins,
           StoreTokenPair(oauth_access_tokens, oauth_refresh_tokens,
                          oauth_token_pairs, client, resource, origin),
           oauth_authorization_codes' \subseteq oauth_authorization_codes,
           UNCHANGED grants,
           origin.root \in 1..Len(grants),
           client = grants[origin.root].client,
           resource = grants[origin.root].resource,
           \A p \in oauth_token_pairs : RootOf(p.refresh_token) # origin.root,
           \A r \in oauth_authorization_codes' : r.code # origin.root,
           \A n \in 1..Len(minted) : minted[n].src # origin.src,
           \A p \in oauth_token_pairs : p.refresh_token # origin.src,
           origin.src # RefreshValue(Len(minted) + 1)
    PROVE  DataInv'
  <1> DEFINE n == Len(minted) + 1
             access  == [token |-> AccessValue(n), client |-> client,
                         resource |-> resource, expires_at |-> now + AccessTTL]
             refresh == [token |-> RefreshValue(n), client |-> client,
                         expires_at |-> now + RefreshTTL]
             pair    == [access_token |-> AccessValue(n),
                         refresh_token |-> RefreshValue(n),
                         resource |-> resource]
  <1>1. /\ oauth_access_tokens' = oauth_access_tokens \cup {access}
        /\ oauth_refresh_tokens' = oauth_refresh_tokens \cup {refresh}
        /\ oauth_token_pairs' = oauth_token_pairs \cup {pair}
    BY DEF StoreTokenPair
  <1>2. /\ Len(minted') = n
        /\ \A i \in 1..Len(minted) : minted'[i] = minted[i]
        /\ minted'[n] = origin
        /\ Len(minted) \in Nat
        /\ n = Len(minted) + 1
    BY AppendFacts DEF TypeOK, StoreTokenPair
  <1>3. /\ access.token = AccessValue(n)
        /\ access.client = client
        /\ access.resource = resource
        /\ refresh.token = RefreshValue(n)
        /\ refresh.client = client
        /\ pair.resource = resource
        /\ pair.access_token = AccessValue(n)
        /\ pair.refresh_token = RefreshValue(n)
        /\ AccessValue(n).id = n
        /\ RefreshValue(n).id = n
    BY ValueFacts
  <1> HIDE DEF n, access, refresh, pair
  <1>4. \A p \in oauth_token_pairs :
          /\ RootOf(p.refresh_token)' = RootOf(p.refresh_token)
          /\ RootOf(p.access_token)' = RootOf(p.refresh_token)
          /\ RootOf(p.access_token) = RootOf(p.refresh_token)
    BY <1>2, PairFacts DEF RootOf
  <1>5. CodesInv'
    <2> SUFFICES ASSUME NEW r \in oauth_authorization_codes'
                 PROVE  /\ Code(r.code, r)'
                        /\ \A q \in oauth_authorization_codes' :
                             q.code = r.code => q = r
                        /\ \A i \in 1..Len(minted') : minted'[i].root # r.code
      BY DEF CodesInv
    <2>1. /\ Code(r.code, r)'
          /\ \A q \in oauth_authorization_codes' : q.code = r.code => q = r
      BY DEF DataInv, CodesInv, Code
    <2>2. \A i \in 1..Len(minted) : minted[i].root # r.code
      BY DEF DataInv, CodesInv
    <2> QED
      BY <1>2, <2>1, <2>2
  <1>6. PairsInv'
    <2>1. ASSUME NEW p \in oauth_token_pairs'
          PROVE  /\ p.refresh_token.id \in 1..Len(minted')
                 /\ p.access_token = AccessValue(p.refresh_token.id)
                 /\ p.refresh_token = RefreshValue(p.refresh_token.id)
                 /\ p.resource = grants'[RootOf(p.refresh_token)'].resource
      <3>1. CASE p = pair
        BY <1>2, <1>3, <3>1 DEF RootOf
      <3>2. CASE p \in oauth_token_pairs
        BY <1>2, <1>4, <3>2, PairFacts DEF DataInv, PairsInv
      <3> QED
        BY <1>1, <3>1, <3>2
    <2>2. ASSUME NEW p \in oauth_token_pairs', NEW i \in 1..Len(minted')
          PROVE  minted'[i].src # p.refresh_token
      <3>1. CASE p = pair /\ i = n
        BY <1>2, <1>3, <3>1
      <3>2. CASE p = pair /\ i # n
        <4>1. i \in 1..Len(minted)
          BY <1>2, <3>2
        <4>2. \/ minted[i].src = CodeValue(minted[i].root)
              \/ \E m \in 1..Len(minted) : minted[i].src = RefreshValue(m)
          BY <4>1 DEF DataInv, MintedInv
        <4>3. \A m \in 1..Len(minted) : m # n
          BY <1>2
        <4>4. minted[i].src # RefreshValue(n)
          BY <4>2, <4>3, ValueFacts
        <4> QED
          BY <1>2, <1>3, <3>2, <4>1, <4>4
      <3>3. CASE p \in oauth_token_pairs /\ i = n
        BY <1>2, <3>3
      <3>4. CASE p \in oauth_token_pairs /\ i # n
        BY <1>2, <3>4 DEF DataInv, PairsInv
      <3> QED
        BY <1>1, <3>1, <3>2, <3>3, <3>4
    <2>3. ASSUME NEW p \in oauth_token_pairs', NEW q \in oauth_token_pairs',
                 RootOf(p.refresh_token)' = RootOf(q.refresh_token)'
          PROVE  p = q
      <3>1. \A x \in oauth_token_pairs' :
              \/ x = pair /\ RootOf(x.refresh_token)' = origin.root
              \/ /\ x \in oauth_token_pairs
                 /\ RootOf(x.refresh_token)' = RootOf(x.refresh_token)
                 /\ RootOf(x.refresh_token) # origin.root
        BY <1>1, <1>2, <1>3, <1>4 DEF RootOf
      <3> QED
        BY <2>3, <3>1 DEF DataInv, PairsInv
    <2> QED
      BY <2>1, <2>2, <2>3 DEF PairsInv
  <1>7. PairIntegrity'
    <2>1. \A a \in oauth_access_tokens' :
            \E p \in oauth_token_pairs' : /\ p.access_token = a.token
                                         /\ p.resource = a.resource
      BY <1>1, <1>3 DEF DataInv, PairIntegrity
    <2>2. \A r \in oauth_refresh_tokens' :
            \E p \in oauth_token_pairs' : p.refresh_token = r.token
      BY <1>1, <1>3 DEF DataInv, PairIntegrity
    <2>3. ASSUME NEW p \in oauth_token_pairs'
          PROVE  \E a \in oauth_access_tokens', r \in oauth_refresh_tokens' :
                   /\ a.token = p.access_token
                   /\ r.token = p.refresh_token
                   /\ a.client = r.client
      <3>1. CASE p = pair
        BY <1>1, <1>3, <3>1
      <3>2. CASE p \in oauth_token_pairs
        BY <1>1, <3>2 DEF DataInv, PairIntegrity
      <3> QED
        BY <1>1, <3>1, <3>2
    <2> QED
      BY <2>1, <2>2, <2>3 DEF PairIntegrity
  <1>8. TokenBinding'
    <2>1. /\ \A a \in oauth_access_tokens' :
               a = access => RootOf(a.token)' = origin.root
          /\ \A r \in oauth_refresh_tokens' :
               r = refresh => RootOf(r.token)' = origin.root
      BY <1>2, <1>3 DEF RootOf
    <2>2. /\ \A a \in oauth_access_tokens : RootOf(a.token)' = RootOf(a.token)
          /\ \A r \in oauth_refresh_tokens : RootOf(r.token)' = RootOf(r.token)
      BY <1>4 DEF DataInv, PairIntegrity
    <2>3. ASSUME NEW a \in oauth_access_tokens'
          PROVE  /\ a.client = grants'[RootOf(a.token)'].client
                 /\ a.resource = grants'[RootOf(a.token)'].resource
      BY <1>1, <1>3, <2>1, <2>2 DEF DataInv, TokenBinding
    <2>4. ASSUME NEW r \in oauth_refresh_tokens'
          PROVE  r.client = grants'[RootOf(r.token)'].client
      BY <1>1, <1>3, <2>1, <2>2 DEF DataInv, TokenBinding
    <2> QED
      BY <2>3, <2>4 DEF TokenBinding
  <1>9. SpentOnce'
    BY <1>2 DEF DataInv, SpentOnce
  <1> QED
    BY <1>5, <1>6, <1>7, <1>8, <1>9 DEF DataInv

-----------------------------------------------------------------------------
(* The handlers.                                                           *)

\* A step of h leaves the other handlers as they were: none of them is in
\* the middle of a rotation, because h can run, and what the rows they loaded
\* say of the histories stays true, because the histories only grow.
LEMMA OtherHandlers ==
    ASSUME TypeOK, HandlersInv, NEW h \in Handlers, CanRun(h),
           NEW o, op' = [op EXCEPT ![h] = o],
           Len(grants) \in Nat, Len(minted) \in Nat,
           Len(grants') \in Nat, Len(minted') \in Nat,
           Len(grants) <= Len(grants'), Len(minted) <= Len(minted'),
           \A i \in 1..Len(grants) : grants'[i] = grants[i],
           \A i \in 1..Len(minted) : minted'[i] = minted[i],
           MintedInv,
           HandlerInv(h)'
    PROVE  HandlersInv'
  <1> SUFFICES ASSUME NEW k \in Handlers, k # h PROVE HandlerInv(k)'
    BY DEF HandlersInv
  <1>1. op'[k] = op[k]
    BY DEF TypeOK
  <1>2. HandlerInv(k)
    BY DEF HandlersInv
  <1>3. ~Reissuing(k)
    BY <1>2, SchedulingAssumption DEF HandlerInv, CanRun
  <1>4. ~Reissuing(k)'
    BY <1>1, <1>3 DEF Reissuing
  <1>5. op[k].step = "exchange_code" =>
          Code(op[k].row.code, op[k].row)'
    BY <1>1, <1>2 DEF HandlerInv, Code
  <1>6. op[k].step \in {"exchange_refresh", "reissue"} => Loaded(op[k].row)'
    <2> SUFFICES ASSUME Loaded(op[k].row) PROVE Loaded(op[k].row)'
      BY <1>2 DEF HandlerInv
    <2>1. RootOf(op[k].row.token) \in 1..Len(grants)
      BY DEF Loaded, MintedInv, RootOf
    <2>2. /\ op[k].row.token.id \in 1..Len(minted')
          /\ minted'[op[k].row.token.id] = minted[op[k].row.token.id]
      BY DEF Loaded
    <2>3. grants'[RootOf(op[k].row.token)] = grants[RootOf(op[k].row.token)]
      BY <2>1
    <2> QED
      BY <1>1, <2>2, <2>3 DEF Loaded, RootOf
  <1> QED
    BY <1>1, <1>4, <1>5, <1>6 DEF HandlerInv

\* A step that gives h an operation without rows, or none, and keeps the
\* histories, keeps HandlersInv.
LEMMA PlainHandlerStep ==
    ASSUME TypeOK, DataInv, HandlersInv, NEW h \in Handlers, CanRun(h),
           NEW o, op' = [op EXCEPT ![h] = o],
           o.step \notin {"exchange_code", "exchange_refresh", "reissue"},
           \/ UNCHANGED <<grants, minted>>
           \/ /\ UNCHANGED minted
              /\ \E e \in Grants : grants' = Append(grants, e)
           \/ /\ UNCHANGED grants
              /\ \E e \in Origins : minted' = Append(minted, e)
    PROVE  HandlersInv'
  <1>1. op'[h] = o
    BY DEF TypeOK
  <1>2. HandlerInv(h)'
    BY <1>1 DEF HandlerInv, Reissuing
  <1>3. Len(grants) \in Nat /\ Len(minted) \in Nat
    BY DEF TypeOK
  <1>4. /\ Len(grants') \in Nat /\ Len(minted') \in Nat
        /\ Len(grants) <= Len(grants') /\ Len(minted) <= Len(minted')
        /\ \A i \in 1..Len(grants) : grants'[i] = grants[i]
        /\ \A i \in 1..Len(minted) : minted'[i] = minted[i]
    BY <1>3, AppendFacts DEF TypeOK
  <1> QED
    BY <1>2, <1>3, <1>4, OtherHandlers DEF DataInv

\* A root that descends from a stored pair is that of an issued code.
LEMMA RootFacts ==
    ASSUME TypeOK, DataInv, NEW p \in oauth_token_pairs
    PROVE  /\ RootOf(p.refresh_token) \in 1..Len(grants)
           /\ \A r \in oauth_authorization_codes :
                r.code # RootOf(p.refresh_token)
  BY PairFacts DEF DataInv, MintedInv, CodesInv, RootOf

-----------------------------------------------------------------------------
(* Each action keeps the invariant.                                        *)

\* exchange_authorization_code, when the code is there and when it is not.
LEMMA ExchangeCodeInductive ==
    ASSUME IndInv, NEW h \in Handlers, ExchangeCode(h)
    PROVE  DataInv' /\ HandlersInv'
  <1> DEFINE row    == op[h].row
             origin == [src |-> CodeValue(row.code), root |-> row.code]
  <1> USE DEF IndInv
  <1>1. row \in CodeRows
    BY DEF TypeOK, ExchangeCode, Ops, Idle
  <1>2. Code(row.code, row)
    BY DEF HandlersInv, HandlerInv, ExchangeCode
  <1>3. origin \in Origins
    BY <1>1 DEF CodeRows, Origins, CodeValue
  <1>4. /\ CanRun(h) /\ op' = [op EXCEPT ![h] = Idle]
        /\ Idle.step = "idle" /\ UNCHANGED grants
    BY DEF ExchangeCode, Finish, Idle
  <1>5. CASE ~(MayUse(op[h].client, row) /\ CodeIsThere(row))
    <2>1. UNCHANGED <<oauth_authorization_codes, tokenTables, grants, minted>>
      BY <1>5 DEF ExchangeCode
    <2> QED
      BY <1>4, <2>1, DataUnchanged, PlainHandlerStep
  <1>6. CASE MayUse(op[h].client, row) /\ CodeIsThere(row)
    <2>1. /\ oauth_authorization_codes' =
               {r \in oauth_authorization_codes : r.code # row.code}
          /\ StoreTokenPair(oauth_access_tokens, oauth_refresh_tokens,
                            oauth_token_pairs, row.client, row.resource, origin)
      BY <1>6 DEF ExchangeCode, MayUse
    <2>2. minted' = Append(minted, origin)
      BY <2>1 DEF StoreTokenPair
    <2>3. \A n \in 1..Len(minted) : minted[n].root # row.code
      BY <1>6 DEF CodeIsThere, DataInv, CodesInv
    <2>4. \A n \in 1..Len(minted) : minted[n].src # CodeValue(row.code)
      <3> SUFFICES ASSUME NEW n \in 1..Len(minted),
                          minted[n].src = CodeValue(row.code)
                   PROVE  FALSE
        OBVIOUS
      <3>1. minted[n].src = CodeValue(minted[n].root)
        BY ValueFacts DEF DataInv, MintedInv
      <3> QED
        BY <2>3, <3>1, ValueFacts
    <2>5. MintedInv'
      <3>1. origin.root \in 1..Len(grants) /\ origin.src = CodeValue(origin.root)
        BY <1>2 DEF Code
      <3> HIDE DEF origin
      <3> QED
        BY <1>3, <1>4, <2>2, <3>1, MintedGrows DEF DataInv
    <2>6. /\ origin.root = row.code /\ origin.src = CodeValue(row.code)
          /\ row.client \in Clients /\ row.resource \in Resources
          /\ row.code \in 1..Len(grants)
          /\ row.client = grants[row.code].client
          /\ row.resource = grants[row.code].resource
      BY <1>1, <1>2 DEF CodeRows, Code
    <2>7. \A p \in oauth_token_pairs :
            /\ RootOf(p.refresh_token) # row.code
            /\ p.refresh_token # CodeValue(row.code)
      BY <2>3, PairFacts, ValueFacts DEF RootOf
    <2>8. /\ oauth_authorization_codes' \subseteq oauth_authorization_codes
          /\ \A r \in oauth_authorization_codes' : r.code # row.code
          /\ CodeValue(row.code) # RefreshValue(Len(minted) + 1)
      BY <2>1, ValueFacts
    <2> HIDE DEF row, origin
    <2>9. DataInv'
      BY <1>3, <1>4, <2>1, <2>4, <2>5, <2>6, <2>7, <2>8, StorePairData
    <2> QED
      BY <1>3, <1>4, <2>2, <2>9, PlainHandlerStep
  <1> QED
    BY <1>5, <1>6

\* The first transaction of exchange_refresh_token.
LEMMA DeleteOldPairInductive ==
    ASSUME IndInv, NEW h \in Handlers, DeleteOldPair(h)
    PROVE  DataInv' /\ HandlersInv'
  <1> DEFINE row == op[h].row
  <1> USE DEF IndInv
  <1>1. CanRun(h) /\ UNCHANGED <<oauth_authorization_codes, grants, minted>>
    BY DEF DeleteOldPair
  <1> DEFINE usable == {p \in oauth_token_pairs :
                          /\ MayUse(op[h].client, row)
                          /\ p.refresh_token = row.token}
  <1>2. CASE usable = {}
    <2>1. /\ op' = [op EXCEPT ![h] = Idle] /\ Idle.step = "idle"
          /\ UNCHANGED tokenTables
      BY <1>2 DEF DeleteOldPair, Finish, Idle
    <2> QED
      BY <1>1, <2>1, DataUnchanged, PlainHandlerStep
  <1>3. CASE usable # {}
    <2>1. PICK pair \in oauth_token_pairs :
            /\ op[h].client = row.client
            /\ pair.refresh_token = row.token
            /\ oauth_token_pairs' =
                 {p \in oauth_token_pairs : p.refresh_token # row.token}
            /\ oauth_access_tokens' =
                 {a \in oauth_access_tokens : a.token # pair.access_token}
            /\ oauth_refresh_tokens' =
                 {r \in oauth_refresh_tokens : r.token # row.token}
            /\ Continue(h, [step |-> "reissue", client |-> op[h].client,
                            row |-> row, resource |-> pair.resource])
      BY <1>3 DEF DeleteOldPair, MayUse, RotateOut, RotatedResource
    <2>2. oauth_token_pairs' = oauth_token_pairs \ {pair}
      BY <2>1, PairFacts
    <2>3. /\ DataInv'
          /\ \A p \in oauth_token_pairs' :
               RootOf(p.refresh_token)' # RootOf(row.token)
      BY <1>1, <2>1, <2>2, DeletePairData
    <2>4. /\ op'[h].step = "reissue" /\ op'[h].row = row
          /\ op'[h].client = row.client
          /\ op'[h].resource = pair.resource
          /\ running' = h
          /\ op' = [op EXCEPT ![h] =
                     [step |-> "reissue", client |-> op[h].client,
                      row |-> row, resource |-> pair.resource]]
      BY <2>1 DEF TypeOK, Continue
    <2>5. Loaded(row)
      BY DEF HandlersInv, HandlerInv, DeleteOldPair
    <2>6. /\ RootOf(row.token) \in 1..Len(grants)
          /\ \A r \in oauth_authorization_codes : r.code # RootOf(row.token)
      BY <2>1, RootFacts
    <2>7. /\ pair.resource = grants[RootOf(row.token)].resource
          /\ \A n \in 1..Len(minted) : minted[n].src # row.token
      BY <2>1 DEF DataInv, PairsInv
    <2>8. Loaded(op[h].row)'
      BY <1>1, <2>4, <2>5 DEF Loaded, RootOf
    <2>9. RootOf(op[h].row.token)' = RootOf(row.token)
      BY <1>1, <2>4 DEF RootOf
    <2>10. HandlerInv(h)'
      BY <1>1, <2>3, <2>4, <2>6, <2>7, <2>8, <2>9 DEF HandlerInv, Reissuing
    <2>11. /\ Len(grants) \in Nat /\ Len(minted) \in Nat
           /\ Len(grants) <= Len(grants) /\ Len(minted) <= Len(minted)
      BY DEF TypeOK
    <2>12. HandlersInv'
      BY <1>1, <2>4, <2>10, <2>11, OtherHandlers DEF DataInv
    <2> QED
      BY <2>3, <2>12
  <1> QED
    BY <1>2, <1>3

\* The second transaction of exchange_refresh_token.
LEMMA ReissueInductive ==
    ASSUME IndInv, NEW h \in Handlers, Reissue(h)
    PROVE  DataInv' /\ HandlersInv'
  <1> DEFINE row    == op[h].row
             resource == op[h].resource
             origin == [src |-> row.token, root |-> minted[row.token.id].root]
  <1> USE DEF IndInv
  <1>1. /\ CanRun(h) /\ op' = [op EXCEPT ![h] = Idle] /\ Idle.step = "idle"
        /\ UNCHANGED <<oauth_authorization_codes, grants>>
        /\ StoreTokenPair(oauth_access_tokens, oauth_refresh_tokens,
                          oauth_token_pairs, row.client, resource, origin)
        /\ minted' = Append(minted, origin)
    BY DEF Reissue, Finish, Idle, StoreTokenPair, HandlersInv, HandlerInv,
           Reissuing
  <1>2. /\ row.client \in Clients /\ resource \in Resources
    BY DEF TypeOK, Reissue, Ops, Idle, RefreshRows
  <1>3. /\ row.token.id \in 1..Len(minted)
        /\ row.token = RefreshValue(row.token.id)
        /\ row.client = grants[RootOf(row.token)].client
        /\ resource = grants[RootOf(row.token)].resource
        /\ \A p \in oauth_token_pairs :
             RootOf(p.refresh_token) # RootOf(row.token)
        /\ \A r \in oauth_authorization_codes : r.code # RootOf(row.token)
        /\ \A n \in 1..Len(minted) : minted[n].src # row.token
    BY DEF HandlersInv, HandlerInv, Reissuing, Loaded, Reissue
  <1>4. /\ origin.src = row.token
        /\ origin.root = RootOf(row.token)
    BY DEF RootOf
  <1>5. RootOf(row.token) \in 1..Len(grants)
    BY <1>3 DEF DataInv, MintedInv, RootOf
  <1>6. origin \in Origins
    <2>1. minted[row.token.id] \in Origins
      BY <1>3 DEF TypeOK
    <2>2. row.token \in [kind : {"code", "refresh"}, id : Nat]
      BY <1>3 DEF TypeOK, RefreshValue
    <2> QED
      BY <2>1, <2>2 DEF Origins
  <1>7. row.token # RefreshValue(Len(minted) + 1)
    <2>1. row.token.id # Len(minted) + 1
      BY <1>3 DEF TypeOK
    <2> QED
      BY <1>3, <2>1, ValueFacts
  <1>8. \A p \in oauth_token_pairs : p.refresh_token # row.token
    BY <1>3
  <1>9. minted[row.token.id].root = RootOf(row.token)
    BY DEF RootOf
  <1> HIDE DEF row, resource, origin
  <1>10. MintedInv'
    BY <1>1, <1>3, <1>4, <1>5, <1>6, <1>9, MintedGrows DEF DataInv
  <1>11. DataInv'
    BY <1>1, <1>2, <1>3, <1>4, <1>5, <1>6, <1>7, <1>8, <1>10, StorePairData
  <1>12. HandlersInv'
    BY <1>1, <1>6, PlainHandlerStep
  <1> QED
    BY <1>11, <1>12

\* revoke_token.
LEMMA RevokeTokenInductive ==
    ASSUME IndInv, NEW h \in Handlers, RevokeToken(h)
    PROVE  DataInv' /\ HandlersInv'
  <1> DEFINE token == op[h].token
  <1> USE DEF IndInv
  <1>1. /\ CanRun(h) /\ op' = [op EXCEPT ![h] = Idle] /\ Idle.step = "idle"
        /\ UNCHANGED <<oauth_authorization_codes, grants, minted>>
    BY DEF RevokeToken, Finish, Idle
  <1>2. HandlersInv'
    BY <1>1, PlainHandlerStep
  <1>3. CASE \E pair \in oauth_token_pairs : RevokePair(pair)
    <2>1. PICK pair \in oauth_token_pairs : RevokePair(pair)
      BY <1>3
    <2>2. oauth_token_pairs' = oauth_token_pairs \ {pair}
      BY <2>1, PairFacts DEF RevokePair
    <2> QED
      BY <1>1, <1>2, <2>1, <2>2, DeletePairData DEF RevokePair
  <1>4. CASE /\ PairOf(token) = {}
             /\ oauth_access_tokens' =
                  {a \in oauth_access_tokens : a.token # token}
             /\ oauth_refresh_tokens' =
                  {r \in oauth_refresh_tokens : r.token # token}
             /\ UNCHANGED oauth_token_pairs
    <2>1. /\ \A a \in oauth_access_tokens : a.token # token
          /\ \A r \in oauth_refresh_tokens : r.token # token
      BY <1>4 DEF DataInv, PairIntegrity, PairOf
    <2>2. UNCHANGED <<oauth_access_tokens, oauth_refresh_tokens>>
      BY <1>4, <2>1
    <2> QED
      BY <1>1, <1>2, <1>4, <2>2, DataUnchanged DEF tokenTables
  <1> QED
    BY <1>3, <1>4 DEF RevokeToken, PairOf

\* load_authorization_code and load_refresh_token: the row handed to the
\* caller is the one of an issued code, or of a minted token.
LEMMA LoadInductive ==
    ASSUME IndInv, NEW h \in Handlers,
           \/ \E client \in Clients, row \in oauth_authorization_codes :
                LoadCode(h, client, row)
           \/ \E client \in Clients, row \in oauth_refresh_tokens :
                LoadRefresh(h, client, row)
    PROVE  DataInv' /\ HandlersInv'
  <1> USE DEF IndInv
  <1>1. /\ CanRun(h)
        /\ UNCHANGED <<oauth_authorization_codes, tokenTables, grants, minted>>
    BY DEF LoadCode, LoadRefresh, CanRun, tables, tokenTables
  <1>2. /\ Len(grants) \in Nat /\ Len(minted) \in Nat
        /\ Len(grants) <= Len(grants) /\ Len(minted) <= Len(minted)
    BY DEF TypeOK
  <1>3. ASSUME NEW client \in Clients, NEW row \in oauth_authorization_codes,
               LoadCode(h, client, row)
        PROVE  HandlersInv'
    <2> DEFINE o == [step |-> "exchange_code", client |-> client, row |-> row]
    <2>1. op' = [op EXCEPT ![h] = o] /\ o.step = "exchange_code" /\ o.row = row
      BY <1>3 DEF LoadCode, HandToCaller
    <2>2. op'[h] = o
      BY <2>1 DEF TypeOK
    <2>3. Code(row.code, row)
      BY DEF DataInv, CodesInv
    <2> HIDE DEF o
    <2>4. HandlerInv(h)'
      BY <1>1, <2>1, <2>2, <2>3 DEF HandlerInv, Reissuing, Code
    <2> QED
      BY <1>1, <1>2, <2>1, <2>4, OtherHandlers DEF DataInv
  <1>4. ASSUME NEW client \in Clients, NEW row \in oauth_refresh_tokens,
               LoadRefresh(h, client, row)
        PROVE  HandlersInv'
    <2> DEFINE o == [step |-> "exchange_refresh", client |-> client, row |-> row]
    <2>1. op' = [op EXCEPT ![h] = o] /\ o.step = "exchange_refresh" /\ o.row = row
      BY <1>4 DEF LoadRefresh, HandToCaller
    <2>2. op'[h] = o
      BY <2>1 DEF TypeOK
    <2>3. Loaded(row)
      BY PairFacts DEF DataInv, PairIntegrity, TokenBinding, Loaded
    <2> HIDE DEF o
    <2>4. HandlerInv(h)'
      BY <1>1, <2>1, <2>2, <2>3 DEF HandlerInv, Reissuing, Loaded, RootOf
    <2> QED
      BY <1>1, <1>2, <2>1, <2>4, OtherHandlers DEF DataInv
  <1> QED
    BY <1>1, <1>3, <1>4, DataUnchanged

\* handle_login_callback's _put_model of the new code.
LEMMA PutCodeInductive ==
    ASSUME IndInv, NEW h \in Handlers, PutCode(h)
    PROVE  DataInv' /\ HandlersInv'
  <1> DEFINE row == op[h].row
             o   == [step |-> "delete_state", row |-> row]
             e   == [client |-> row.client, resource |-> row.resource]
  <1>1. e \in Grants
    BY DEF IndInv, TypeOK, PutCode, Ops, Idle, StateRows, Grants
  <1>2. /\ CanRun(h) /\ op' = [op EXCEPT ![h] = o] /\ o.step = "delete_state"
        /\ UNCHANGED minted /\ grants' = Append(grants, e)
    BY DEF PutCode, Continue
  <1> HIDE DEF o, e
  <1>3. HandlersInv'
    BY <1>1, <1>2, PlainHandlerStep DEF IndInv
  <1> QED
    BY <1>3, PutCodeData DEF IndInv

\* Every other step of a handler changes no data, and leaves the handler
\* with no row of a code or of a refresh token.
LEMMA OtherStepInductive ==
    ASSUME IndInv, NEW h \in Handlers,
           \/ \E row \in oauth_states : LoginCallback(h, row)
           \/ DeleteState(h)
           \/ \E token \in TokenValues : LoadForRevoke(h, token)
           \/ \E a \in oauth_access_tokens : LoadExpiredAccess(h, a)
           \/ Abort(h)
    PROVE  DataInv' /\ HandlersInv'
  <1>1. /\ CanRun(h)
        /\ UNCHANGED <<oauth_authorization_codes, tokenTables, grants, minted>>
    BY DEF LoginCallback, DeleteState, LoadForRevoke, LoadExpiredAccess, Abort,
           CanRun, tables, tokenTables
  <1>2. PICK o : /\ op' = [op EXCEPT ![h] = o]
                 /\ o.step \in {"put_code", "revoke", "idle"}
    BY DEF LoginCallback, DeleteState, LoadForRevoke, LoadExpiredAccess, Abort,
           Continue, HandToCaller, Finish, Idle
  <1>3. HandlersInv'
    BY <1>1, <1>2, PlainHandlerStep DEF IndInv
  <1> QED
    BY <1>1, <1>3, DataUnchanged DEF IndInv

-----------------------------------------------------------------------------
(* The invariant, and what follows from it.                                *)

\* An empty database with idle handlers satisfies the invariant.
LEMMA IndInvInit == Init => IndInv
  <1> SUFFICES ASSUME Init PROVE IndInv
    OBVIOUS
  <1>1. /\ grants \in Seq(Grants) /\ minted \in Seq(Origins)
        /\ Len(minted) = 0 /\ Idle \in Ops /\ Idle.step = "idle"
    BY DEF Init, Ops, Idle
  <1>2. TypeOK
    BY <1>1 DEF Init, TypeOK
  <1>3. DataInv
    BY <1>1 DEF Init, DataInv, CodesInv, MintedInv, PairsInv, PairIntegrity,
                TokenBinding, SpentOnce
  <1>4. HandlersInv
    BY <1>1 DEF Init, HandlersInv, HandlerInv, Reissuing
  <1> QED
    BY <1>2, <1>3, <1>4 DEF IndInv

\* Every transaction, failure and crash keeps the invariant.
LEMMA IndInvNext == IndInv /\ [Next]_vars => IndInv'
  <1> SUFFICES ASSUME IndInv, [Next]_vars PROVE IndInv'
    OBVIOUS
  <1>1. TypeOK'
    BY TypeInductive DEF IndInv
  <1> SUFFICES DataInv' /\ HandlersInv'
    BY <1>1 DEF IndInv
  <1>2. ASSUME UNCHANGED <<oauth_authorization_codes, tokenTables, grants,
                           minted>>,
               UNCHANGED <<op, running>>
        PROVE  DataInv' /\ HandlersInv'
    BY <1>2, DataUnchanged DEF IndInv, HandlersInv, HandlerInv, Reissuing, Code,
       Loaded, RootOf, tokenTables
  <1>3. CASE \/ Tick
             \/ \E s \in States, c \in Clients, r \in Resources :
                  Authorize(s, c, r)
             \/ \E row \in oauth_states : LoadExpiredState(row)
             \/ UNCHANGED vars
    BY <1>2, <1>3 DEF Tick, Authorize, LoadExpiredState, vars, tables, tokenTables
  <1>4. CASE Crash
    <2>1. HandlersInv'
      BY <1>4 DEF Crash, HandlersInv, HandlerInv, Reissuing, Idle
    <2> QED
      BY <1>4, <2>1, DataUnchanged DEF IndInv, Crash, tables, tokenTables
  <1>5. {a.token : a \in oauth_access_tokens}
        \cup {r.token : r \in oauth_refresh_tokens} \subseteq TokenValues
    BY DEF IndInv, TypeOK, AccessRows, RefreshRows
  <1>6. ASSUME NEW h \in Handlers,
               \/ \E row \in oauth_states : LoginCallback(h, row)
               \/ PutCode(h)
               \/ DeleteState(h)
               \/ \E client \in Clients, row \in oauth_authorization_codes :
                    LoadCode(h, client, row)
               \/ ExchangeCode(h)
               \/ \E client \in Clients, row \in oauth_refresh_tokens :
                    LoadRefresh(h, client, row)
               \/ DeleteOldPair(h)
               \/ Reissue(h)
               \/ \E token \in TokenValues : LoadForRevoke(h, token)
               \/ \E a \in oauth_access_tokens : LoadExpiredAccess(h, a)
               \/ RevokeToken(h)
               \/ Abort(h)
        PROVE  DataInv' /\ HandlersInv'
    BY <1>6, PutCodeInductive, LoadInductive, ExchangeCodeInductive,
       DeleteOldPairInductive, ReissueInductive, RevokeTokenInductive,
       OtherStepInductive
  <1> QED
    BY <1>3, <1>4, <1>5, <1>6 DEF Next

\* The inductive invariant holds of the provider for ever.
THEOREM Invariance == Spec => []IndInv
  BY IndInvInit, IndInvNext, PTL DEF Spec

\* Every table holds rows of its schema and every handler is at a step of
\* the provider's code, in every reachable state.
THEOREM TypeCorrect == Spec => []TypeOK
  <1>1. IndInv => TypeOK
    BY DEF IndInv
  <1> QED
    BY <1>1, Invariance, PTL

\* No race of exchanges, rotations, revocations, failures and crashes leaves
\* two usable pairs, or a usable pair and its code, of the same login.
THEOREM GrantHasOneHolder == Spec => []OneHolder
  <1>1. IndInv => OneHolder
    <2> SUFFICES ASSUME IndInv PROVE OneHolder
      OBVIOUS
    <2>1. \A p, q \in oauth_token_pairs :
            RootOf(p.refresh_token) = RootOf(q.refresh_token) => p = q
      BY DEF IndInv, DataInv, PairsInv
    <2>2. \A p \in oauth_token_pairs, r \in oauth_authorization_codes :
            RootOf(p.refresh_token) # r.code
      BY RootFacts DEF IndInv
    <2>3. \A h \in Handlers : Reissuing(h) =>
            /\ running = h
            /\ \A p \in oauth_token_pairs :
                 RootOf(p.refresh_token) # RootOf(op[h].row.token)
            /\ \A r \in oauth_authorization_codes :
                 r.code # RootOf(op[h].row.token)
      BY DEF IndInv, HandlersInv, HandlerInv
    <2> QED
      BY <2>1, <2>2, <2>3 DEF OneHolder
  <1> QED
    BY <1>1, Invariance, PTL

\* A code or a refresh token is exchanged for a pair once at most.
THEOREM CodesAndTokensAreSpentOnce == Spec => []SpentOnce
  <1>1. IndInv => SpentOnce
    BY DEF IndInv, DataInv
  <1> QED
    BY <1>1, Invariance, PTL

\* The token tables agree with each other after every transaction.
THEOREM TablesAgree == Spec => []PairIntegrity
  <1>1. IndInv => PairIntegrity
    BY DEF IndInv, DataInv
  <1> QED
    BY <1>1, Invariance, PTL

\* A token carries the client and the resource of its login for ever.
THEOREM TokensKeepTheirBinding == Spec => []TokenBinding
  <1>1. IndInv => TokenBinding
    BY DEF IndInv, DataInv
  <1> QED
    BY <1>1, Invariance, PTL

-----------------------------------------------------------------------------
(* The life cycle of a grant: FinanceOAuthProvider implements              *)
(* GrantLifecycle.                                                         *)

HasCode(c) == \E r \in oauth_authorization_codes : r.code = c
HasPair(c, n) == \E p \in oauth_token_pairs :
                   RootOf(p.refresh_token) = c /\ p.refresh_token.id = n
Rotates(c, n) == \E h \in Handlers :
                   /\ Reissuing(h)
                   /\ RootOf(op[h].row.token) = c
                   /\ op[h].row.token.id = n

\* What GrantPhase and GrantPair say of a grant, without CHOOSE.
IsIn(c, phase, n) ==
    \/ phase = "unissued" /\ n = 0 /\ c > Len(grants)
    \/ phase = "code" /\ n = 0 /\ HasCode(c)
    \/ phase = "live" /\ HasPair(c, n)
    \/ phase = "rotating" /\ Rotates(c, n)
    \/ /\ phase = "ended" /\ n = 0 /\ c \in 1..Len(grants)
       /\ ~HasCode(c)
       /\ \A m : ~HasPair(c, m) /\ ~Rotates(c, m)

Located == \A c \in Nat \ {0} : \A phase, n :
             IsIn(c, phase, n) <=> phase = GrantPhase(c) /\ n = GrantPair(c)

\* A grant is held in one place, so the mapping is the place it is in.
LEMMA GrantsLocated == IndInv => Located
  <1> SUFFICES ASSUME IndInv, NEW c \in Nat \ {0}, NEW phase, NEW n
               PROVE  IsIn(c, phase, n)
                      <=> phase = GrantPhase(c) /\ n = GrantPair(c)
    BY DEF Located
  <1> USE DEF IndInv
  <1>1. Len(grants) \in Nat
    BY DEF TypeOK
  <1>2. HasCode(c) => c \in 1..Len(grants)
    BY DEF HasCode, DataInv, CodesInv, Code
  <1>3. ASSUME NEW p \in oauth_token_pairs, RootOf(p.refresh_token) = c
        PROVE  /\ c \in 1..Len(grants) /\ ~HasCode(c)
               /\ \A m : ~Rotates(c, m)
               /\ p = CHOOSE q \in oauth_token_pairs : RootOf(q.refresh_token) = c
    <2>1. c \in 1..Len(grants) /\ ~HasCode(c)
      BY <1>3, RootFacts DEF HasCode
    <2>2. \A m : ~Rotates(c, m)
      BY <1>3 DEF Rotates, HandlersInv, HandlerInv
    <2>3. \A q \in oauth_token_pairs : RootOf(q.refresh_token) = c => q = p
      BY <1>3 DEF DataInv, PairsInv
    <2> QED
      BY <1>3, <2>1, <2>2, <2>3
  <1>4. ASSUME NEW h \in Handlers, Reissuing(h), RootOf(op[h].row.token) = c
        PROVE  /\ c \in 1..Len(grants) /\ ~HasCode(c)
               /\ \A m : ~HasPair(c, m)
               /\ h = CHOOSE k \in Handlers :
                        Reissuing(k) /\ RootOf(op[k].row.token) = c
    <2>1. HandlerInv(h) /\ op[h].step = "reissue"
      BY <1>4 DEF HandlersInv, Reissuing
    <2>2. c \in 1..Len(grants)
      BY <1>4, <2>1 DEF HandlerInv, Loaded, DataInv, MintedInv, RootOf
    <2>3. ~HasCode(c) /\ \A m : ~HasPair(c, m)
      BY <1>4, <2>1 DEF HandlerInv, HasCode, HasPair
    <2>4. \A k \in Handlers : Reissuing(k) => k = h
      BY <1>4 DEF HandlersInv, HandlerInv
    <2> QED
      BY <1>4, <2>2, <2>3, <2>4
  <1>5. CASE c > Len(grants)
    <2>1. /\ GrantPhase(c) = "unissued" /\ GrantPair(c) = 0
      BY <1>5 DEF GrantPhase, GrantPair
    <2>2. /\ c \notin 1..Len(grants) /\ ~HasCode(c)
          /\ \A m : ~HasPair(c, m) /\ ~Rotates(c, m)
      BY <1>1, <1>2, <1>3, <1>4, <1>5 DEF HasPair, Rotates
    <2> QED
      BY <1>5, <2>1, <2>2 DEF IsIn
  <1>6. CASE ~(c > Len(grants)) /\ HasCode(c)
    <2>1. /\ GrantPhase(c) = "code" /\ GrantPair(c) = 0
      BY <1>6 DEF GrantPhase, GrantPair, HasCode
    <2>2. \A m : ~HasPair(c, m) /\ ~Rotates(c, m)
      BY <1>3, <1>4, <1>6 DEF HasPair, Rotates
    <2> QED
      BY <1>6, <2>1, <2>2 DEF IsIn
  <1>7. CASE \E p \in oauth_token_pairs : RootOf(p.refresh_token) = c
    <2>1. PICK p \in oauth_token_pairs : RootOf(p.refresh_token) = c
      BY <1>7
    <2>2. /\ c \in 1..Len(grants) /\ ~(c > Len(grants)) /\ ~HasCode(c)
          /\ \A m : ~Rotates(c, m)
          /\ p = CHOOSE q \in oauth_token_pairs : RootOf(q.refresh_token) = c
      BY <1>1, <1>3, <2>1
    <2>3. GrantPhase(c) = "live"
      BY <2>1, <2>2 DEF GrantPhase, HasCode
    <2>4. GrantPair(c) = p.refresh_token.id
      BY <2>2, <2>3 DEF GrantPair
    <2>5. \A m : HasPair(c, m) <=> m = p.refresh_token.id
      BY <2>1 DEF HasPair, DataInv, PairsInv
    <2> QED
      BY <2>2, <2>3, <2>4, <2>5 DEF IsIn
  <1>8. CASE \E h \in Handlers : Reissuing(h) /\ RootOf(op[h].row.token) = c
    <2>1. PICK h \in Handlers : Reissuing(h) /\ RootOf(op[h].row.token) = c
      BY <1>8
    <2>2. /\ c \in 1..Len(grants) /\ ~(c > Len(grants)) /\ ~HasCode(c)
          /\ \A m : ~HasPair(c, m)
          /\ h = CHOOSE k \in Handlers :
                   Reissuing(k) /\ RootOf(op[k].row.token) = c
      BY <1>1, <1>4, <2>1
    <2>3. GrantPhase(c) = "rotating"
      BY <2>1, <2>2 DEF GrantPhase, HasCode, HasPair
    <2>4. GrantPair(c) = op[h].row.token.id
      BY <2>2, <2>3 DEF GrantPair
    <2>5. \A m : Rotates(c, m) <=> m = op[h].row.token.id
      BY <2>1 DEF Rotates, HandlersInv, HandlerInv
    <2> QED
      BY <2>2, <2>3, <2>4, <2>5 DEF IsIn
  <1>9. CASE /\ ~(c > Len(grants)) /\ ~HasCode(c)
             /\ ~\E p \in oauth_token_pairs : RootOf(p.refresh_token) = c
             /\ ~\E h \in Handlers : Reissuing(h) /\ RootOf(op[h].row.token) = c
    <2>1. GrantPhase(c) = "ended"
      BY <1>9 DEF GrantPhase, HasCode
    <2>2. GrantPair(c) = 0
      BY <2>1 DEF GrantPair
    <2>3. /\ c \in 1..Len(grants)
          /\ \A m : ~HasPair(c, m) /\ ~Rotates(c, m)
      BY <1>1, <1>9 DEF HasPair, Rotates
    <2> QED
      BY <1>9, <2>1, <2>2, <2>3 DEF IsIn
  <1> QED
    BY <1>5, <1>6, <1>7, <1>8, <1>9

\* The same of the state after a step.
LEMMA GrantsLocatedNext == IndInv' => Located'
  BY GrantsLocated, PTL

\* The grant c stays where it is.
SamePlace(c) ==
    /\ (c > Len(grants))' <=> c > Len(grants)
    /\ HasCode(c)' <=> HasCode(c)
    /\ \A n : HasPair(c, n)' <=> HasPair(c, n)
    /\ \A n : Rotates(c, n)' <=> Rotates(c, n)

\* What a step of the provider may do to the grants.
LifecycleStep == Lifecycle!Next \/ UNCHANGED Lifecycle!lifecycle

\* The mapping shows no change of a grant that stays where it is.
LEMMA SamePlaceSamePhase ==
    ASSUME Located, Located', NEW c \in Nat \ {0}, SamePlace(c),
           Len(grants) \in Nat, Len(grants') \in Nat
    PROVE  GrantPhase(c)' = GrantPhase(c) /\ GrantPair(c)' = GrantPair(c)
  <1>1. PICK ph, n : ph = GrantPhase(c) /\ n = GrantPair(c)
    OBVIOUS
  <1>2. IsIn(c, ph, n)
    BY <1>1 DEF Located
  <1>3. IsIn(c, ph, n)'
    BY <1>2 DEF IsIn, SamePlace
  <1>4. ph = GrantPhase(c)' /\ n = GrantPair(c)'
    BY <1>3 DEF Located
  <1> QED
    BY <1>1, <1>4

\* A step that moves no grant and issues no pair is a stutter.
LEMMA NoGrantMoves ==
    ASSUME IndInv, IndInv', \A c \in Codes : SamePlace(c), UNCHANGED minted
    PROVE  LifecycleStep
  <1>1. Located /\ Located'
    BY GrantsLocated, GrantsLocatedNext
  <1>2. /\ Codes \subseteq Nat \ {0}
        /\ Len(grants) \in Nat /\ Len(grants') \in Nat
    BY BoundAssumption DEF Codes, IndInv, TypeOK
  <1>3. \A c \in Codes :
          GrantPhase(c)' = GrantPhase(c) /\ GrantPair(c)' = GrantPair(c)
    BY <1>1, <1>2, SamePlaceSamePhase
  <1> QED
    BY <1>3 DEF LifecycleStep, Lifecycle!lifecycle

\* A step that moves one grant moves it from one place to another.
LEMMA OneGrantMoves ==
    ASSUME IndInv, IndInv', NEW g \in Codes, NEW from, NEW m, NEW to, NEW n,
           \A c \in Codes \ {g} : SamePlace(c),
           IsIn(g, from, m), IsIn(g, to, n)',
           \/ from = "unissued" /\ to = "code" /\ UNCHANGED minted
           \/ /\ from \in {"code", "rotating"} /\ to = "live"
              /\ Len(minted') = Len(minted) + 1 /\ n = Len(minted')
           \/ from = "live" /\ to = "rotating" /\ n = m /\ UNCHANGED minted
           \/ /\ from \in {"live", "rotating"} /\ to = "ended"
              /\ UNCHANGED minted
    PROVE  LifecycleStep
  <1> DEFINE phase == [c \in Codes |-> GrantPhase(c)]
             pair  == [c \in Codes |-> GrantPair(c)]
  <1>1. Located /\ Located'
    BY GrantsLocated, GrantsLocatedNext
  <1>2. /\ Codes \subseteq Nat \ {0}
        /\ Len(grants) \in Nat /\ Len(grants') \in Nat
    BY BoundAssumption DEF Codes, IndInv, TypeOK
  <1>3. \A c \in Codes \ {g} :
          GrantPhase(c)' = GrantPhase(c) /\ GrantPair(c)' = GrantPair(c)
    BY <1>1, <1>2, SamePlaceSamePhase
  <1>4. /\ GrantPhase(g) = from /\ GrantPair(g) = m
        /\ GrantPhase(g)' = to /\ GrantPair(g)' = n
    BY <1>1, <1>2 DEF Located
  <1>5. /\ phase' = [phase EXCEPT ![g] = to]
        /\ pair' = [pair EXCEPT ![g] = n]
        /\ phase[g] = from /\ pair[g] = m
    BY <1>3, <1>4
  <1>6. /\ from = "unissued" => m = 0
        /\ to \in {"code", "ended"} => n = 0
    BY DEF IsIn
  <1>7. n = m => pair' = pair
    BY <1>3, <1>4
  <1> HIDE DEF phase, pair
  <1>8. CASE from = "unissued" /\ to = "code" /\ UNCHANGED minted
    <2>1. Lifecycle!Login(g)
      BY <1>5, <1>6, <1>7, <1>8 DEF Lifecycle!Login, phase, pair
    <2> QED
      BY <2>1 DEF LifecycleStep, Lifecycle!Next
  <1>9. CASE /\ from \in {"code", "rotating"} /\ to = "live"
             /\ Len(minted') = Len(minted) + 1 /\ n = Len(minted')
    <2>1. Lifecycle!Mint(g)
      BY <1>5, <1>9 DEF Lifecycle!Mint, phase, pair
    <2> QED
      BY <2>1 DEF LifecycleStep, Lifecycle!Next
  <1>10. CASE from = "live" /\ to = "rotating" /\ n = m /\ UNCHANGED minted
    <2>1. Lifecycle!StartRotation(g)
      BY <1>5, <1>7, <1>10 DEF Lifecycle!StartRotation, phase, pair
    <2> QED
      BY <2>1 DEF LifecycleStep, Lifecycle!Next
  <1>11. CASE /\ from \in {"live", "rotating"} /\ to = "ended"
              /\ UNCHANGED minted
    <2>1. Lifecycle!End(g)
      BY <1>5, <1>6, <1>11 DEF Lifecycle!End, phase, pair
    <2> QED
      BY <2>1 DEF LifecycleStep, Lifecycle!Next
  <1> QED
    BY <1>8, <1>9, <1>10, <1>11

\* The model issues no more codes than its bound.
CodesBounded == Len(grants) <= MaxCodes

\* An issued code is one of the grants of the life cycle.
LEMMA RootsAreCodes ==
    ASSUME IndInv, CodesBounded, NEW c \in 1..Len(grants)
    PROVE  c \in Codes
  BY BoundAssumption DEF IndInv, TypeOK, CodesBounded, Codes

\* While h can run no other handler is in the middle of a rotation.
LEMMA LoneRotation ==
    ASSUME HandlersInv, NEW h \in Handlers, CanRun(h),
           NEW k \in Handlers, Reissuing(k)
    PROVE  k = h
  BY SchedulingAssumption DEF HandlersInv, HandlerInv, CanRun

\* A step that changes no code, no pair and no history ends the rotation
\* that was in progress, if there was one, or moves no grant.
LEMMA NoDataStep ==
    ASSUME IndInv, IndInv', CodesBounded,
           UNCHANGED <<oauth_authorization_codes, oauth_token_pairs, grants,
                       minted>>,
           \A k \in Handlers : ~Reissuing(k)'
    PROVE  LifecycleStep
  <1>1. \A c : /\ (c > Len(grants))' <=> c > Len(grants)
               /\ HasCode(c)' <=> HasCode(c)
               /\ \A n : (HasPair(c, n)' <=> HasPair(c, n)) /\ ~Rotates(c, n)'
    BY DEF HasCode, HasPair, Rotates, RootOf
  <1>2. CASE \A k \in Handlers : ~Reissuing(k)
    BY <1>1, <1>2, NoGrantMoves DEF SamePlace, Rotates
  <1>3. CASE \E k \in Handlers : Reissuing(k)
    <2>1. PICK k \in Handlers : Reissuing(k)
      BY <1>3
    <2>0. PICK g, m : g = RootOf(op[k].row.token) /\ m = op[k].row.token.id
      OBVIOUS
    <2>2. /\ Loaded(op[k].row)
          /\ \A j \in Handlers : Reissuing(j) => j = k
          /\ ~HasCode(g) /\ \A n : ~HasPair(g, n)
      BY <2>1, <2>0 DEF IndInv, HandlersInv, HandlerInv, Reissuing, HasCode, HasPair
    <2>3. g \in 1..Len(grants)
      BY <2>2, <2>0 DEF Loaded, IndInv, DataInv, MintedInv, RootOf
    <2>4. Rotates(g, m) /\ \A c, n : Rotates(c, n) => c = g
      BY <2>1, <2>2, <2>0 DEF Rotates
    <2>5. IsIn(g, "rotating", m) /\ IsIn(g, "ended", 0)'
      BY <1>1, <2>2, <2>3, <2>4 DEF IsIn
    <2>6. \A c \in Codes \ {g} : SamePlace(c)
      BY <1>1, <2>4 DEF SamePlace
    <2> QED
      BY <2>3, <2>5, <2>6, RootsAreCodes, OneGrantMoves
  <1> QED
    BY <1>2, <1>3

\* A login adds a code for a grant that did not exist.
LEMMA PutCodeMoves ==
    ASSUME IndInv, IndInv', NEW h \in Handlers, PutCode(h)
    PROVE  LifecycleStep
  <1>1. PICK g : g = Len(grants) + 1
    OBVIOUS
  <1> DEFINE e == [client |-> op[h].row.client, resource |-> op[h].row.resource]
  <1>2. e \in Grants
    BY DEF IndInv, TypeOK, PutCode, Ops, Idle, StateRows, Grants
  <1>3. /\ Len(grants) \in Nat /\ Len(grants') = g
        /\ g \in Codes /\ g > Len(grants)
    <2>1. grants' = Append(grants, e) /\ Len(grants) < MaxCodes
      BY DEF PutCode
    <2> HIDE DEF e
    <2> QED
      BY <1>1, <1>2, <2>1, AppendFacts, BoundAssumption DEF IndInv, TypeOK, Codes
  <1>4. /\ UNCHANGED <<oauth_token_pairs, minted>>
        /\ \A c : HasCode(c)' <=> HasCode(c) \/ c = g
    <2>1. PICK new : /\ new.code = g
                     /\ oauth_authorization_codes' =
                          oauth_authorization_codes \cup {new}
                     /\ UNCHANGED <<oauth_token_pairs, minted>>
      <3> DEFINE new == [code |-> g, client |-> op[h].row.client,
                         resource |-> op[h].row.resource,
                         expires_at |-> now + CodeTTL]
      <3>1. /\ oauth_authorization_codes' =
                 oauth_authorization_codes \cup {new}
            /\ UNCHANGED <<oauth_token_pairs, minted>>
        BY <1>1 DEF PutCode, tokenTables
      <3>2. new.code = g
        OBVIOUS
      <3> HIDE DEF new
      <3> QED
        BY <3>1, <3>2
    <2> QED
      BY <2>1 DEF HasCode
  <1>5. \A k \in Handlers : ~Reissuing(k) /\ ~Reissuing(k)'
    <2>1. /\ CanRun(h) /\ ~Reissuing(h)
          /\ op' = [op EXCEPT ![h] = [step |-> "delete_state",
                                      row |-> op[h].row]]
      BY DEF PutCode, Continue, Reissuing
    <2>2. \A k \in Handlers : ~Reissuing(k)
      BY <2>1, LoneRotation DEF IndInv
    <2> QED
      BY <2>1, <2>2 DEF IndInv, TypeOK, Reissuing
  <1>6. \A c \in Codes \ {g} : SamePlace(c)
    BY <1>1, <1>3, <1>4, <1>5
       DEF SamePlace, HasPair, Rotates, RootOf, Codes
  <1>7. IsIn(g, "unissued", 0) /\ IsIn(g, "code", 0)'
    BY <1>3, <1>4 DEF IsIn
  <1> QED
    BY <1>3, <1>4, <1>6, <1>7, OneGrantMoves

\* What storing a new pair for the grant g does to where the grants are.
LEMMA StoreMoves ==
    ASSUME IndInv, NEW g, NEW client, NEW resource, NEW origin \in Origins,
           origin.root = g,
           StoreTokenPair(oauth_access_tokens, oauth_refresh_tokens,
                          oauth_token_pairs, client, resource, origin)
    PROVE  /\ Len(minted') = Len(minted) + 1
           /\ \A c, n : HasPair(c, n)' <=>
                HasPair(c, n) \/ (c = g /\ n = Len(minted'))
  <1>1. /\ Len(minted') = Len(minted) + 1
        /\ \A i \in 1..Len(minted) : minted'[i] = minted[i]
        /\ minted'[Len(minted) + 1] = origin
        /\ Len(minted) \in Nat
    BY AppendFacts DEF IndInv, TypeOK, StoreTokenPair
  <1>2. PICK new : new = [access_token |-> AccessValue(Len(minted) + 1),
                          refresh_token |-> RefreshValue(Len(minted) + 1),
                          resource |-> resource]
    OBVIOUS
  <1>3. oauth_token_pairs' = oauth_token_pairs \cup {new}
    BY <1>2 DEF StoreTokenPair
  <1>4. new.refresh_token.id = Len(minted')
    BY <1>1, <1>2, ValueFacts
  <1>5. RootOf(new.refresh_token)' = g
    BY <1>1, <1>4 DEF RootOf
  <1>6. \A p \in oauth_token_pairs :
          RootOf(p.refresh_token)' = RootOf(p.refresh_token)
    BY <1>1, PairFacts DEF IndInv, RootOf
  <1> QED
    BY <1>1, <1>3, <1>4, <1>5, <1>6 DEF HasPair

\* Redeeming a code mints the first pair of its grant.
LEMMA ExchangeCodeMoves ==
    ASSUME IndInv, IndInv', CodesBounded, NEW h \in Handlers, ExchangeCode(h)
    PROVE  LifecycleStep
  <1>1. /\ CanRun(h) /\ ~Reissuing(h) /\ UNCHANGED grants
        /\ op' = [op EXCEPT ![h] = Idle]
    BY DEF ExchangeCode, Finish, Reissuing
  <1>2. \A k \in Handlers : ~Reissuing(k) /\ ~Reissuing(k)'
    BY <1>1, LoneRotation DEF IndInv, TypeOK, Reissuing, Idle
  <1>3. CASE ~(MayUse(op[h].client, op[h].row) /\ CodeIsThere(op[h].row))
    BY <1>1, <1>2, <1>3, NoDataStep DEF ExchangeCode, tokenTables
  <1>4. CASE MayUse(op[h].client, op[h].row) /\ CodeIsThere(op[h].row)
    <2>1. PICK row, g : row = op[h].row /\ g = row.code
      OBVIOUS
    <2> DEFINE origin == [src |-> CodeValue(g), root |-> g]
    <2>2. /\ oauth_authorization_codes' =
               {r \in oauth_authorization_codes : r.code # g}
          /\ StoreTokenPair(oauth_access_tokens, oauth_refresh_tokens,
                            oauth_token_pairs, row.client, row.resource, origin)
          /\ HasCode(g)
      BY <1>4, <2>1 DEF ExchangeCode, MayUse, CodeIsThere, HasCode
    <2>3. g \in 1..Len(grants) /\ origin \in Origins
      BY <2>2 DEF HasCode, IndInv, DataInv, CodesInv, Code, TypeOK, Origins,
                  CodeValue
    <2>4. /\ Len(minted') = Len(minted) + 1
          /\ \A c, n : HasPair(c, n)' <=>
               HasPair(c, n) \/ (c = g /\ n = Len(minted'))
      BY <2>2, <2>3, StoreMoves
    <2>5. \A c : HasCode(c)' <=> HasCode(c) /\ c # g
      BY <2>2 DEF HasCode
    <2>6. \A c \in Codes \ {g} : SamePlace(c)
      BY <1>1, <1>2, <2>4, <2>5 DEF SamePlace, Rotates
    <2>7. PICK n : n = Len(minted')
      OBVIOUS
    <2>8. IsIn(g, "code", 0) /\ IsIn(g, "live", n)'
      BY <2>2, <2>4, <2>7 DEF IsIn
    <2> QED
      BY <2>3, <2>4, <2>6, <2>7, <2>8, RootsAreCodes, OneGrantMoves
  <1> QED
    BY <1>3, <1>4

\* Deleting the old pair starts a rotation of its grant.
LEMMA DeleteOldPairMoves ==
    ASSUME IndInv, IndInv', CodesBounded, NEW h \in Handlers, DeleteOldPair(h)
    PROVE  LifecycleStep
  <1>1. /\ CanRun(h) /\ ~Reissuing(h)
        /\ UNCHANGED <<oauth_authorization_codes, grants, minted>>
    BY DEF DeleteOldPair, Reissuing
  <1>2. \A k \in Handlers : ~Reissuing(k)
    BY <1>1, LoneRotation DEF IndInv
  <1> DEFINE usable == {p \in oauth_token_pairs :
                          /\ MayUse(op[h].client, op[h].row)
                          /\ p.refresh_token = op[h].row.token}
  <1>3. CASE usable = {}
    <2>1. op' = [op EXCEPT ![h] = Idle] /\ UNCHANGED oauth_token_pairs
      BY <1>3 DEF DeleteOldPair, Finish, tokenTables
    <2>2. \A k \in Handlers : ~Reissuing(k)'
      BY <1>2, <2>1 DEF IndInv, TypeOK, Reissuing, Idle
    <2> QED
      BY <1>1, <2>1, <2>2, NoDataStep
  <1>4. CASE usable # {}
    <2>1. PICK pair \in oauth_token_pairs :
            /\ pair.refresh_token = op[h].row.token
            /\ RotateOut(pair)
            /\ Continue(h, [step |-> "reissue", client |-> op[h].client,
                            row |-> op[h].row,
                            resource |-> RotatedResource(pair)])
      BY <1>4 DEF DeleteOldPair
    <2>2. PICK row, g, m : /\ row = op[h].row
                           /\ g = RootOf(row.token)
                           /\ m = row.token.id
      OBVIOUS
    <2>3. /\ oauth_token_pairs' = oauth_token_pairs \ {pair}
          /\ pair.refresh_token = row.token
      BY <2>1, <2>2, PairFacts DEF IndInv, RotateOut
    <2>4. g \in 1..Len(grants)
      BY <2>1, <2>2, RootFacts DEF IndInv
    <2>5. \A c, n : HasPair(c, n)' <=> HasPair(c, n) /\ c # g
      BY <1>1, <2>2, <2>3 DEF HasPair, RootOf, IndInv, DataInv, PairsInv
    <2>6. \A k \in Handlers : /\ Reissuing(k)' <=> k = h
                             /\ op'[h].row = row
      BY <1>2, <2>1, <2>2 DEF Continue, IndInv, TypeOK, Reissuing
    <2>7. \A c, n : Rotates(c, n)' <=> c = g /\ n = m
      BY <1>1, <2>2, <2>6 DEF Rotates, RootOf
    <2>8. \A c \in Codes \ {g} : SamePlace(c)
      BY <1>1, <1>2, <2>5, <2>7 DEF SamePlace, HasCode, Rotates
    <2>9. IsIn(g, "live", m) /\ IsIn(g, "rotating", m)'
      BY <2>1, <2>2, <2>7 DEF IsIn, HasPair
    <2> QED
      BY <1>1, <2>4, <2>8, <2>9, RootsAreCodes, OneGrantMoves
  <1> QED
    BY <1>3, <1>4

\* Storing the new pair finishes the rotation.
LEMMA ReissueMoves ==
    ASSUME IndInv, IndInv', CodesBounded, NEW h \in Handlers, Reissue(h)
    PROVE  LifecycleStep
  <1>1. /\ CanRun(h) /\ Reissuing(h)
        /\ UNCHANGED <<oauth_authorization_codes, grants>>
        /\ op' = [op EXCEPT ![h] = Idle]
    BY DEF Reissue, Finish, Reissuing
  <1>2. PICK row, g, m, resource :
          /\ row = op[h].row /\ resource = op[h].resource
          /\ g = RootOf(row.token) /\ m = row.token.id
    OBVIOUS
  <1> DEFINE origin == [src |-> row.token, root |-> g]
  <1>3. StoreTokenPair(oauth_access_tokens, oauth_refresh_tokens,
                       oauth_token_pairs, row.client, resource, origin)
    BY <1>1, <1>2 DEF Reissue, RootOf, IndInv, HandlersInv, HandlerInv
  <1>4. Loaded(row) /\ \A n : ~HasPair(g, n)
    BY <1>1, <1>2 DEF IndInv, HandlersInv, HandlerInv, Reissuing, HasPair
  <1>5. g \in 1..Len(grants)
    BY <1>2, <1>4 DEF Loaded, IndInv, DataInv, MintedInv, RootOf
  <1>6. origin \in Origins
    <2>1. g \in Nat
      BY <1>5
    <2>2. row.token \in [kind : {"code", "refresh"}, id : Nat]
      BY <1>4 DEF Loaded, IndInv, TypeOK, RefreshValue
    <2> QED
      BY <2>1, <2>2 DEF Origins
  <1>7. /\ Len(minted') = Len(minted) + 1
        /\ \A c, n : HasPair(c, n)' <=>
             HasPair(c, n) \/ (c = g /\ n = Len(minted'))
    BY <1>3, <1>6, StoreMoves
  <1>8. /\ \A k \in Handlers : /\ Reissuing(k) <=> k = h
                              /\ ~Reissuing(k)'
    BY <1>1, LoneRotation DEF IndInv, TypeOK, Reissuing, Idle
  <1>9. \A c, n : /\ Rotates(c, n) <=> c = g /\ n = m
                  /\ ~Rotates(c, n)'
    BY <1>2, <1>8 DEF Rotates
  <1>10. \A c \in Codes \ {g} : SamePlace(c)
    BY <1>1, <1>7, <1>9 DEF SamePlace, HasCode
  <1>11. PICK n : n = Len(minted')
    OBVIOUS
  <1>12. IsIn(g, "rotating", m) /\ IsIn(g, "live", n)'
    BY <1>7, <1>9, <1>11 DEF IsIn
  <1> QED
    BY <1>5, <1>7, <1>10, <1>11, <1>12, RootsAreCodes, OneGrantMoves

\* A revocation ends the grant of the pair it finds.
LEMMA RevokeTokenMoves ==
    ASSUME IndInv, IndInv', CodesBounded, NEW h \in Handlers, RevokeToken(h)
    PROVE  LifecycleStep
  <1>1. /\ CanRun(h) /\ ~Reissuing(h)
        /\ UNCHANGED <<oauth_authorization_codes, grants, minted>>
        /\ op' = [op EXCEPT ![h] = Idle]
    BY DEF RevokeToken, Finish, Reissuing
  <1>2. \A k \in Handlers : ~Reissuing(k) /\ ~Reissuing(k)'
    BY <1>1, LoneRotation DEF IndInv, TypeOK, Reissuing, Idle
  <1>3. CASE UNCHANGED oauth_token_pairs
    BY <1>1, <1>2, <1>3, NoDataStep
  <1>4. CASE \E pair \in oauth_token_pairs : RevokePair(pair)
    <2>1. PICK pair \in oauth_token_pairs : RevokePair(pair)
      BY <1>4
    <2>2. PICK g, m : g = RootOf(pair.refresh_token) /\ m = pair.refresh_token.id
      OBVIOUS
    <2>3. oauth_token_pairs' = oauth_token_pairs \ {pair}
      BY <2>1, PairFacts DEF IndInv, RevokePair
    <2>4. g \in 1..Len(grants) /\ ~HasCode(g)
      BY <2>2, RootFacts DEF IndInv, HasCode
    <2>5. \A c, n : HasPair(c, n)' <=> HasPair(c, n) /\ c # g
      BY <1>1, <2>2, <2>3 DEF HasPair, RootOf, IndInv, DataInv, PairsInv
    <2>6. \A c : /\ HasCode(c)' <=> HasCode(c)
                 /\ \A n : ~Rotates(c, n) /\ ~Rotates(c, n)'
      BY <1>1, <1>2 DEF HasCode, Rotates
    <2>7. \A c \in Codes \ {g} : SamePlace(c)
      BY <1>1, <2>5, <2>6 DEF SamePlace
    <2>8. IsIn(g, "live", m) /\ IsIn(g, "ended", 0)'
      BY <1>1, <2>2, <2>4, <2>5, <2>6 DEF IsIn, HasPair
    <2> QED
      BY <1>1, <2>4, <2>7, <2>8, RootsAreCodes, OneGrantMoves
  <1> QED
    BY <1>3, <1>4 DEF RevokeToken, PairOf

\* Every step of the provider is a step of the life cycle, or none.
LEMMA StepSimulation ==
    ASSUME IndInv, IndInv', CodesBounded, [Next]_vars
    PROVE  LifecycleStep
  <1>1. CASE \/ Tick
             \/ \E s \in States, c \in Clients, r \in Resources :
                  Authorize(s, c, r)
             \/ \E row \in oauth_states : LoadExpiredState(row)
             \/ UNCHANGED vars
    <2>1. UNCHANGED <<oauth_authorization_codes, oauth_token_pairs, op, grants,
                      minted>>
      BY <1>1 DEF Tick, Authorize, LoadExpiredState, vars, tables, tokenTables
    <2> QED
      BY <2>1, NoGrantMoves
         DEF SamePlace, HasCode, HasPair, Rotates, Reissuing, RootOf
  <1>2. ASSUME NEW h \in Handlers,
               \/ \E row \in oauth_states : LoginCallback(h, row)
               \/ DeleteState(h)
               \/ \E client \in Clients, row \in oauth_authorization_codes :
                    LoadCode(h, client, row)
               \/ \E client \in Clients, row \in oauth_refresh_tokens :
                    LoadRefresh(h, client, row)
               \/ \E token : LoadForRevoke(h, token)
               \/ \E a \in oauth_access_tokens : LoadExpiredAccess(h, a)
               \/ Abort(h)
        PROVE  LifecycleStep
    <2>1. /\ CanRun(h)
          /\ UNCHANGED <<oauth_authorization_codes, oauth_token_pairs, grants,
                         minted>>
      BY <1>2 DEF LoginCallback, DeleteState, LoadCode, LoadRefresh,
         LoadForRevoke, LoadExpiredAccess, Abort, CanRun, tables, tokenTables
    <2>2. PICK o : op' = [op EXCEPT ![h] = o] /\ o.step # "reissue"
      BY <1>2 DEF LoginCallback, DeleteState, LoadCode, LoadRefresh,
         LoadForRevoke, LoadExpiredAccess, Abort, Continue, HandToCaller,
         Finish, Idle
    <2>3. \A k \in Handlers : ~Reissuing(k)'
      BY <2>1, <2>2, LoneRotation DEF IndInv, TypeOK, Reissuing
    <2> QED
      BY <2>1, <2>3, NoDataStep
  <1>3. CASE Crash
    <2>1. \A k \in Handlers : ~Reissuing(k)'
      BY <1>3 DEF Crash, Reissuing, Idle
    <2> QED
      BY <1>3, <2>1, NoDataStep DEF Crash, tables
  <1> QED
    BY <1>1, <1>2, <1>3, PutCodeMoves, ExchangeCodeMoves, DeleteOldPairMoves,
       ReissueMoves, RevokeTokenMoves DEF Next

\* The model never issues more codes than its bound.
LEMMA CodesStayBounded == Spec => []CodesBounded
  <1>1. Init => CodesBounded
    BY BoundAssumption DEF Init, CodesBounded
  <1>2. IndInv /\ CodesBounded /\ [Next]_vars => CodesBounded'
    <2> SUFFICES ASSUME IndInv, CodesBounded, [Next]_vars PROVE CodesBounded'
      OBVIOUS
    <2>1. ASSUME NEW h \in Handlers, PutCode(h) PROVE CodesBounded'
      <3> DEFINE e == [client |-> op[h].row.client,
                       resource |-> op[h].row.resource]
      <3>1. e \in Grants /\ grants' = Append(grants, e) /\ Len(grants) < MaxCodes
        BY <2>1 DEF IndInv, TypeOK, PutCode, Ops, Idle, StateRows, Grants
      <3> HIDE DEF e
      <3> QED
        BY <3>1, AppendFacts, BoundAssumption DEF IndInv, TypeOK, CodesBounded
    <2>2. CASE UNCHANGED grants
      BY <2>2 DEF CodesBounded
    <2>3. (\A h \in Handlers : ~PutCode(h)) => UNCHANGED grants
      BY DEF Next, vars, Tick, Authorize, LoadExpiredState, LoginCallback,
         DeleteState, LoadCode, ExchangeCode, LoadRefresh, DeleteOldPair,
         Reissue, LoadForRevoke, LoadExpiredAccess, RevokeToken, Abort, Crash
    <2> QED
      BY <2>1, <2>2, <2>3
  <1> QED
    BY <1>1, <1>2, Invariance, PTL DEF Spec

\* Nothing is issued when the database is empty.
LEMMA LifecycleInit == Init => Lifecycle!Init
  <1> SUFFICES ASSUME Init PROVE Lifecycle!Init
    OBVIOUS
  <1>1. Len(minted) = 0 /\ Len(grants) = 0
    BY DEF Init
  <1>2. ASSUME NEW c \in Codes
        PROVE  GrantPhase(c) = "unissued" /\ GrantPair(c) = 0
    <2>1. c > Len(grants)
      BY <1>1, BoundAssumption DEF Codes
    <2>2. GrantPhase(c) = "unissued"
      BY <2>1 DEF GrantPhase
    <2> QED
      BY <2>2 DEF GrantPair
  <1> QED
    BY <1>1, <1>2 DEF Lifecycle!Init

\* The tables and their handlers implement the life cycle of a grant: no
\* transaction, failure or crash takes a grant anywhere else.
THEOREM Implementation == Spec => ImplementsGrantLifecycle
  <1>1. IndInv /\ IndInv' /\ CodesBounded /\ [Next]_vars
        => [Lifecycle!Next]_(Lifecycle!lifecycle)
    BY StepSimulation DEF LifecycleStep
  <1> QED
    BY <1>1, LifecycleInit, Invariance, CodesStayBounded, PTL
       DEF Spec, ImplementsGrantLifecycle, Lifecycle!Spec

-----------------------------------------------------------------------------
(* Grants that ended, and revocations.                                     *)

\* A grant is alive when the life cycle has it begun and not ended.
AliveIsBegun ==
    \A c \in Nat \ {0} :
      Alive(c) <=> GrantPhase(c) \in {"code", "live", "rotating"}

\* Alive speaks of the same places as the life cycle.
LEMMA AliveFacts == IndInv => AliveIsBegun
  <1> SUFFICES ASSUME IndInv, NEW c \in Nat \ {0}
               PROVE  Alive(c) <=> GrantPhase(c) \in {"code", "live", "rotating"}
    BY DEF AliveIsBegun
  <1>1. Located
    BY GrantsLocated
  <1>2. HasCode(c) => GrantPhase(c) = "code"
    BY <1>1 DEF Located, IsIn
  <1>3. \A n : HasPair(c, n) => GrantPhase(c) = "live"
    BY <1>1 DEF Located, IsIn
  <1>4. \A n : Rotates(c, n) => GrantPhase(c) = "rotating"
    BY <1>1 DEF Located, IsIn
  <1>5. Alive(c) => HasCode(c) \/ \E n : HasPair(c, n) \/ Rotates(c, n)
    BY DEF Alive, HasCode, HasPair, Rotates
  <1>6. GrantPhase(c) \in {"code", "live", "rotating"} => Alive(c)
    BY DEF GrantPhase, Alive
  <1> QED
    BY <1>2, <1>3, <1>4, <1>5, <1>6

\* The same of the state after a step.
LEMMA AliveFactsNext == IndInv' => AliveIsBegun'
  BY AliveFacts, PTL

\* A grant that ended stays so: whatever rows the handlers still hold, no
\* later step of theirs gives its client a code or a pair again.
THEOREM EndedGrantsStayEnded == Spec => EndedStaysEnded
  <1>1. ASSUME IndInv, IndInv', CodesBounded, [Next]_vars
        PROVE  \A c \in 1..Len(grants) : ~Alive(c) => ~Alive(c)'
    <2> SUFFICES ASSUME NEW c \in 1..Len(grants), ~Alive(c)
                 PROVE  ~Alive(c)'
      OBVIOUS
    <2> DEFINE phase == [g \in Codes |-> GrantPhase(g)]
    <2>1. c \in Codes /\ c \in Nat \ {0} /\ ~(c > Len(grants))
      BY <1>1, RootsAreCodes DEF IndInv, TypeOK
    <2>2. GrantPhase(c) = "ended"
      <3>1. GrantPhase(c) \notin {"code", "live", "rotating"}
        BY <1>1, <2>1, AliveFacts DEF AliveIsBegun
      <3> QED
        BY <2>1, <3>1 DEF GrantPhase
    <2>3. LifecycleStep
      BY <1>1, StepSimulation
    <2>4. phase'[c] = "ended"
      <3>1. phase[c] = "ended"
        BY <2>1, <2>2
      <3>2. \/ phase' = phase
            \/ \E g \in Codes : \E to :
                 phase[g] # "ended" /\ phase' = [phase EXCEPT ![g] = to]
        BY <2>3 DEF LifecycleStep, Lifecycle!Next, Lifecycle!lifecycle,
           Lifecycle!Login, Lifecycle!Mint, Lifecycle!StartRotation, Lifecycle!End
      <3>3. phase = [g \in DOMAIN phase |-> phase[g]] /\ DOMAIN phase = Codes
        OBVIOUS
      <3> HIDE DEF phase
      <3> QED
        BY <2>1, <3>1, <3>2, <3>3
    <2>5. GrantPhase(c)' = "ended"
      BY <2>1, <2>4
    <2> QED
      BY <1>1, <2>1, <2>5, AliveFactsNext DEF AliveIsBegun
  <1> QED
    BY <1>1, Invariance, CodesStayBounded, PTL DEF Spec, EndedStaysEnded

\* What a revocation in progress has found: while the caller of the
\* provider does not suspend, no other handler runs until it is over, so the
\* token is still there.
Revoking(h) ==
    op[h].step = "revoke" =>
      \/ \E a \in oauth_access_tokens : a.token = op[h].token
      \/ \E r \in oauth_refresh_tokens : r.token = op[h].token

Undisturbed ==
    ~CallerSuspends =>
      \A h \in Handlers : /\ op[h] # Idle => running = h
                          /\ Revoking(h)

\* Only one handler is inside a request, so nothing is deleted behind it.
LEMMA UndisturbedInductive ==
    IndInv /\ Undisturbed /\ [Next]_vars => Undisturbed'
  <1> SUFFICES ASSUME IndInv, Undisturbed, [Next]_vars, ~CallerSuspends,
                      NEW k \in Handlers
               PROVE  (op[k] # Idle => running = k)' /\ Revoking(k)'
    BY DEF Undisturbed
  <1> USE SchedulingAssumption
  <1>1. ASSUME NEW h \in Handlers, CanRun(h), NEW o,
               op' = [op EXCEPT ![h] = o],
               o = Idle \/ running' = h,
               o.step = "revoke" =>
                 \/ \E a \in oauth_access_tokens' : a.token = o.token
                 \/ \E r \in oauth_refresh_tokens' : r.token = o.token
        PROVE  (op[k] # Idle => running = k)' /\ Revoking(k)'
    <2>1. op'[h] = o /\ \A j \in Handlers \ {h} : op'[j] = op[j]
      BY <1>1 DEF IndInv, TypeOK
    <2>2. \A j \in Handlers \ {h} : op[j] = Idle
      BY <1>1 DEF CanRun, Undisturbed
    <2>3. Idle.step # "revoke"
      BY DEF Idle
    <2> QED
      BY <1>1, <2>1, <2>2, <2>3 DEF Revoking
  <1>2. CASE \/ Tick
             \/ \E s \in States, c \in Clients, r \in Resources :
                  Authorize(s, c, r)
             \/ \E row \in oauth_states : LoadExpiredState(row)
             \/ UNCHANGED vars
    BY <1>2 DEF Tick, Authorize, LoadExpiredState, vars, tables, tokenTables,
       Undisturbed, Revoking
  <1>3. CASE Crash
    BY <1>3 DEF Crash, Revoking, Idle
  <1>4. ASSUME NEW h \in Handlers,
               \/ DeleteState(h)
               \/ ExchangeCode(h)
               \/ Reissue(h)
               \/ RevokeToken(h)
               \/ Abort(h)
        PROVE  (op[k] # Idle => running = k)' /\ Revoking(k)'
    <2>1. CanRun(h) /\ op' = [op EXCEPT ![h] = Idle] /\ Idle.step # "revoke"
      BY <1>4 DEF DeleteState, ExchangeCode, Reissue, RevokeToken, Abort,
         Finish, Idle
    <2> QED
      BY <1>1, <2>1
  <1>5. ASSUME NEW h \in Handlers,
               \/ \E row \in oauth_states : LoginCallback(h, row)
               \/ PutCode(h)
               \/ \E client \in Clients, row \in oauth_authorization_codes :
                    LoadCode(h, client, row)
               \/ \E client \in Clients, row \in oauth_refresh_tokens :
                    LoadRefresh(h, client, row)
               \/ DeleteOldPair(h)
        PROVE  (op[k] # Idle => running = k)' /\ Revoking(k)'
    <2>1. /\ CanRun(h)
          /\ \E o : /\ op' = [op EXCEPT ![h] = o] /\ o.step # "revoke"
                    /\ o = Idle \/ running' = h
      BY <1>5 DEF LoginCallback, PutCode, LoadCode, LoadRefresh, DeleteOldPair,
         Continue, HandToCaller, Finish, Idle, CanRun
    <2> QED
      BY <1>1, <2>1
  <1>6. ASSUME NEW h \in Handlers, NEW token,
               \/ LoadForRevoke(h, token)
               \/ \E a \in oauth_access_tokens :
                    token = a.token /\ LoadExpiredAccess(h, a)
        PROVE  (op[k] # Idle => running = k)' /\ Revoking(k)'
    <2>1. /\ CanRun(h) /\ running' = h
          /\ UNCHANGED <<oauth_access_tokens, oauth_refresh_tokens>>
          /\ \/ \E a \in oauth_access_tokens : a.token = token
             \/ \E r \in oauth_refresh_tokens : r.token = token
      BY <1>6 DEF LoadForRevoke, LoadExpiredAccess, Continue, HandToCaller,
         CanRun, tables
    <2>2. \E o : op' = [op EXCEPT ![h] = o] /\ o.token = token
      BY <1>6 DEF LoadForRevoke, LoadExpiredAccess, Continue, HandToCaller
    <2> QED
      BY <1>1, <2>1, <2>2
  <1> QED
    BY <1>2, <1>3, <1>4, <1>5, <1>6 DEF Next

\* A revocation always finds the token it loaded.
LEMMA UndisturbedAlways == Spec => []Undisturbed
  <1>1. Init => Undisturbed
    <2>1. Idle.step # "revoke"
      BY DEF Idle
    <2> QED
      BY <2>1 DEF Init, Undisturbed, Revoking
  <1> QED
    BY <1>1, UndisturbedInductive, Invariance, PTL DEF Spec

\* Revoking the token of a stored pair leaves nothing of its grant.
LEMMA RevokedIsOver ==
    ASSUME IndInv, NEW h \in Handlers, RevokeToken(h), Revoking(h),
           NEW c, c = RootOf(op[h].token)
    PROVE  ~Alive(c)'
  <1>1. /\ CanRun(h) /\ ~Reissuing(h) /\ op[h].step = "revoke"
        /\ UNCHANGED <<oauth_authorization_codes, grants, minted>>
        /\ op' = [op EXCEPT ![h] = Idle]
    BY DEF RevokeToken, Finish, Reissuing
  <1>2. \A k \in Handlers : ~Reissuing(k)'
    BY <1>1, LoneRotation DEF IndInv, TypeOK, Reissuing, Idle
  <1>3. PairOf(op[h].token) # {}
    BY <1>1 DEF Revoking, IndInv, DataInv, PairIntegrity, PairOf
  <1>4. PICK pair \in PairOf(op[h].token) : RevokePair(pair)
    BY <1>3 DEF RevokeToken
  <1>5. pair \in oauth_token_pairs /\ RootOf(pair.refresh_token) = c
    BY <1>4, PairFacts DEF IndInv, PairOf, RootOf
  <1>6. oauth_token_pairs' = oauth_token_pairs \ {pair}
    BY <1>4, <1>5, PairFacts DEF IndInv, RevokePair
  <1>7. \A p \in oauth_token_pairs' : RootOf(p.refresh_token)' # c
    BY <1>1, <1>5, <1>6 DEF IndInv, DataInv, PairsInv, RootOf
  <1>8. \A r \in oauth_authorization_codes' : r.code # c
    BY <1>1, <1>5, RootFacts DEF IndInv
  <1> QED
    BY <1>2, <1>7, <1>8 DEF Alive

\* When revoke_token returns, neither half of the pair is left, nor
\* anything else of the grant, if the revocation handler does not suspend
\* between the load and the revocation (as the SDK's does not).
THEOREM RevocationEndsTheGrant ==
    ASSUME ~CallerSuspends PROVE Spec => RevocationIsFinal
  <1>1. ASSUME IndInv, Undisturbed, [Next]_vars
        PROVE  \A h \in Handlers :
                 RevokeToken(h) =>
                   \A c \in 1..Len(grants) :
                     c = RootOf(op[h].token) => ~Alive(c)'
    BY <1>1, RevokedIsOver DEF Undisturbed
  <1> QED
    BY <1>1, Invariance, UndisturbedAlways, PTL DEF Spec, RevocationIsFinal
=============================================================================
