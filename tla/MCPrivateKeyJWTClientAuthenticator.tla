----------------- MODULE MCPrivateKeyJWTClientAuthenticator -----------------
(* An instance of PrivateKeyJWTClientAuthenticator for TLC.                 *)
EXTENDS PrivateKeyJWTClientAuthenticator, TLC

Symmetry == Permutations(Requests)

\* An identifier presented with several windows, a second identifier that
\* competes for the cache, and a lifetime that is too long.
MCAssertions ==
    [client : Clients, jti : {1}, iat : {0}, exp : {1, 2}]
    \cup [client : Clients, jti : {1}, iat : {1}, exp : {3}]
    \cup [client : Clients, jti : {2}, iat : {0}, exp : {2, 4}]
=============================================================================
