-------------------------- MODULE MCJsonHttpClient --------------------------
(* The module that TLC runs JsonHttpClient from.                            *)
EXTENDS JsonHttpClient
=============================================================================
