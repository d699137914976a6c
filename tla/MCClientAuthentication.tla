----------------------- MODULE MCClientAuthentication -----------------------
(* An instance of ClientAuthentication for TLC.                              *)
EXTENDS ClientAuthentication

CONSTANTS cimd, registeredUrl, secret, unknown

\* A URL and a plain id that are registered, beside one of each that is not.
MCRegistered == [id \in {registeredUrl, secret} |->
                   IF id = secret THEN "client_secret" ELSE "private_key_jwt"]
=============================================================================
