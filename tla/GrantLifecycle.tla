--------------------------- MODULE GrantLifecycle ---------------------------
(***************************************************************************)
(* What FinanceOAuthProvider promises about a grant, the authority one     *)
(* login gives a client, without tables, rows, handlers or clock:          *)
(*                                                                         *)
(*   unissued -> code -> live -> rotating -> live -> ... -> ended          *)
(*                                                                         *)
(* A grant is `live' through one token pair, and pairs are numbered in the *)
(* order they are issued.  A grant may end at any time (a revocation, an   *)
(* expiry, a failure), and an ended grant is over.                         *)
(***************************************************************************)
EXTENDS Naturals

CONSTANT Grants     \* a set of grants

VARIABLES
    phase,          \* phase[g], see above
    pair,           \* pair[g], the pair of a live or rotating grant, else 0
    issued          \* the number of pairs issued so far

lifecycle == <<phase, pair, issued>>

Init ==
    /\ phase = [g \in Grants |-> "unissued"]
    /\ pair = [g \in Grants |-> 0]
    /\ issued = 0

Login(g) ==
    /\ phase[g] = "unissued"
    /\ phase' = [phase EXCEPT ![g] = "code"]
    /\ UNCHANGED <<pair, issued>>

\* The only ways to a new pair: redeeming the code and finishing a rotation.
Mint(g) ==
    /\ phase[g] \in {"code", "rotating"}
    /\ issued' = issued + 1
    /\ phase' = [phase EXCEPT ![g] = "live"]
    /\ pair' = [pair EXCEPT ![g] = issued']

\* The old pair is given up before the new one exists.
StartRotation(g) ==
    /\ phase[g] = "live"
    /\ phase' = [phase EXCEPT ![g] = "rotating"]
    /\ UNCHANGED <<pair, issued>>

End(g) ==
    /\ phase[g] \in {"live", "rotating"}
    /\ phase' = [phase EXCEPT ![g] = "ended"]
    /\ pair' = [pair EXCEPT ![g] = 0]
    /\ UNCHANGED issued

Next == \E g \in Grants : Login(g) \/ Mint(g) \/ StartRotation(g) \/ End(g)

Spec == Init /\ [][Next]_lifecycle
=============================================================================
