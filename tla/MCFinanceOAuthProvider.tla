----------------------- MODULE MCFinanceOAuthProvider -----------------------
(* Instances of FinanceOAuthProvider for TLC.                               *)
EXTENDS FinanceOAuthProvider, TLC

Symmetry == Permutations(Handlers) \cup Permutations(Clients)
=============================================================================
