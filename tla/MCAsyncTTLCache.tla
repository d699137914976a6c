-------------------------- MODULE MCAsyncTTLCache --------------------------
(* An instance of AsyncTTLCacheUse for TLC.                                 *)
EXTENDS AsyncTTLCacheUse, TLC

Symmetry == Permutations(Keys) \cup Permutations(Values)
=============================================================================
