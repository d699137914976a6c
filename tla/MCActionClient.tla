--------------------------- MODULE MCActionClient ---------------------------
(* An instance of ActionClient for TLC.                                     *)
EXTENDS ActionClient

CONSTANTS prices, quote, unknown, plain, padded, other

\* Two inputs with the same normal form and a third with another.  The FinMind
\* action refuses one.
MCNormal ==
    [c \in (DirectActions \X Inputs) \ {<<prices, padded>>} |->
       IF c[2] = padded THEN plain ELSE c[2]]

\* One parameter holds the whole input.
Query(input) == [q |-> input]
MCParams == [x \in DirectActions \X {plain, other} |-> Query(x[2])]
MCQueries == {Query(plain), Query(other)}

MCKeys == Requests
MCValues == Questions \cup {None}

Symmetry == Permutations(Tasks)
=============================================================================
