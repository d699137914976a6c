----------------------- MODULE MCTaiwanStockNewsClient -----------------------
(* Instances of TaiwanStockNewsClient for TLC.                              *)
EXTENDS TaiwanStockNewsClient

CONSTANTS rise, fall, split

MCKeys == {"google", "yahoo"}
MCStories == {rise, fall, split}

\* A fall is taken for a repetition of a rise but not a rise for one of a fall,
\* and a fall and a split for repetitions of each other.
MCSimilar ==
    {<<x, x>> : x \in MCStories}
    \cup {<<fall, rise>>, <<fall, split>>, <<split, fall>>}

MCGoogleTexts ==
    {Feed(<<>>), Feed(<<rise, fall, split>>), Feed(<<fall, rise>>),
     Broken("ParseError"), Broken("ValueError")}
MCYahooTexts ==
    {Feed(<<>>), Feed(<<rise, fall>>), Feed(<<split, rise>>),
     Broken("RuntimeError"), Broken("ValueError")}
MCValues == MCGoogleTexts \cup MCYahooTexts

Symmetry == Permutations(Callers)
=============================================================================
