------------------------- MODULE MCTaiwanStockPrices -------------------------
(* An instance of TaiwanStockPrices for TLC: the days around the turn of a  *)
(* year.                                                                    *)
EXTENDS TaiwanStockPrices

MCMonthOf == <<<<0, 11>>, <<0, 12>>, <<0, 12>>, <<1, 1>>>>
MCKeys == {<<0, 11>>, <<0, 12>>, <<1, 1>>}
MCValues == Payloads

\* Two months, three that are too many once the new year has begun, and a
\* window that lies in the future until then.
MCWindows == {<<2, None>>, <<1, None>>, <<4, None>>}
=============================================================================
