-------------------------- MODULE MCBarAggregator --------------------------
(* BarAggregator on one token and two prices. *)
EXTENDS BarAggregator

CONSTANT fut

OneToken == {fut}
TwoPrices == 1..2
MoreOrLess == {-1, 1}
=============================================================================
