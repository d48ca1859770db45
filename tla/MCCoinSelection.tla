-------------------------- MODULE MCCoinSelection --------------------------
(* Values at the boundaries of the arithmetic: coins worth less than the    *)
(* 57.5 bytes they cost, change at the 294 of dust and on both sides of it. *)
EXTENDS CoinSelection

MCCoinValues == {1, 58, 116, 300, 411, 704, 748, 749, 1300}
MCTargets == {300, 1000}
MCOutputCounts == {1, 2}
MCFeeRates == {1, 2}
MCMaxCoins == 4
=============================================================================
