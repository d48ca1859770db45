----------------------------- MODULE MCSendForm -----------------------------
(* A small instance of SendForm: one good and one bad address, an amount    *)
(* that leaves room in the balance for the fee at one rate and not at the   *)
(* other (the fallback), and an empty wallet.                               *)
EXTENDS SendForm

CONSTANTS a1, x1

MCGood == {a1}
MCBad == {x1}
MCAmounts == {0, 2}
MCBalances == {0, 3}
MCRates == {1}
=============================================================================
