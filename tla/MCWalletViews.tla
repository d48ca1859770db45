---------------------------- MODULE MCWalletViews ----------------------------
(* A small instance of WalletViews: two wallets, one of which has been paid  *)
(* to its second address and is paid to its first, and a gap of two.         *)
EXTENDS WalletViews

CONSTANTS w1, w2

MCWallets == {w1, w2}
MCPayable == {<<w1, 0>>, <<w1, 1>>}
MCHistory == [w \in MCWallets |-> IF w = w1 THEN {1} ELSE {}]
=============================================================================
