-------------------------- MODULE MCWalletLifecycle --------------------------
(* The ids are interchangeable, and every property checked under the        *)
(* symmetry is an invariant.                                                *)
EXTENDS WalletLifecycle, TLC
CONSTANTS w1, w2, w3, n1, n2

MCIds == {w1, w2, w3}
MCTwoIds == {w1, w2}
MCNames == {n1, n2}
MCSymmetry == Permutations(MCIds)
=============================================================================
