-------------------------- MODULE MCDurableStorage --------------------------
EXTENDS DurableStorage, TLC
CONSTANTS registry, gate, v1, v2, w1, w2

MCKeys == {registry, gate}
MCVals == {v1, v2}
MCWrites == {w1, w2}
MCSymmetry == Permutations(MCWrites)
=============================================================================
