--------------------------- MODULE MCDesktopShell ---------------------------
EXTENDS DesktopShell, TLC
CONSTANTS s1, s2

MCSeeds == {s1, s2}
MCSymmetry == Permutations(MCSeeds)
=============================================================================
