---------------------------- MODULE MCCacheBench ----------------------------
EXTENDS CacheBench, TLC

CONSTANTS k1, k2, k3, k4

MCKey == {k1, k2, k3, k4}

MCSymmetry == Permutations(MCKey)
=============================================================================
