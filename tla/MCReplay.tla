------------------------------ MODULE MCReplay ------------------------------
EXTENDS Replay, TLC

CONSTANTS i1, i2

MCIterator == {i1, i2}

MCSymmetry == Permutations(MCIterator)
=============================================================================
