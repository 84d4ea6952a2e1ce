------------------------------ MODULE MCLogger ------------------------------
EXTENDS Logger, TLC
Symmetry == Permutations(Producers)
=============================================================================
