------------------------------ MODULE MCEip93 ------------------------------
\* Instance for TLC.
EXTENDS Eip93, TLC

Symmetry == Permutations(Reqs)
=============================================================================
