------------------------------ MODULE MCKeys ------------------------------
EXTENDS ContentKeys, TLC

ServerSymmetry == Permutations(Servers)
=============================================================================
