------------------------------ MODULE MCReveal ------------------------------
EXTENDS NoteReveal, TLC

RequestSymmetry == Permutations(Requests) \cup Permutations(Replicas)
=============================================================================
