------------------------------ MODULE MCCheckIn ------------------------------
EXTENDS CheckIn, TLC

Symmetry == Permutations(Handlers) \cup Permutations(Slots)
===============================================================================
