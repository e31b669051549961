------------------------- MODULE MCZombieSelection -------------------------
\* The zombie selection for TLC: persons are interchangeable, and so are slots
EXTENDS ZombieSelection, TLC

Symmetry == Permutations(Slots) \cup Permutations(People)
=============================================================================
