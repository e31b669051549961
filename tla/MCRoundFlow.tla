---------------------------- MODULE MCRoundFlow ----------------------------
\* The round flow for TLC: slots are interchangeable
EXTENDS RoundFlow, TLC

Symmetry == Permutations(Slots)
=============================================================================
