---------------------------- MODULE MCTrojanPool ----------------------------
\* TrojanPool on a few clients that are interchangeable.
EXTENDS TrojanPool

ClientSymmetry == Permutations(Clients)
=============================================================================
