--------------------------- MODULE MCTrojanClient ---------------------------
\* One pool and its sockets, all names interchangeable.
EXTENDS TrojanClient

Symm == Permutations(Clients) \cup Permutations(Sockets) \cup Permutations(Requests)
=============================================================================
