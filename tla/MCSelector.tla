----------------------------- MODULE MCSelector -----------------------------
\* Selector with two nodes, of which one may be removed and added again.
EXTENDS Selector

CONSTANTS a, b

TwoNodes == {a, b}
AddAndRemove == {{a, b}, {b}}

\* The proxy is serving: the shutdown of the selector is left out.
ServingSpec == Init /\ [][Next /\ nodes' # {}]_vars

Symm == Permutations(Clients) \cup Permutations(Workers) \cup Permutations(Reloads)
=============================================================================
