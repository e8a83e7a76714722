----------------------------- MODULE MCFailover -----------------------------
\* Failover with two nodes, one with twice the weight of the other.
EXTENDS Failover

CONSTANTS a, b

TwoNodes == {a, b}
Unchanged == {{a, b}}
ListOrder == <<a, b>>
Uneven == a :> 2 @@ b :> 1
=============================================================================
