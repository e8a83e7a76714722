-------------------------- MODULE MCHealthChecker --------------------------
\* HealthChecker with two nodes, one of them listed at a time: a reload replaces a by b
\* or b by a, or brings the same list again.
EXTENDS HealthChecker, TLC

CONSTANTS a, b

TwoNodes == {a, b}
OnlyA == a :> TRUE
OnlyB == b :> TRUE

ReloadConfigs == {OnlyA, OnlyB}
=============================================================================
