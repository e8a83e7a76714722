------------------------------ MODULE MCRouter ------------------------------
\* Router with two domains, two addresses, and lists that use every type of rule.
\* The last two are refused.
EXTENDS Router, TLC

CONSTANTS d1, d2, a1, a2, l1, l2, l3, l4

Rule(type, pattern, action) == [type |-> type, pattern |-> pattern, action |-> action]
Final == Rule("FINAL", {}, "PROXY")

Lists ==
    l1 :> <<Rule("IP-CIDR", {a1}, "REJECT"), Rule("GEOIP", {a2}, "DIRECT"), Final>>
    @@ l2 :> <<Rule("DOMAIN", {d1}, "DIRECT"), Final>>
    @@ l3 :> <<Rule("DOMAIN-SUFFIX", {d1}, "DIRECT"), Rule("IP-CIDR", {a1}, "REJECT")>>
    @@ l4 :> <<Final, Final>>
=============================================================================
