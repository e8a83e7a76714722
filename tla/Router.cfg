SPECIFICATION FairSpec
CONSTANTS
    d1 = d1
    d2 = d2
    a1 = a1
    a2 = a2
    Domains = {d1, d2}
    Addresses = {a1, a2}
    Targets = {d1, d2, a1}
    Routes = {r1, r2}
    RuleList <- Lists
    NoList = NoList
    l1 = l1
    l2 = l2
    l3 = l3
    l4 = l4
    GeoIP = TRUE
    MaxEntries = 1
    NoAddress = NoAddress
PROPERTIES
    DecisionIsFirstMatch
    InsertEvicts
    RulesTakeEffect
