SPECIFICATION FairSpec
CONSTANTS
    a = a
    b = b
    Names <- TwoNodes
    Configs <- ReloadConfigs
    Conns = {c1}
    Rounds = {1, 2}
    MaxId = 2
    Flaky = {a}
    NoNode = NoNode
INVARIANTS
    StatusPerNode
    StreakMarks
    ActiveConnsNotLeaked
PROPERTIES
    HealthTurnsOn
    ProbeStaysOnItsObject
    NodeRecovers
CHECK_DEADLOCK FALSE
