SPECIFICATION Spec
CONSTANTS
    MainContents <- SomeMains
    RulesContents <- SomeRules
    Reloads = {g1, g2}
    MaxEdits = 2
    MaxEvents = 2
SYMMETRY ReloadSymmetry
INVARIANT ComponentsAgree
CHECK_DEADLOCK FALSE
