SPECIFICATION Spec
CONSTANTS
    MainContents <- SomeMains
    RulesContents <- SomeRules
    Reloads = {g1}
    MaxEdits = 2
    MaxEvents = 2
INVARIANT BrokenNeverApplied
CHECK_DEADLOCK FALSE
