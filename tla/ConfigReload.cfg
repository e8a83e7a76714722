SPECIFICATION FairSpec
CONSTANTS
    MainContents <- FewMains
    RulesContents <- FewRules
    Reloads = {g1, g2}
    MaxEdits = 3
    MaxEvents = 2
INVARIANTS
    AppliedServes
    AloneAgrees
PROPERTIES
    OnlyOverlapsGoBack
    EditsRead
CHECK_DEADLOCK FALSE
