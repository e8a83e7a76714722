SPECIFICATION FairSpec
CONSTANTS
    r1 = r1
    r2 = r2
    Requests <- TwoRequests
    MaxConcurrent = 2
INVARIANTS
    AdmissionExact
    NothingLeftBehind
    OutcomeReported
    FailedClientsClosed
    TunnelAnsweredOnce
PROPERTIES
    CopiersEnd
    TunnelFreesSlot
CHECK_DEADLOCK FALSE
