SPECIFICATION Spec
CONSTANTS
    V4 <- MCV4
    V6 <- MCV6
    Resolve <- MCResolve
    Route <- MCRoute
    AdminText <- MCAdminText
    LbIds <- MCLbIds
    Sids <- MCSids
    ServerAddrs <- MCBareAddrs
    Choices <- MCChoices
    LbadmWorker <- MCLbadmWorker
    WorkerRuns <- MCWorkerRuns
    SenderRuns <- MCSenderRuns
    MaxTools = 1
    MaxRegistered = 1
    Beside = {"free", "register", "removesenders"}
INVARIANT
    ExportedAgrees
CHECK_DEADLOCK FALSE
