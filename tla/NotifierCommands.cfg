\* The operator's commands, without trader rows: batches, updates of other
\* chats or without text, polls and transfers that fail, processes that end.
SPECIFICATION FairSpec
CONSTANTS
    None = None
    OrderRows <- NoRows
    PositionRows <- NoRows
    CheckpointRows <- NoRows
    RiskRows <- NoRows
    UpdateKinds = {"query", "transfer", "foreign", "unusable"}
    FaultKinds = {"kill", "lost", "refused"}
    CriticalAttempts = 3
    FetchLimit = 2
    RowLimit = 2
    MaxInputs = 3
    MaxFaults = 2
INVARIANTS
    TypeOK
    ForgottenWereHandled
    TransfersAudited
PROPERTIES
    HandledOncePerProcess
    CommandsHandled
