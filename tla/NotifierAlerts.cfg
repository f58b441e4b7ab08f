\* What the trader writes, without commands: all tables, more rows than a
\* flush looks at, sends that fail and processes that end.
SPECIFICATION FairSpec
CONSTANTS
    None = None
    OrderRows <- MCOrderRows
    PositionRows <- MCPositionRows
    CheckpointRows <- MCCheckpointRows
    RiskRows <- MCRiskRows
    UpdateKinds = {}
    FaultKinds = {"sql", "lost", "timeout", "refused"}
    CriticalAttempts = 2
    FetchLimit = 1
    RowLimit = 2
    MaxInputs = 3
    MaxFaults = 2
INVARIANTS
    ToldOnce
PROPERTIES
    WrittenIsTold
