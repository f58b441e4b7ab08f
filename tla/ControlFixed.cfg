\* The production setup: a fixed snapshot in mode normal, started in normal.
SPECIFICATION Spec
CONSTANTS
    None = None
    NumSymbols = 2
    PublicFaults = {"public_ws_disconnected"}
    PrivateFaults = {"private_ws_disconnected"}
    StickyWarn = {}
    StickyCritical = {"orders_decode_error"}
    DefaultRunMode = 0
    FixedSnapshot <- FixedNormal
    Publishable <- PublishNothing
    MaxSignals = 1
    MaxVersion = 1
INVARIANTS
    TypeOK
    ReconcileKeepsHalted
    FaultsBoundMode
    StoreShowsRuntime
    HaltStopsEvaluations
PROPERTY
    RelaxesOnlyWhenClean
